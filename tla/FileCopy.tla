------------------------------ MODULE FileCopy ------------------------------
(***************************************************************************)
(* What a file transfer promises to the user who started it: while a job   *)
(* runs it touches only the files it was agreed to write, and when it is   *)
(* reported done each of these is a whole copy of a source file.  A job    *)
(* that stops in between promises nothing more than the first.             *)
(***************************************************************************)
CONSTANTS Jobs, Files

VARIABLES
    phase,      \* "stopped", "running" or "done"
    agreed,     \* files the running job may write
    dest        \* "copy": a whole copy of the source, or "other"

copyVars == <<phase, agreed, dest>>
Contents == {"copy", "other"}

CopyInit ==
    /\ phase = [j \in Jobs |-> "stopped"]
    /\ agreed = [j \in Jobs |-> {}]
    /\ dest \in [Jobs -> [Files -> Contents]]

\* Only files of the set A may differ afterwards.
Touches(j, A) ==
    \E d \in [Files -> Contents] :
        /\ \A f \in Files \ A : d[f] = dest[j][f]
        /\ dest' = [dest EXCEPT ![j] = d]

Begin(j) ==
    /\ phase[j] # "running"
    /\ phase' = [phase EXCEPT ![j] = "running"]
    /\ \E A \in SUBSET Files : agreed' = [agreed EXCEPT ![j] = A]
    /\ UNCHANGED dest

\* An answer for one file; a resumed one is the job's from then on.
Agree(j, f) ==
    /\ phase[j] = "running"
    /\ agreed' \in {[agreed EXCEPT ![j] = @ \cup {f}],
                    [agreed EXCEPT ![j] = @ \ {f}]}
    /\ Touches(j, agreed'[j] \cap {f})
    /\ UNCHANGED phase

Put(j) ==
    /\ phase[j] = "running"
    /\ Touches(j, agreed[j])
    /\ UNCHANGED <<phase, agreed>>

Finish(j) ==
    /\ phase[j] = "running"
    /\ Touches(j, agreed[j])
    /\ \A f \in agreed[j] : dest'[j][f] = "copy"
    /\ phase' = [phase EXCEPT ![j] = "done"]
    /\ agreed' = [agreed EXCEPT ![j] = {}]

\* Jobs fail or are cancelled, all of them when the connection is lost.
Stop(J) ==
    /\ phase' = [j \in Jobs |-> IF j \in J THEN "stopped" ELSE phase[j]]
    /\ agreed' = [j \in Jobs |-> IF j \in J THEN {} ELSE agreed[j]]
    /\ UNCHANGED dest

CopyNext ==
    \/ \E j \in Jobs : Begin(j) \/ Put(j) \/ Finish(j) \/ \E f \in Files : Agree(j, f)
    \/ \E J \in SUBSET Jobs : Stop(J)

CopySpec == CopyInit /\ [][CopyNext]_copyVars
============================================================================
