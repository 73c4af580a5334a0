--------------------------- MODULE ImportResolution ---------------------------
(***************************************************************************)
(* What resolving the imports of a request promises, whatever algorithm    *)
(* does it: files are emitted one at a time, each after everything it      *)
(* imports; the result is accepted only when every requested file is in    *)
(* it; and a request is rejected, with nothing delivered, only when it has *)
(* no answer.  ImportWalk implements this specification.                   *)
(***************************************************************************)
EXTENDS ImportGraph

CONSTANT Jobs

VARIABLES job, out, verdict

absVars == <<job, out, verdict>>

AbsInit ==
    /\ job \in Jobs
    /\ out = <<>>
    /\ verdict = "pending"

\* A file of a descriptor set is taken as it is.
EmitPreloaded(f) ==
    /\ verdict = "pending"
    /\ f \in Preloaded(job) \ Range(out)
    /\ out' = Append(out, f)
    /\ UNCHANGED <<job, verdict>>

\* A source file is emitted once, if it is needed, after all its imports.
EmitSource(f) ==
    /\ verdict = "pending"
    /\ f \in Needed(job) \ (Preloaded(job) \cup Range(out))
    /\ job.content[f] = "parses"
    /\ Expand(job, f) \subseteq Range(out)
    /\ out' = Append(out, f)
    /\ UNCHANGED <<job, verdict>>

Accept ==
    /\ verdict = "pending"
    /\ Range(job.relFiles) \cup Preloaded(job) \subseteq Range(out)
    /\ verdict' = "accepted"
    /\ UNCHANGED <<job, out>>

Reject ==
    /\ verdict = "pending"
    /\ ~Clean(job)
    /\ verdict' = "rejected"
    /\ out' = <<>>
    /\ UNCHANGED job

AbsNext ==
    \/ \E f \in File : EmitPreloaded(f) \/ EmitSource(f)
    \/ Accept
    \/ Reject

\* A verdict is eventually reached.
AbsFairness == WF_absVars(AbsNext)

AbsSafety == AbsInit /\ [][AbsNext]_absVars

AbsSpec == AbsSafety /\ AbsFairness
===============================================================================
