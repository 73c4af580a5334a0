------------------------------- MODULE PluginRun -------------------------------
(***************************************************************************)
(* The plugin loop of cli.Run in full: for each plugin with an output,     *)
(* RunPluginCommand exchanges a request for an answer over two pipes       *)
(* (PluginSubprocess), and what comes back is collected and written        *)
(* (PluginOutput, where running a plugin is a single step).  A plugin left *)
(* behind by a failed exchange may still run when the command has ended.   *)
(***************************************************************************)
EXTENDS PluginOutput

CONSTANTS
    PipeCapacity, Requests, Responses,    \* of PluginSubprocess
    Programs        \* of each command line, the programs its plugins may be

VARIABLES
    kind, request, response, call, toWrite, received, result,
    stdin, stdout, child, sawEOF, closedIn, closedOut, written, status

\* call is the program counter of RunPluginCommand, "idle" outside it.
Exchange == INSTANCE PluginSubprocess WITH pc <- call

ASSUME PipeAssumption ==
    /\ PipeCapacity \in Nat \ {0}
    /\ Requests \subseteq Nat \ {0}
    /\ Responses \subseteq Nat

ASSUME ProgramsAssumption ==
    /\ DOMAIN Programs = Runs
    /\ \A r \in Runs : Programs[r] \subseteq Exchange!Program

exchangeVars == <<kind, request, response, call, toWrite, received, result, stdin, stdout,
                  child, sawEOF, closedIn, closedOut, written, status>>
loopVars == vars
allVars == <<loopVars, exchangeVars>>

LoopInit == Init /\ Exchange!Init

-------------------------------------------------------------------------------
CallPlugin ==
    /\ ToRun
    /\ \E program \in Programs[run] : Exchange!Call(program)
    /\ UNCHANGED loopVars

Within == Exchange!Within /\ UNCHANGED loopVars

ReturnAnswer ==
    /\ result = "response"
    /\ Exchange!Return
    /\ TakeResponse

\* Each error of RunPluginCommand ends the command.
ReturnError ==
    /\ result # "response"
    /\ Exchange!Return
    /\ PluginFails

Outside == call = "idle" /\ UNCHANGED exchangeVars

LoopStep ==
    /\ Outside
    /\ \/ SkipPlugin \/ AllPluginsRun
       \/ StartChunk \/ ContinueChunk \/ EndResponse
       \/ RefuseCollected \/ WriteFile \/ AllWritten \/ WriteArchive

LoopNext == CallPlugin \/ Within \/ ReturnAnswer \/ ReturnError \/ LoopStep

\* The command runs whenever it is not blocked in RunPluginCommand; of the plugins
\* PluginSubprocess says what they can be relied on for.
LoopFairness ==
    /\ WF_allVars(CallPlugin \/ ReturnAnswer \/ ReturnError \/ LoopStep)
    /\ Exchange!Fairness

LoopSpec == LoopInit /\ [][LoopNext]_allVars /\ LoopFairness

-------------------------------------------------------------------------------
(* Properties. *)

\* What is written to disk is the answer of the plugin just run, which ran to a
\* zero exit status, was waited for, and had every byte of its output read; and
\* no plugin is left running but one whose request could not be written.
OnlyWholeResponses ==
    /\ Exchange!ResponseIsWhole
    /\ Exchange!ReapedUnlessWriteFailed
    /\ pc \in {"collect", "write"} => result = "response" /\ child = "reaped"

\* The command ends, whatever the plugins do, but for one case in which it never goes
\* on: a plugin that writes as it goes and a caller that is still writing, with both
\* pipes full.
CommandEnds ==
    <>[](pc = "done" \/ (/\ call = "write" /\ kind = "streamer"
                         /\ stdin = PipeCapacity /\ stdout = PipeCapacity))

\* A command fails after compilation only for a plugin that failed or left, a
\* response that cannot be applied, a file name that would leave a directory, or
\* warnings that are fatal; and for the last only when all has been written.
RefusedForCause ==
    exit = "refused" =>
        IF p > Len(run.plugins) THEN run.fatal ELSE
        \/ result # "response"
        \/ ThePlugin.outcome # "response"
        \/ IllFormed
        \/ Format[Where] = "dir" /\ ~run.allowEscape /\ \E k \in Heads : Entries[k].name \in Dotted
===============================================================================
