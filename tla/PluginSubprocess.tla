--------------------------- MODULE PluginSubprocess ---------------------------
(***************************************************************************)
(* plugin.RunPluginCommand and the plugin process it starts, over the two  *)
(* bounded pipes between them.  The caller writes the whole request before *)
(* it reads anything, then reads to end of file, then waits for the exit   *)
(* status.  The plugin is any program: it may read its input to the end    *)
(* before it writes, as protoc plugins do, or write as it goes, stop       *)
(* reading early, close its output early, and exit with any status.        *)
(* Data is counted in units; a pipe holds PipeCapacity of them.            *)
(***************************************************************************)
EXTENDS Naturals

CONSTANTS
    PipeCapacity,     \* of the kernel's pipe buffer
    Requests,         \* the lengths of request considered; none is empty, since
                      \* every request carries the compiler's version
    Responses         \* the most a plugin writes before it exits

\* What kind of program the command line names.
\*   "missing"  cannot be started
\*   "reader"   reads its input to the end before it writes or exits
\*   "streamer" writes as it goes, but reads its input to the end; it reads no
\*              further while a write of its own blocks
\*   "quitter"  may stop reading or exit at any time
Kind == {"missing", "reader", "streamer", "quitter"}

VARIABLES
    kind, request, response,    \* of this call: the program, what is sent, its answer
    pc,           \* the caller: "idle", "start", "write", "read", "wait", "returned"
    toWrite,      \* units of the request not yet in the pipe
    received,     \* units of output read so far
    result,       \* what RunPluginCommand returned
    stdin,        \* units in the plugin's input pipe
    stdout,       \* units in its output pipe
    child,        \* "none", "running", "exited", "reaped"
    sawEOF,       \* the plugin has read its input to the end
    closedIn,     \* the plugin has closed its input
    closedOut,    \* the plugin has closed its output
    written,      \* units of output the plugin has written
    status        \* its exit status

callerVars == <<pc, toWrite, received, result>>
childVars  == <<child, sawEOF, closedIn, closedOut, written, status>>
vars == <<kind, request, response, callerVars, stdin, stdout, childVars>>

Result == {"none", "startError", "writeError", "exitError", "unparseable", "response"}

TypeOK ==
    /\ kind \in Kind /\ request \in Nat /\ response \in Nat
    /\ pc \in {"idle", "start", "write", "read", "wait", "returned"}
    /\ toWrite \in 0 .. request
    /\ received \in 0 .. response
    /\ result \in Result
    /\ stdin \in 0 .. PipeCapacity
    /\ stdout \in 0 .. PipeCapacity
    /\ child \in {"none", "running", "exited", "reaped"}
    /\ sawEOF \in BOOLEAN /\ closedIn \in BOOLEAN /\ closedOut \in BOOLEAN
    /\ written \in 0 .. response
    /\ status \in {"none", "zero", "nonzero"}

Program == [kind : Kind, request : Requests, response : Responses]

Init ==
    /\ kind = "missing" /\ request = 0 /\ response = 0
    /\ pc = "idle"
    /\ toWrite = 0
    /\ received = 0
    /\ result = "none"
    /\ stdin = 0 /\ stdout = 0
    /\ child = "none"
    /\ sawEOF = FALSE /\ closedIn = FALSE /\ closedOut = FALSE
    /\ written = 0
    /\ status = "none"

-------------------------------------------------------------------------------
(* The caller. *)

\* A new command, with its own pipes; a plugin left behind keeps the old ones.
Call(program) ==
    /\ pc = "idle"
    /\ kind' = program.kind /\ request' = program.request /\ response' = program.response
    /\ pc' = "start"
    /\ toWrite' = program.request
    /\ received' = 0
    /\ result' = "none"
    /\ stdin' = 0 /\ stdout' = 0
    /\ child' = "none"
    /\ sawEOF' = FALSE /\ closedIn' = FALSE /\ closedOut' = FALSE
    /\ written' = 0
    /\ status' = "none"

ReturnWith(r) == pc' = "returned" /\ result' = r

Start ==
    /\ pc = "start"
    /\ IF kind = "missing"
       THEN ReturnWith("startError") /\ UNCHANGED child
       ELSE pc' = "write" /\ child' = "running" /\ UNCHANGED result
    /\ UNCHANGED <<kind, request, response, toWrite, received, stdin, stdout,
                   sawEOF, closedIn, closedOut, written, status>>

\* The one Write call blocks while the pipe is full, and puts in what fits.
WriteRequest ==
    /\ pc = "write"
    /\ toWrite > 0
    /\ ~closedIn
    /\ stdin < PipeCapacity
    /\ \E n \in 1 .. toWrite :
          /\ stdin + n <= PipeCapacity
          /\ stdin' = stdin + n
          /\ toWrite' = toWrite - n
    /\ UNCHANGED <<kind, request, response, pc, received, result, stdout, childVars>>

\* Nobody can read the pipe any more: Write returns EPIPE and RunPluginCommand
\* returns at once, without closing the pipes or waiting for the process.
WriteFails ==
    /\ pc = "write"
    /\ toWrite > 0
    /\ closedIn
    /\ ReturnWith("writeError")
    /\ UNCHANGED <<kind, request, response, toWrite, received, stdin, stdout, childVars>>

\* Mutant: the process is waited for before its output is read.
CloseStdinThenWait ==
    /\ pc = "write"
    /\ toWrite = 0
    /\ pc' = "wait"
    /\ UNCHANGED <<kind, request, response, toWrite, received, result, stdin, stdout, childVars>>

\* stdinPipe.Close: the plugin can see the end of its input.
CloseStdin ==
    /\ pc = "write"
    /\ toWrite = 0
    /\ pc' = "read"
    /\ UNCHANGED <<kind, request, response, toWrite, received, result, stdin, stdout, childVars>>

ReadOutput ==
    /\ pc = "read"
    /\ stdout > 0
    /\ \E n \in 1 .. stdout :
          stdout' = stdout - n /\ received' = received + n
    /\ UNCHANGED <<kind, request, response, pc, toWrite, result, stdin, childVars>>

\* Mutant: reading stops when the plugin is done, whatever is left in the pipe.
ReadEOFUndrained ==
    /\ pc = "read"
    /\ closedOut
    /\ pc' = "wait"
    /\ UNCHANGED <<kind, request, response, toWrite, received, result, stdin, stdout, childVars>>

ReadEOF ==
    /\ pc = "read"
    /\ stdout = 0
    /\ closedOut
    /\ pc' = "wait"
    /\ UNCHANGED <<kind, request, response, toWrite, received, result, stdin, stdout, childVars>>

\* cmd.Wait, then the response is decoded.  Output cut short may or may not decode.
Wait ==
    /\ pc = "wait"
    /\ child = "exited"
    /\ child' = "reaped"
    /\ \/ status = "nonzero" /\ ReturnWith("exitError")
       \/ status = "zero" /\ ReturnWith("response")
       \/ status = "zero" /\ ReturnWith("unparseable")
    /\ UNCHANGED <<kind, request, response, toWrite, received, stdin, stdout,
                   sawEOF, closedIn, closedOut, written, status>>

-------------------------------------------------------------------------------
(* The plugin process. *)

Running == child = "running"

\* A plugin with one thread that has more to write than its output pipe takes.
InWrite == kind = "streamer" /\ written < response /\ stdout = PipeCapacity

ReadInput ==
    /\ Running
    /\ ~closedIn /\ ~InWrite
    /\ stdin > 0
    /\ \E n \in 1 .. stdin : stdin' = stdin - n
    /\ UNCHANGED <<kind, request, response, callerVars, stdout, childVars>>

\* The input ends once the caller has closed it and the pipe is drained.
SeeEOF ==
    /\ Running
    /\ ~closedIn /\ ~sawEOF
    /\ stdin = 0
    /\ pc \in {"read", "wait"}
    /\ sawEOF' = TRUE
    /\ UNCHANGED <<kind, request, response, callerVars, stdin, stdout,
                   child, closedIn, closedOut, written, status>>

MayWrite == sawEOF \/ kind \in {"streamer", "quitter"}

\* The caller's reading end stays open, also after RunPluginCommand has returned an
\* error, until the garbage collector finalizes it.
WriteOutput ==
    /\ Running
    /\ MayWrite
    /\ ~closedOut
    /\ stdout < PipeCapacity
    /\ \E n \in 1 .. response - written :
          /\ stdout + n <= PipeCapacity
          /\ stdout' = stdout + n
          /\ written' = written + n
    /\ UNCHANGED <<kind, request, response, callerVars, stdin,
                   child, sawEOF, closedIn, closedOut, status>>

StopReading ==
    /\ Running
    /\ kind = "quitter"
    /\ ~closedIn
    /\ closedIn' = TRUE
    /\ stdin' = 0
    /\ UNCHANGED <<kind, request, response, callerVars, stdout,
                   child, sawEOF, closedOut, written, status>>

\* A plugin that is done with its output may close it and run on.
CloseOutput ==
    /\ Running
    /\ ~closedOut
    /\ written = response /\ MayWrite
    /\ closedOut' = TRUE
    /\ UNCHANGED <<kind, request, response, callerVars, stdin, stdout,
                   child, sawEOF, closedIn, written, status>>

\* The process ends: its ends of both pipes close with it.
Exit ==
    /\ Running
    /\ \/ sawEOF /\ written = response
       \/ kind = "quitter"
    /\ child' = "exited"
    /\ closedIn' = TRUE /\ closedOut' = TRUE
    /\ stdin' = 0
    /\ status' \in {"zero", "nonzero"}
    /\ UNCHANGED <<kind, request, response, callerVars, stdout, sawEOF, written>>

-------------------------------------------------------------------------------
\* The caller has taken the result.
Return ==
    /\ pc = "returned"
    /\ pc' = "idle"
    /\ UNCHANGED <<kind, request, response, toWrite, received, result, stdin, stdout, childVars>>

Caller == Start \/ WriteRequest \/ WriteFails \/ CloseStdin \/ ReadOutput \/ ReadEOF \/ Wait

Plugin == ReadInput \/ SeeEOF \/ WriteOutput \/ StopReading \/ CloseOutput \/ Exit

\* What goes on within a call, and in a plugin left behind.
Within == Caller \/ Plugin

Next == Within \/ Return \/ \E program \in Program : Call(program)

\* The caller runs whenever it is not blocked.  A plugin runs too: it does not
\* sleep for ever, and one that goes by its contract reads what it is sent.
Fairness ==
    /\ WF_vars(Caller)
    /\ WF_vars(ReadInput \/ SeeEOF)
    /\ WF_vars(WriteOutput)
    /\ WF_vars(Exit)

Spec == Init /\ [][Next]_vars /\ Fairness

-------------------------------------------------------------------------------
(* What holds of every exchange. *)

\* A response is only returned for a plugin that ran to a zero exit status, was
\* waited for, and whose every byte of output was read: nothing it wrote is lost
\* between the pipe, the end of file and the exit.
ResponseIsWhole ==
    result \in {"response", "unparseable"} =>
        /\ status = "zero" /\ child = "reaped"
        /\ received = written /\ stdout = 0

\* A plugin that was started is reaped before RunPluginCommand returns, except
\* when writing the request failed; then it is left behind.
ReapedUnlessWriteFailed ==
    pc \in {"returned", "idle"} /\ child # "none" => child = "reaped" \/ result = "writeError"
===============================================================================
