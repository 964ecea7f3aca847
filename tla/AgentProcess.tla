---------------------------- MODULE AgentProcess ----------------------------
(***************************************************************************)
(* One invocation of an agent CLI (agents/process.rs, run_cmd_inner) with  *)
(* its RunControl (agents/active.rs): the calling thread, the two reader   *)
(* threads, the bounded channel between them, the child and its pipes, and *)
(* the lock that keeps Claude processes apart.  Output is counted in lines *)
(* and the prompt in blocks; a pipe holds PipeCap of either.               *)
(***************************************************************************)
EXTENDS Naturals, Sequences

CONSTANTS Streams,   \* stdout and stderr
          ChannelCap, \* OUTPUT_CHANNEL_CAPACITY
          PipeCap,   \* what the system buffers in one pipe
          CaptureCap, \* MAX_STDOUT_CAPTURE_BYTES and MAX_STDERR_CAPTURE_BYTES, in lines
          MaxLines,  \* bound: lines the child's side writes to a stream by itself
          Prompts    \* the sizes of prompt to write, 0 for no stdin payload

VARIABLES caller,    \* position of the caller
          returned,  \* what run_cmd_inner returns
          why,       \* what ended the wait: stdin_error, cancelled, timed_out
          child,     \* the process: absent, running, done (exit 0), bad, killed
          slot,      \* RunControl.child holds the process
          cancel,    \* RunControl.cancel
          canceller, \* a call of request_cancel from another thread
          expired,   \* start.elapsed() > timeout
          open,      \* the process has not closed its output
          heir,      \* a descendant keeps the output pipes open
          unsent,    \* blocks of the prompt still to be written
          inPipe,    \* blocks in the stdin pipe
          owed,      \* the child answers a block it has read before it reads on
          wrote, pipe, hand, chan, seen, ended, \* output, per stream
          garbled,   \* lines that were not UTF-8, per stream
          captured, truncated, \* BoundedCapture: the newest lines it holds, and its mark
          claude     \* who holds claude_invocation_lock

procVars == <<caller, returned, why, child, slot, cancel, canceller, expired>>
inVars == <<open, heir, unsent, inPipe, owed>>
captureVars == <<garbled, captured, truncated>>
outVars == <<wrote, pipe, hand, chan, seen, ended, captureVars>>
vars == <<procVars, inVars, outVars, claude>>

Init ==
  /\ caller = "lock" /\ returned = "none" /\ why = {} /\ child = "absent"
  /\ slot = FALSE /\ cancel = FALSE /\ canceller = "idle" /\ expired = FALSE
  /\ open = TRUE /\ heir = FALSE /\ unsent = 0 /\ inPipe = 0 /\ owed = FALSE
  /\ wrote = [s \in Streams |-> 0] /\ pipe = wrote /\ hand = wrote /\ captured = wrote
  /\ seen = wrote /\ garbled = wrote /\ chan = <<>>
  /\ ended = [s \in Streams |-> FALSE] /\ truncated = ended
  /\ claude = "free"

Alive == child = "running"
PipeOpen == (Alive /\ open) \/ heir
Finished == \A s \in Streams : ended[s]

(***************************************************************************)
(* The Claude lock is polled, so that a cancelled run leaves the queue.    *)
(***************************************************************************)
\* Mutant: the guard is dropped as soon as it is taken.
LockClaudeDropped ==
  /\ caller = "lock" /\ caller' = "spawn"
  /\ UNCHANGED <<returned, why, child, slot, cancel, canceller, expired, inVars, outVars, claude>>

LockClaude ==
  /\ caller = "lock" /\ claude = "free"
  /\ caller' = "spawn" /\ claude' = "self"
  /\ UNCHANGED <<returned, why, child, slot, cancel, canceller, expired, inVars, outVars>>

LockCancelled ==
  /\ caller = "lock" /\ claude = "other" /\ cancel
  /\ caller' = "done" /\ returned' = "cancelled"
  /\ UNCHANGED <<why, child, slot, cancel, canceller, expired, inVars, outVars, claude>>

OtherLocks ==
  /\ claude = "free" /\ caller = "lock" /\ claude' = "other"
  /\ UNCHANGED <<procVars, inVars, outVars>>

OtherReleases ==
  /\ claude = "other" /\ claude' = "free"
  /\ UNCHANGED <<procVars, inVars, outVars>>

\* The command is built and spawned, the child handed to the control, the readers started.
Spawn ==
  /\ caller = "spawn"
  /\ child' = "running" /\ slot' = TRUE
  /\ unsent' \in Prompts /\ heir' \in BOOLEAN
  /\ caller' = IF unsent' > 0 THEN "write" ELSE "loop"
  /\ UNCHANGED <<returned, why, cancel, canceller, expired, open, inPipe, owed, outVars, claude>>

SpawnFails ==
  /\ caller = "spawn"
  /\ caller' = "done" /\ returned' = "error" /\ claude' = "free"
  /\ UNCHANGED <<why, child, slot, cancel, canceller, expired, inVars, outVars>>

\* Mutant: the child is dropped, which does not kill it.
KillChildDropped == cancel' = TRUE /\ slot' = FALSE /\ UNCHANGED child

\* kill_child with a control is request_cancel: it raises the flag of the whole run.
KillChild ==
  /\ cancel' = TRUE
  /\ slot' = FALSE
  /\ child' = IF slot /\ Alive THEN "killed" ELSE child

\* write_all before the loop: one block when the pipe has room.
WritePrompt ==
  /\ caller = "write" /\ Alive /\ inPipe < PipeCap
  /\ unsent' = unsent - 1 /\ inPipe' = inPipe + 1
  /\ caller' = IF unsent = 1 THEN "loop" ELSE "write"
  /\ UNCHANGED <<returned, why, child, slot, cancel, canceller, expired, open, heir, owed, outVars, claude>>

\* The child has gone: the write fails, the slot is killed and the loop entered with the error.
WriteFails ==
  /\ caller = "write" /\ ~Alive
  /\ caller' = "loop" /\ why' = why \cup {"stdin"}
  /\ KillChild
  /\ UNCHANGED <<returned, canceller, expired, inVars, outVars, claude>>

\* Up to a channel of lines is passed to on_line ...
LoopDrains ==
  /\ caller = "loop"
  /\ seen' = [s \in Streams |-> seen[s] + Len(SelectSeq(chan, LAMBDA x : x = s))]
  /\ chan' = <<>> /\ caller' = "look"
  /\ UNCHANGED <<returned, why, child, slot, cancel, canceller, expired, inVars,
                 wrote, pipe, hand, captureVars, ended, claude>>

\* ... then the flag, the deadline and the end of child and readers are looked at, in that order.
LoopLooks ==
  /\ caller = "look"
  /\ \/ /\ cancel
        /\ why' = why \cup {"cancelled"} /\ caller' = "drain" /\ KillChild
     \/ /\ ~cancel /\ expired
        /\ why' = why \cup {"timed_out"} /\ caller' = "drain" /\ KillChild
     \/ /\ ~cancel /\ ~expired /\ ~(slot /\ Alive) /\ Finished
        /\ caller' = "drain" /\ UNCHANGED <<why, child, slot, cancel>>
     \/ /\ ~cancel /\ ~expired /\ ((slot /\ Alive) \/ ~Finished)
        /\ caller' = "loop" /\ UNCHANGED <<why, child, slot, cancel>>
  /\ UNCHANGED <<returned, canceller, expired, inVars, outVars, claude>>

\* Mutant: the readers are joined without consuming.
DrainJoins ==
  /\ caller = "drain" /\ Finished /\ chan = <<>> /\ UNCHANGED vars

\* "Continue consuming while the pipe readers finish so joining them cannot deadlock."
DrainReceives ==
  /\ caller = "drain" /\ ~Finished /\ chan # <<>>
  /\ seen' = [seen EXCEPT ![Head(chan)] = @ + 1] /\ chan' = Tail(chan)
  /\ UNCHANGED <<procVars, inVars, wrote, pipe, hand, captureVars, ended, claude>>

\* Mutant: what is left in the channel is dropped with it.
DrainEndsAtOnce ==
  /\ caller = "drain" /\ Finished /\ caller' = "wait"
  /\ UNCHANGED <<returned, why, child, slot, cancel, canceller, expired, inVars, outVars, claude>>

DrainEnds ==
  /\ caller = "drain" /\ Finished
  /\ seen' = [s \in Streams |-> seen[s] + Len(SelectSeq(chan, LAMBDA x : x = s))]
  /\ chan' = <<>> /\ caller' = "wait"
  /\ UNCHANGED <<returned, why, child, slot, cancel, canceller, expired, inVars,
                 wrote, pipe, hand, captureVars, ended, claude>>

\* Mutant: a child that somebody else took counts as a success.
WaitChildOptimistic ==
  /\ caller = "wait" /\ ~(slot /\ Alive)
  /\ slot' = FALSE /\ caller' = "done" /\ claude' = "free"
  /\ returned' = IF why = {} /\ (~slot \/ child = "done") THEN "ok" ELSE "failed"
  /\ UNCHANGED <<why, child, cancel, canceller, expired, inVars, outVars>>

\* wait_child takes what is left in the slot and waits for it; the errors have a fixed order.
WaitChild ==
  /\ caller = "wait" /\ ~(slot /\ Alive)
  /\ slot' = FALSE /\ caller' = "done" /\ claude' = "free"
  /\ returned' = CASE "stdin" \in why -> "error"
                 [] "stdin" \notin why /\ "cancelled" \in why -> "cancelled"
                 [] why = {"timed_out"} -> "timeout"
                 [] OTHER -> IF slot /\ child = "done" THEN "ok" ELSE "failed"
  /\ UNCHANGED <<why, child, cancel, canceller, expired, inVars, outVars>>

Deadline ==
  /\ ~expired /\ caller \in {"write", "loop", "look"}
  /\ expired' = TRUE
  /\ UNCHANGED <<caller, returned, why, child, slot, cancel, canceller, inVars, outVars, claude>>

\* RunControl::request_cancel from the thread of cancel_run: the flag, then the slot.
CancelFlag ==
  /\ canceller = "idle" /\ canceller' = "flagged" /\ cancel' = TRUE
  /\ UNCHANGED <<caller, returned, why, child, slot, expired, inVars, outVars, claude>>

CancelKills ==
  /\ canceller = "flagged" /\ canceller' = "done"
  /\ KillChild
  /\ UNCHANGED <<caller, returned, why, expired, inVars, outVars, claude>>

(***************************************************************************)
(* The child and the reader threads.                                       *)
(***************************************************************************)
ChildReads ==
  /\ Alive /\ inPipe > 0 /\ ~owed
  /\ inPipe' = inPipe - 1 /\ owed' = TRUE
  /\ UNCHANGED <<procVars, open, heir, unsent, outVars, claude>>

Writes(s) ==
  /\ PipeOpen /\ pipe[s] < PipeCap
  /\ wrote' = [wrote EXCEPT ![s] = @ + 1] /\ pipe' = [pipe EXCEPT ![s] = @ + 1]
  /\ UNCHANGED <<procVars, open, heir, unsent, inPipe, hand, chan, captureVars, seen, ended, claude>>

ChildAnswers == \E s \in Streams : Alive /\ owed /\ owed' = FALSE /\ Writes(s)

ChildWrites(s) == wrote[s] < MaxLines /\ UNCHANGED owed /\ Writes(s)

ChildExits ==
  /\ Alive /\ child' \in {"done", "bad"}
  /\ UNCHANGED <<caller, returned, why, slot, cancel, canceller, expired, inVars, outVars, claude>>

\* A process may close its output and run on.
ChildCloses ==
  /\ Alive /\ open /\ open' = FALSE
  /\ UNCHANGED <<procVars, heir, unsent, inPipe, owed, outVars, claude>>

HeirExits ==
  /\ heir /\ heir' = FALSE
  /\ UNCHANGED <<procVars, open, unsent, inPipe, owed, outVars, claude>>

\* What push_line leaves of a full capture: three quarters, and of the newest line at least its end.
Kept == LET part == (3 * CaptureCap) \div 4 IN IF part = 0 THEN 1 ELSE part

PushLine(s) ==
  \/ /\ captured[s] < CaptureCap
     /\ captured' = [captured EXCEPT ![s] = @ + 1] /\ UNCHANGED truncated
  \/ /\ captured[s] = CaptureCap
     /\ captured' = [captured EXCEPT ![s] = Kept] /\ truncated' = [truncated EXCEPT ![s] = TRUE]

\* A reader takes a line: lines().flatten() passes over one that is not UTF-8; another goes into
\* the BoundedCapture, and to the channel when there is room.
ReaderTakes(s) ==
  /\ pipe[s] > 0 /\ hand[s] = 0 /\ child # "absent"
  /\ pipe' = [pipe EXCEPT ![s] = @ - 1]
  /\ \/ garbled' = [garbled EXCEPT ![s] = @ + 1] /\ UNCHANGED <<hand, captured, truncated>>
     \/ PushLine(s) /\ hand' = [hand EXCEPT ![s] = 1] /\ UNCHANGED garbled
  /\ UNCHANGED <<procVars, inVars, wrote, chan, seen, ended, claude>>

ReaderSends(s) ==
  /\ hand[s] = 1 /\ Len(chan) < ChannelCap
  /\ chan' = Append(chan, s) /\ hand' = [hand EXCEPT ![s] = 0]
  /\ UNCHANGED <<procVars, inVars, wrote, pipe, captureVars, seen, ended, claude>>

ReaderEnds(s) ==
  /\ child # "absent" /\ ~PipeOpen /\ pipe[s] = 0 /\ hand[s] = 0 /\ ~ended[s]
  /\ ended' = [ended EXCEPT ![s] = TRUE]
  /\ UNCHANGED <<procVars, inVars, wrote, pipe, hand, chan, captureVars, seen, claude>>

Caller ==
  \/ LockClaude \/ LockCancelled \/ Spawn \/ SpawnFails \/ WritePrompt \/ WriteFails
  \/ LoopDrains \/ LoopLooks \/ DrainReceives \/ DrainEnds \/ WaitChild

Reader(s) == ReaderTakes(s) \/ ReaderSends(s) \/ ReaderEnds(s)

Next ==
  \/ Caller \/ Deadline \/ CancelFlag \/ CancelKills \/ OtherLocks \/ OtherReleases
  \/ ChildReads \/ ChildAnswers \/ ChildExits \/ ChildCloses \/ HeirExits
  \/ \E s \in Streams : ChildWrites(s) \/ Reader(s)

(***************************************************************************)
(* The system runs the three threads; the deadline comes; a child that     *)
(* still has input to read reads it and answers it.  Nothing makes a child *)
(* or a descendant exit, and nobody has to cancel.                         *)
(***************************************************************************)
Fairness ==
  /\ WF_vars(Caller) /\ WF_vars(Deadline) /\ WF_vars(CancelKills)
  /\ WF_vars(OtherReleases) /\ WF_vars(ChildReads) /\ WF_vars(ChildAnswers)
  /\ \A s \in Streams : WF_vars(Reader(s))

Spec == Init /\ [][Next]_vars /\ Fairness

-----------------------------------------------------------------------------
TypeOK ==
  /\ caller \in {"lock", "spawn", "write", "loop", "look", "drain", "wait", "done"}
  /\ returned \in {"none", "ok", "failed", "error", "cancelled", "timeout"}
  /\ why \subseteq {"stdin", "cancelled", "timed_out"}
  /\ child \in {"absent", "running", "done", "bad", "killed"}
  /\ slot \in BOOLEAN /\ open \in BOOLEAN /\ cancel \in BOOLEAN /\ expired \in BOOLEAN /\ heir \in BOOLEAN
  /\ canceller \in {"idle", "flagged", "done"}
  /\ unsent \in Nat /\ inPipe \in 0..PipeCap /\ owed \in BOOLEAN
  /\ \A f \in {wrote, pipe, hand, captured, seen, garbled} : f \in [Streams -> Nat]
  /\ ended \in [Streams -> BOOLEAN] /\ truncated \in [Streams -> BOOLEAN] /\ chan \in Seq(Streams)
  /\ claude \in {"free", "self", "other"}

(***************************************************************************)
(* When run_cmd_inner returns, every line the process and its descendants  *)
(* wrote was passed to on_line once, however the wait ended: one in the    *)
(* reader's hand or in the channel when the loop is left is not dropped.   *)
(* Only lines that are not UTF-8 never arrive.  The capture holds all of   *)
(* them or is marked as cut, and then still has its newest part.           *)
(***************************************************************************)
OutputArrives ==
  caller = "done" =>
    \A s \in Streams :
      /\ seen[s] + garbled[s] = wrote[s]
      /\ truncated[s] <=> seen[s] > CaptureCap
      /\ captured[s] \in (IF truncated[s] THEN Kept..CaptureCap ELSE {seen[s]})

(***************************************************************************)
(* No step returns while its process runs, and no process is left for a    *)
(* later cancel of the same run to kill: whichever of the canceller, the   *)
(* deadline and wait_child came first took it out of the slot.             *)
(***************************************************************************)
NoOrphan == caller = "done" => ~Alive /\ ~slot

(***************************************************************************)
(* A successful result is a process that ended by itself with success: a   *)
(* kill that lands between the end of the loop and the wait does not turn  *)
(* into one.                                                               *)
(***************************************************************************)
SuccessIsReal == returned = "ok" => child = "done" /\ why = {}

(***************************************************************************)
(* Two Claude processes never run at the same time: the lock is held from  *)
(* before the spawn until the process is gone.                             *)
(***************************************************************************)
ClaudeAlone == Alive => claude = "self"

(***************************************************************************)
(* A cancel or a deadline ends the invocation once the prompt is written,  *)
(* even with a full channel, unless a descendant keeps the pipes open.     *)
(***************************************************************************)
StopIsServed ==
  ((cancel \/ expired) /\ caller \notin {"lock", "spawn", "write"}) ~> (caller = "done" \/ heir)

(***************************************************************************)
(* "Start draining stdout/stderr before writing a potentially large        *)
(* prompt": a child that reads its input, and answers each block while its *)
(* output is open, gets the whole prompt.                                  *)
(***************************************************************************)
PromptIsWritten == (caller = "write") ~> (caller # "write" \/ ~open)
=============================================================================
