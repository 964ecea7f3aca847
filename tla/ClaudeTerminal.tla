--------------------------- MODULE ClaudeTerminal ---------------------------
(***************************************************************************)
(* A Claude terminal: the PTY session in which the vendor's own program    *)
(* signs in, signs out or talks (agents/native/providers/claude/           *)
(* terminal.rs).  Three kinds of threads share it.  The reader thread      *)
(* moves the PTY's output into a bounded queue, the monitor thread looks   *)
(* every 20 ms whether the session was called off or the program ended,    *)
(* and the callers write, resize, read, wait and cancel.  Whoever swaps    *)
(* `cleaned' first takes the session down: it signals the process group,   *)
(* closes the PTY, reaps the child and gives back the profile's lease.     *)
(***************************************************************************)
EXTENDS Naturals, Sequences, FiniteSets

CONSTANTS
  Callers,     \* the commands that may be at work on the session at a time
  Flaws,       \* what may be wrong with a launch; a subset of AllFlaws
  QueueCap,    \* MAX_BUFFERED_TERMINAL_OUTPUT_CHUNKS
  MaxChunks,   \* bound: chunks of output the program writes
  Escapes,     \* whether a descendant may leave the process group
  ReadErrors   \* whether reading the PTY may fail

VARIABLES
  start,       \* how far start_terminal_session is: its step, "up", "failed" or "no"
  flaw,        \* what is wrong with this launch
  leader,      \* the program: "none", "alive", "exited", "crashed", "killed", "reaped"
  kid,         \* its descendant: "none", "alive", "escaped", "dead"
  wrote,       \* chunks written to the PTY
  taken,       \* chunks the reader thread has read from it
  life,        \* ClaudeTerminalLifecycle
  queue,       \* BufferedOutput.chunks
  closed,      \* output_closed
  flag,        \* signals.cancellation
  cleaned,     \* SessionInner.cleaned
  slots,       \* which of "writer", "master", "child", "lease" the session holds
  reader,      \* the reader thread: "no", "read", "flag", "close", "end"
  dropped,     \* output was lost: the queue was full or the PTY could not be read
  monitor,     \* the monitor thread: "no", "sleep", "look", "poll", "end" or a cleanup step
  op,          \* what each caller is doing
  asked,       \* a caller cancelled the session or the last handle was dropped
  kept,        \* the registry still holds the session
  got,         \* chunks read_output handed out, in order
  over         \* a read_output found the session ended and its output complete

termVars == <<start, flaw, leader, kid, wrote, taken, life, queue, closed,
  flag, cleaned, slots, reader, dropped, monitor, op, asked, kept, got, over>>
world == <<leader, kid, wrote>>
launch == <<start, flaw>>
out == <<taken, queue, closed, reader, dropped, got, over>>

AllFlaws == {"none", "profile_stale", "not_active", "other_target", "other_product", "other_version",
  "no_lease", "unverified", "executable", "directory", "extensions", "size", "no_pty", "environment",
  "no_spawn", "no_group", "no_reader", "no_writer"}
CleanUp == {"flag", "swap", "tell", "term", "kill", "close", "reap", "release"}

TypeOK ==
  /\ start \in {"no", "up", "failed"} /\ flaw \in AllFlaws
  /\ leader \in {"none", "alive", "exited", "crashed", "killed", "reaped"}
  /\ kid \in {"none", "alive", "escaped", "dead"}
  /\ wrote \in 0..MaxChunks /\ taken \in 0..wrote
  /\ life \in {"running", "exited", "crashed", "cancelled", "output_limit", "io_failed"}
  /\ queue \in Seq(1..MaxChunks) /\ Len(queue) <= QueueCap /\ got \in Seq(1..MaxChunks)
  /\ {closed, flag, cleaned, dropped, asked, kept, over} \subseteq BOOLEAN
  /\ slots \subseteq {"writer", "master", "child", "lease"}
  /\ reader \in {"no", "read", "flag", "close", "end"}
  /\ monitor \in {"no", "sleep", "look", "poll", "end"} \cup CleanUp
  /\ op \in [Callers -> {"idle", "write"} \cup CleanUp]

Init ==
  /\ start = "no" /\ flaw = "none"
  /\ leader = "none" /\ kid = "none" /\ wrote = 0 /\ taken = 0
  /\ life = "running" /\ queue = <<>> /\ closed = FALSE /\ flag = FALSE /\ cleaned = FALSE
  /\ slots = {} /\ reader = "no" /\ dropped = FALSE /\ monitor = "no"
  /\ op = [c \in Callers |-> "idle"] /\ asked = FALSE /\ kept = FALSE /\ got = <<>> /\ over = FALSE

-----------------------------------------------------------------------------
(* Launching.                                                              *)

\* validate_selection: the profile as it was opened, for this product, runtime and version, and
\* a package of this machine.
ValidateSelection == {"profile_stale", "not_active", "other_target", "other_product", "other_version"}

\* validate_executable, validate_directory and validate_path_extensions: plain files and
\* directories under their own names, no directory twice.
ValidateExecutable == {"executable"}
ValidateDirectory == {"directory"}
ValidatePathExtensions == {"extensions"}

\* cleanup_spawn_failure, and the same for a group that cannot be named: the group is killed
\* and the child reaped before the launch fails.
CleanupSpawnFailure == leader' = "reaped"

\* start_terminal_session: every refusal before the spawn leaves nothing, every failure after it
\* takes the program down.  The lease goes with the error.
StartTerminalSession ==
  /\ start = "no"
  /\ flaw' \in Flaws
  /\ \/ /\ flaw' \in ValidateSelection \cup {"no_lease", "unverified"} \cup ValidateExecutable
                    \cup ValidateDirectory \cup ValidatePathExtensions
                    \cup {"size", "no_pty", "environment", "no_spawn"}
        /\ start' = "failed" /\ UNCHANGED <<leader, slots, reader, monitor, kept>>
     \/ /\ flaw' \in {"no_group", "no_reader", "no_writer"}
        /\ start' = "failed" /\ CleanupSpawnFailure /\ UNCHANGED <<slots, reader, monitor, kept>>
     \/ /\ flaw' = "none" /\ start' = "up" /\ leader' = "alive"
        /\ slots' = {"writer", "master", "child", "lease"}
        /\ reader' = "read" /\ monitor' = "sleep" /\ kept' = TRUE
  /\ UNCHANGED <<kid, wrote, taken, life, queue, closed, flag, cleaned, dropped, op, asked,
                 got, over>>

-----------------------------------------------------------------------------
(* The program.                                                            *)

\* The PTY's other end is open while the program or a descendant lives.
SlaveOpen == leader = "alive" \/ kid \in {"alive", "escaped"}

\* What the program may do of itself: write, fork, end well or badly; its
\* descendant may leave the group or end.
ProgramStep ==
  /\ \/ SlaveOpen /\ wrote < MaxChunks /\ wrote' = wrote + 1 /\ UNCHANGED <<leader, kid>>
     \/ leader = "alive" /\ kid = "none" /\ kid' = "alive" /\ UNCHANGED <<leader, wrote>>
     \/ leader = "alive" /\ leader' \in {"exited", "crashed"} /\ UNCHANGED <<kid, wrote>>
     \/ kid = "alive" /\ Escapes /\ kid' = "escaped" /\ UNCHANGED <<leader, wrote>>
     \/ kid \in {"alive", "escaped"} /\ kid' = "dead" /\ UNCHANGED <<leader, wrote>>
  /\ UNCHANGED <<launch, out, life, flag, cleaned, slots, monitor, op, asked, kept>>

-----------------------------------------------------------------------------
(* The signals the threads share.                                          *)

\* Mutant: the last word stands.
FinishLast(l) == life' = l

\* SessionSignals::finish: the first end of a session stands.
Finish(l) == life' = IF life = "running" THEN l ELSE life

\* push_output: the chunk is queued under the next number, or the queue is full: the session
\* ends with output_limit_exceeded.
PushOutput ==
  /\ taken' = taken + 1
  /\ \/ /\ Len(queue) < QueueCap /\ queue' = Append(queue, taken + 1)
        /\ reader' = "read" /\ UNCHANGED <<life, dropped>>
     \/ /\ Len(queue) >= QueueCap /\ Finish("output_limit") /\ dropped' = TRUE
        /\ reader' = "flag" /\ UNCHANGED queue

\* Mutant: a full queue calls the session off before it says why.
ReaderFlagsFirst ==
  /\ start = "up"
  /\ \/ /\ reader = "read" /\ taken < wrote /\ taken' = taken + 1
        /\ \/ /\ Len(queue) < QueueCap /\ queue' = Append(queue, taken + 1)
              /\ reader' = "read" /\ UNCHANGED <<dropped, flag>>
           \/ /\ Len(queue) >= QueueCap /\ dropped' = TRUE /\ flag' = TRUE
              /\ reader' = "flag" /\ UNCHANGED queue
        /\ UNCHANGED <<life, closed>>
     \/ reader = "flag" /\ Finish("output_limit") /\ reader' = "close" /\ UNCHANGED <<taken, queue, closed, flag, dropped>>
     \/ reader = "close" /\ closed' = TRUE /\ reader' = "end" /\ UNCHANGED <<taken, queue, life, flag, dropped>>
     \/ reader = "read" /\ taken = wrote /\ ~SlaveOpen /\ reader' = "close"
        /\ UNCHANGED <<taken, queue, closed, life, flag, dropped>>
  /\ UNCHANGED <<launch, world, cleaned, slots, monitor, op, asked, kept, got, over>>

\* spawn_output_reader: a read gives a chunk, the end of the output once nobody holds the PTY's
\* other end, or an error; both failures end the session, then call it off, then close the
\* output.
Reader ==
  /\ start = "up"
  /\ \/ reader = "read" /\ taken < wrote /\ PushOutput /\ UNCHANGED <<closed, flag>>
     \/ /\ reader = "read" /\ taken = wrote /\ ~SlaveOpen /\ reader' = "close"
        /\ UNCHANGED <<taken, queue, closed, life, flag, dropped>>
     \/ /\ reader = "read" /\ ReadErrors /\ Finish("io_failed") /\ reader' = "flag" /\ dropped' = TRUE
        /\ UNCHANGED <<taken, queue, closed, flag>>
     \/ reader = "flag" /\ flag' = TRUE /\ reader' = "close" /\ UNCHANGED <<taken, queue, closed, life, dropped>>
     \/ reader = "close" /\ closed' = TRUE /\ reader' = "end" /\ UNCHANGED <<taken, queue, life, flag, dropped>>
  /\ UNCHANGED <<launch, world, cleaned, slots, monitor, op, asked, kept, got, over>>

-----------------------------------------------------------------------------
(* Taking a session down.  At(t) and Move(t, s) read and set the place of *)
(* the thread t, a caller or the monitor.                                  *)

Threads == Callers \cup {"monitor"}
At(t) == IF t = "monitor" THEN monitor ELSE op[t]
Move(t, s) ==
  IF t = "monitor" THEN monitor' = (IF s = "idle" THEN "end" ELSE s) /\ UNCHANGED op
                   ELSE op' = [op EXCEPT ![t] = s] /\ UNCHANGED monitor

Writing == \E c \in Callers : op[c] = "write"

\* A signal to the process group reaches the leader and a descendant that stayed in it; SIGTERM
\* may be ignored.
Signal(kills) ==
  /\ leader' \in IF leader = "alive" THEN (IF kills THEN {"killed"} ELSE {"alive", "killed"}) ELSE {leader}
  /\ kid' \in IF kid = "alive" THEN (IF kills THEN {"dead"} ELSE {"alive", "dead"}) ELSE {kid}

\* terminate_descendants: SIGTERM, the grace, SIGKILL.
TerminateDescendants(t) ==
  /\ \/ At(t) = "term" /\ Signal(FALSE) /\ Move(t, "kill")
     \/ At(t) = "kill" /\ Signal(TRUE) /\ Move(t, "close")
  /\ UNCHANGED <<wrote, life, flag, cleaned, slots>>

\* drop_terminal_io waits for a writer that holds the lock.
DropTerminalIo(t) ==
  /\ At(t) = "close" /\ ~Writing
  /\ slots' = slots \ {"writer", "master"} /\ Move(t, "reap")
  /\ UNCHANGED <<world, life, flag, cleaned>>

\* The child is killed, waited for and dropped.
Reap(t) ==
  /\ At(t) = "reap"
  /\ leader' = "reaped" /\ slots' = slots \ {"child"} /\ Move(t, "release")
  /\ UNCHANGED <<kid, wrote, life, flag, cleaned>>

ReleaseProfileLease(t) ==
  /\ At(t) = "release"
  /\ slots' = slots \ {"lease"} /\ Move(t, "idle")
  /\ UNCHANGED <<world, life, flag, cleaned>>

\* Mutant: the lease is given back before the program is gone.
CancelReleasesFirst(t) ==
  /\ start = "up"
  /\ \/ At(t) = "flag" /\ flag' = TRUE /\ Move(t, "swap") /\ UNCHANGED <<world, life, cleaned, slots>>
     \/ /\ At(t) = "swap" /\ cleaned' = TRUE
        /\ IF cleaned THEN Move(t, "idle") /\ UNCHANGED slots
                      ELSE Move(t, "tell") /\ slots' = slots \ {"lease"}
        /\ UNCHANGED <<world, life, flag>>
     \/ At(t) = "tell" /\ Finish("cancelled") /\ Move(t, "term") /\ UNCHANGED <<world, flag, cleaned, slots>>
     \/ TerminateDescendants(t) \/ DropTerminalIo(t) \/ Reap(t) \/ ReleaseProfileLease(t)
  /\ UNCHANGED <<launch, out, asked, kept>>

\* Mutant: the one who did not swap does not look whether it was done.
CancelForgetsLease(t) ==
  /\ start = "up"
  /\ \/ At(t) = "flag" /\ flag' = TRUE /\ cleaned' = TRUE /\ Move(t, "swap") /\ UNCHANGED <<world, life, slots>>
     \/ /\ At(t) = "swap" /\ cleaned' = TRUE
        /\ Move(t, IF cleaned THEN "idle" ELSE "tell")
        /\ UNCHANGED <<world, life, flag, slots>>
     \/ At(t) = "tell" /\ Finish("cancelled") /\ Move(t, "term") /\ UNCHANGED <<world, flag, cleaned, slots>>
     \/ TerminateDescendants(t) \/ DropTerminalIo(t) \/ Reap(t) \/ ReleaseProfileLease(t)
  /\ UNCHANGED <<launch, out, asked, kept>>

\* cancel_and_cleanup, and cleanup_after_exit, which enters at "swap" with the end told and
\* therefore finds Finish without effect: the first to swap `cleaned' does the work.
CancelAndCleanup(t) ==
  /\ start = "up"
  /\ \/ At(t) = "flag" /\ flag' = TRUE /\ Move(t, "swap") /\ UNCHANGED <<world, life, cleaned, slots>>
     \/ /\ At(t) = "swap" /\ cleaned' = TRUE
        /\ Move(t, IF cleaned THEN "idle" ELSE "tell")
        /\ UNCHANGED <<world, life, flag, slots>>
     \/ At(t) = "tell" /\ Finish("cancelled") /\ Move(t, "term") /\ UNCHANGED <<world, flag, cleaned, slots>>
     \/ TerminateDescendants(t) \/ DropTerminalIo(t) \/ Reap(t) \/ ReleaseProfileLease(t)
  /\ UNCHANGED <<launch, out, asked, kept>>

\* The handles on the session: the registry's, a caller's while it works, the monitor's while
\* it looks.
Held == kept \/ (\E c \in Callers : op[c] # "idle") \/ monitor \in {"look", "poll"} \cup CleanUp

\* A caller is done: if its handle is the last one, dropping it takes the session down.
Return(c) ==
  IF kept \/ (\E d \in Callers \ {c} : op[d] # "idle") \/ monitor \in {"look", "poll"} \cup CleanUp
    THEN op' = [op EXCEPT ![c] = "idle"] /\ UNCHANGED asked
    ELSE op' = [op EXCEPT ![c] = "flag"] /\ asked' = TRUE

\* poll_exit: no child means somebody else took it; the end of the program is told, then the
\* session is taken down.
PollExit ==
  /\ start = "up" /\ monitor = "poll"
  /\ \/ "child" \notin slots /\ monitor' = "end" /\ UNCHANGED <<life, asked>>
     \/ /\ "child" \in slots /\ leader \in {"exited", "crashed", "killed"}
        /\ Finish(IF leader = "exited" THEN "exited" ELSE "crashed")
        /\ monitor' = "swap" /\ UNCHANGED asked
     \/ /\ "child" \in slots /\ leader = "alive"
        /\ IF kept \/ \E c \in Callers : op[c] # "idle"
             THEN monitor' = "sleep" /\ UNCHANGED asked
             ELSE monitor' = "flag" /\ asked' = TRUE
        /\ UNCHANGED life
  /\ UNCHANGED <<launch, world, out, flag, cleaned, slots, op, kept>>

\* spawn_monitor: a session nobody holds is left alone; one that was called off is taken down;
\* else the program is looked at.
Monitor ==
  /\ start = "up"
  /\ \/ monitor = "sleep" /\ monitor' = IF Held THEN "look" ELSE "end"
     \/ monitor = "look" /\ monitor' = IF flag THEN "swap" ELSE "poll"
  /\ UNCHANGED <<launch, world, out, life, flag, cleaned, slots, op, asked, kept>>

-----------------------------------------------------------------------------
(* The callers.                                                            *)

\* write_input: refused when the session has ended; the writer's lock is held while the PTY
\* takes the bytes, which may be for ever; a PTY nobody holds answers with an error.
WriteInput(c) ==
  /\ start = "up"
  /\ \/ /\ op[c] = "idle" /\ kept /\ life = "running" /\ "writer" \in slots /\ ~Writing
        /\ op' = [op EXCEPT ![c] = "write"] /\ UNCHANGED asked
     \/ op[c] = "write" /\ Return(c)
  /\ UNCHANGED <<launch, world, out, life, flag, cleaned, slots, monitor, kept>>

\* Mutant: the session's end is the end of its output.
ReadOutputEager(c) ==
  /\ start = "up" /\ op[c] = "idle" /\ kept
  /\ \/ queue # <<>> /\ got' = Append(got, Head(queue)) /\ queue' = Tail(queue) /\ UNCHANGED over
     \/ queue = <<>> /\ over' = (over \/ life # "running") /\ UNCHANGED <<queue, got>>
  /\ UNCHANGED <<launch, world, taken, closed, reader, dropped, life, flag, cleaned, slots,
                 monitor, op, asked, kept>>

\* read_output: the oldest chunk, or nothing once the session has ended and its output is
\* closed, or nothing at the deadline.  (wait and resize change nothing that is modelled.)
ReadOutput(c) ==
  /\ start = "up" /\ op[c] = "idle" /\ kept
  /\ \/ queue # <<>> /\ got' = Append(got, Head(queue)) /\ queue' = Tail(queue) /\ UNCHANGED over
     \/ queue = <<>> /\ over' = (over \/ (life # "running" /\ closed)) /\ UNCHANGED <<queue, got>>
  /\ UNCHANGED <<launch, world, taken, closed, reader, dropped, life, flag, cleaned, slots,
                 monitor, op, asked, kept>>

\* cancel: the session is called off and taken down, unless somebody is at it.
Cancel(c) ==
  /\ start = "up" /\ op[c] = "idle" /\ kept /\ ~asked
  /\ op' = [op EXCEPT ![c] = "flag"] /\ asked' = TRUE
  /\ UNCHANGED <<launch, world, out, life, flag, cleaned, slots, monitor, kept>>

\* The registry lets go of the session. The last handle that goes takes it down, here the
\* caller's own.
Drop(c) ==
  /\ start = "up" /\ kept /\ op[c] = "idle" /\ kept' = FALSE
  /\ IF (\E d \in Callers : op[d] # "idle") \/ monitor \in {"look", "poll"} \cup CleanUp
       THEN UNCHANGED <<op, asked>>
       ELSE op' = [op EXCEPT ![c] = "flag"] /\ asked' = TRUE
  /\ UNCHANGED <<launch, world, out, life, flag, cleaned, slots, monitor>>

Next ==
  \/ StartTerminalSession \/ ProgramStep \/ Reader \/ Monitor \/ PollExit
  \/ \E t \in Threads : CancelAndCleanup(t)
  \/ \E c \in Callers : WriteInput(c) \/ ReadOutput(c) \/ Cancel(c) \/ Drop(c)

Spec == Init /\ [][Next]_termVars

Fairness ==
  /\ WF_termVars(Reader) /\ WF_termVars(Monitor) /\ WF_termVars(PollExit)
  /\ \A t \in Threads : WF_termVars(CancelAndCleanup(t))
  /\ \A c \in Callers : WF_termVars(op[c] = "write" /\ ~SlaveOpen /\ WriteInput(c))

FairSpec == Spec /\ Fairness

-----------------------------------------------------------------------------
(* Properties.                                                             *)

\* The profile is leased while anything of the session's process group lives, whichever thread
\* takes the session down and whoever else is at it: a purge, which the lease holds off, never
\* deletes the directory under a running program (terminal.rs, cancel_and_cleanup).  A launch
\* that fails leaves no program behind.
LeaseCoversGroup ==
  /\ start = "failed" => leader # "alive"
  /\ start = "up" /\ (leader = "alive" \/ kid = "alive") => "lease" \in slots

\* What ended a session is what is told: a session is reported cancelled only when a caller
\* asked for it or the last handle went, although a full queue and a failing read call it off
\* through the same flag, and over-long output is only reported when output was lost
\* (terminal.rs, push_output and finish).
EndIsHonest ==
  /\ life = "cancelled" => asked
  /\ life = "output_limit" => dropped

\* The callers read the program's output in order and without a gap, and a read that says the
\* session is over has left nothing unread, unless output was lost to a full queue or a failing
\* read (terminal.rs, read_output).
ReadInOrder ==
  /\ \A i \in 1..Len(got) : got[i] = i
  /\ over /\ ~dropped => Len(got) = wrote

\* A session that was called off or whose program ended gives its lease back: no thread leaves
\* the work to another that does not do it.
SessionIsTakenDown ==
  (start = "up" /\ (asked \/ flag \/ leader \in {"exited", "crashed"})) ~> "lease" \notin slots
=============================================================================
