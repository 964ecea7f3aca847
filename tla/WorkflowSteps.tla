---------------------------- MODULE WorkflowSteps ----------------------------
(***************************************************************************)
(* What execute_run (runner/mod.rs) does with a workflow's graph: the order *)
(* its nodes run in, which agents are asked for an HTML report, and what   *)
(* each node reads and leaves behind.  Runner.tla has the life of the run  *)
(* around it; here one run is followed, which has one thread.              *)
(*                                                                         *)
(* A text is the set of things whose text it holds: a node's number, a     *)
(* memory's, or that of the list of files an agent changed.  The graph, what a node  *)
(* says, its settings and how its command ends are inputs; a run takes     *)
(* whatever node comes next in the order.                                  *)
(***************************************************************************)
EXTENDS Naturals, FiniteSets, Sequences

CONSTANTS
  GraphNodes,   \* bound: nodes of a graph whose order is computed
  MaxSteps,     \* bound: nodes of a run
  Memories      \* memories of the workflow, numbered apart from the nodes

VARIABLES
  part,         \* which computation the behaviour follows
  graph,        \* [edges, inputs, agents]
  topo,         \* topological_order: [queue, left (indegrees), ordered, state]
  scan,         \* nearest_html_report_agents, for one output: [queue, visited, nearest, agents]
  run,          \* the locals of the node loop
  steps,        \* run_steps: the status of each recorded step
  ended         \* how the run ended, "no" while it goes on

wsVars == <<part, graph, topo, scan, run, steps, ended>>

Nodes == 1..GraphNodes
Output == GraphNodes
Seqs(S) == {q \in [1..Cardinality(S) -> S] : \A i, j \in 1..Cardinality(S) : q[i] = q[j] => i = j}
Range(q) == {q[i] : i \in 1..Len(q)}

NoTopo == [queue |-> <<>>, left |-> [n \in Nodes |-> 0], ordered |-> <<>>, state |-> "no"]
NoScan == [queue |-> <<>>, visited |-> {}, nearest |-> 0, agents |-> {}]
NoGraph == [edges |-> {}, inputs |-> {}, agents |-> {}]
Locals == [ctx |-> {}, last |-> {}, final |-> {}, result |-> {}, files |-> {}, pinned |-> {}, excl |-> {},
           agent |-> 0, recalled |-> {}, prompt |-> {}]

TypeOK ==
  /\ part \in {"none", "order", "report", "run"} /\ ended \in {"no", "completed", "failed", "cancelled", "error"}
  /\ Len(topo.ordered) <= GraphNodes /\ Len(steps) <= MaxSteps /\ run.excl \subseteq Memories
  /\ \A i \in 1..Len(steps) : steps[i] \in {"completed", "failed"}
  /\ run.files \subseteq 1..MaxSteps

Init ==
  /\ part = "none" /\ graph = NoGraph /\ topo = NoTopo /\ scan = NoScan /\ run = Locals /\ steps = <<>> /\ ended = "no"

-----------------------------------------------------------------------------
(* The order of the nodes.                                                 *)

\* topological_order: the roots as the hash map yields them, sorted so that inputs come first.
StartOrder(edges, inputs) ==
  /\ part = "none" /\ part' = "order" /\ graph' = [NoGraph EXCEPT !.edges = edges, !.inputs = inputs]
  /\ LET left == [n \in Nodes |-> Cardinality({e \in edges : e[2] = n})]
         roots == {n \in Nodes : left[n] = 0}
     IN \E q \in Seqs(roots) :
          /\ \A i, j \in 1..Len(q) : i < j /\ q[j] \in inputs => q[i] \in inputs
          /\ topo' = [queue |-> q, left |-> left, ordered |-> <<>>, state |-> "queue"]
  /\ UNCHANGED <<scan, run, steps, ended>>

\* One turn of the loop: the node is taken and its targets are counted down.
CountDown(n) == [m \in Nodes |-> IF <<n, m>> \in graph.edges /\ topo.left[m] > 0 THEN topo.left[m] - 1 ELSE topo.left[m]]
\* Mutant: a target is queued at the first of its sources, not at the last.
FreedEarly(n) == {m \in Nodes : <<n, m>> \in graph.edges}
Freed(n) == {m \in Nodes : <<n, m>> \in graph.edges /\ CountDown(n)[m] = 0}
PopNode ==
  /\ topo.state = "queue" /\ topo.queue # <<>>
  /\ LET n == Head(topo.queue)
     IN IF n \in Range(topo.ordered) THEN topo' = [topo EXCEPT !.queue = Tail(@)]
        ELSE \E q \in Seqs(Freed(n)) :
               topo' = [topo EXCEPT !.queue = Tail(@) \o q, !.left = CountDown(n), !.ordered = Append(@, n)]
  /\ UNCHANGED <<part, graph, scan, run, steps, ended>>

\* Nodes on a cycle, and those behind one, are never freed: they come last, in any order.
AppendRest ==
  /\ topo.state = "queue" /\ topo.queue = <<>>
  /\ \E q \in Seqs(Nodes \ Range(topo.ordered)) : topo' = [topo EXCEPT !.ordered = @ \o q, !.state = "done"]
  /\ UNCHANGED <<part, graph, scan, run, steps, ended>>

-----------------------------------------------------------------------------
(* The agents that are asked for an HTML report.                           *)

StartScan(edges, agents) ==
  /\ part = "none" /\ part' = "report" /\ graph' = [NoGraph EXCEPT !.edges = edges, !.agents = agents]
  /\ scan' = [NoScan EXCEPT !.queue = <<<<Output, 0>>>>, !.visited = {Output}]
  /\ UNCHANGED <<topo, run, steps, ended>>

Sources(n) == {e[1] : e \in {e \in graph.edges : e[2] = n}}
\* The sources of a node that has not been seen: agents end the search at their distance.
\* Mutant: the first agent found is the only one.
VisitFirst(node, distance) ==
  LET new == Sources(node) \ scan.visited
      first == {a \in new \cap graph.agents : \A b \in new \cap graph.agents : a <= b}
      found == IF scan.agents # {} THEN {} ELSE first
  IN \E q \in Seqs(new \ graph.agents) :
       scan' = [queue |-> Tail(scan.queue) \o [i \in 1..Len(q) |-> <<q[i], distance + 1>>], visited |-> scan.visited \cup new,
                nearest |-> IF found # {} /\ scan.nearest = 0 THEN distance + 1 ELSE scan.nearest, agents |-> scan.agents \cup found]
Visit(node, distance) ==
  LET new == Sources(node) \ scan.visited
      found == IF scan.nearest \in {0, distance + 1} THEN new \cap graph.agents ELSE {}
  IN \E q \in Seqs(new \ graph.agents) :
       scan' = [queue |-> Tail(scan.queue) \o [i \in 1..Len(q) |-> <<q[i], distance + 1>>], visited |-> scan.visited \cup new,
                nearest |-> IF found # {} /\ scan.nearest = 0 THEN distance + 1 ELSE scan.nearest, agents |-> scan.agents \cup found]
PopScan ==
  /\ part = "report" /\ scan.queue # <<>>
  /\ LET node == Head(scan.queue)[1] distance == Head(scan.queue)[2]
     IN IF scan.nearest # 0 /\ distance >= scan.nearest THEN scan' = [scan EXCEPT !.queue = Tail(@)] ELSE Visit(node, distance)
  /\ UNCHANGED <<part, graph, topo, run, steps, ended>>

-----------------------------------------------------------------------------
(* What each kind of node does: the locals it leaves, and how it ends.     *)

Ends(s, end) == [s |-> s, end |-> end]
Failed == Ends(run, "failed")
Skipped == Ends(run, "ok")

\* apply_template: the placeholders it may hold.
Rendered(n) == {{n} \cup c \cup o : c \in {{}, run.ctx}, o \in {{}, run.last}}
\* Text that joins the context and becomes the last output.
Adds(n) == Ends([run EXCEPT !.ctx = @ \cup {n}, !.last = {n}], "ok")

\* How the programs a node starts may end.
ShellEnds == {"refused", "zero", "nonzero"}
\* run_script: no script, no such file, no interpreter are refusals; it runs under the run's control.
ScriptEnds == {"refused", "cancelled", "zero", "nonzero"}
\* run_custom_agent: an answer that is empty fails, whatever the exit status.
CustomEnds == {"cancelled", "empty", "zero", "nonzero"}
\* run_http_request: curl does not start, or fails; an HTTP error status is an answer.
HttpEnds == {"refused", "zero"}
\* run_git_host: no title, no gh, or gh fails.
GitHostEnds == {"refused", "zero"}
EndOf(e) == IF e = "zero" THEN "ok" ELSE IF e = "cancelled" THEN e ELSE "failed"

\* An Input replaces the context, also by nothing; its script never fails the run, however it ends.
\* format_attachments_context and format_script_instruction add text, or none.
InputText(n) == {{}, {n}}
InputNode(n) == {Ends([run EXCEPT !.ctx = text], "ok") : text \in InputText(n), e \in ScriptEnds}
\* A memory that is selected is never recalled as well; one that is gone adds no text.
\* Mutant: what a Memory node selects may be recalled again.
MemoryNodeForgets(n) == {Ends([run EXCEPT !.ctx = @ \cup (ids \cap have)], "ok") : ids \in SUBSET Memories, have \in {{}, Memories}} \cup {Ends(run, "error")}
MemoryNode(n) ==
  {Ends([run EXCEPT !.excl = @ \cup ids, !.ctx = @ \cup (ids \cap have)], "ok") : ids \in SUBSET Memories, have \in {{}, Memories}}
  \cup {Ends(run, "error")}

\* prepare_agent_prompt and compose_agent_prompt: pinned memories, recalled ones, and the context, or
\* the last output when there is none.
Base == IF run.ctx = {} THEN run.last ELSE run.ctx
Prompted == {[run EXCEPT !.recalled = r, !.prompt = Base] : r \in SUBSET (Memories \ run.excl)}
\* The answer replaces the last output; the files changed are this agent's, or none.
\* Mutant: an agent that changed nothing leaves the files of the one before.
AnsweredKeepsFiles(s, n) == {Ends([s EXCEPT !.last = {n}, !.agent = n, !.files = IF f = {} THEN @ ELSE f], "ok") : f \in {{}, {n}}}
\* diff_git_status over the two snapshots: what the working directory shows as changed.
Answered(s, n) == {Ends([s EXCEPT !.last = {n}, !.agent = n, !.files = f], "ok") : f \in {{}, {n}}}
\* A harness that cannot be read ends the run without a step; a provider that is not ready, a model or
\* an account that is refused, and execute_target's errors fail the step.
AgentNode(n) ==
  {Ends(run, "error"), Failed} \cup UNION {Answered(s, n) \cup {Ends(s, "failed"), Ends(s, "cancelled")} : s \in Prompted}
\* A custom agent without a command fails before its prompt is made.
CustomAgentNode(n) ==
  {Failed} \cup UNION {IF e = "zero" THEN Answered(s, n) ELSE {Ends(s, EndOf(e))} : s \in Prompted, e \in CustomEnds}

\* append_files_changed: an Output shows the files of the last agent below its text.
Listed(files) == {MaxSteps + a : a \in files}
OutputNode(n) ==
  {LET body == run.last \cup (IF include THEN Listed(run.files) ELSE {})
   IN Ends([run EXCEPT !.last = body, !.final = IF asFinal THEN body \cup {n} ELSE @], "ok") : include, asFinal \in BOOLEAN}

TemplateNode(n) ==
  {Ends([run EXCEPT !.ctx = IF replace THEN text ELSE @ \cup text, !.last = text], "ok") : text \in Rendered(n), replace \in BOOLEAN}
\* read_file_brief: a file that cannot be read is a line of text, never an error.
FileInjectNode(n) == {Skipped, Adds(n)}
\* No working directory fails; a git that fails is text.
GitStatusNode(n) == {Failed, Adds(n)}
\* The text of a command is kept even when its exit status fails the step.
Commanded(n, e) ==
  IF e \in {"zero", "nonzero"} THEN {Ends([run EXCEPT !.ctx = IF append THEN @ \cup {n} ELSE @, !.last = {n}], EndOf(e)) : append \in BOOLEAN}
  ELSE {Ends(run, EndOf(e))}
ShellNode(n) == UNION {Commanded(n, e) : e \in ShellEnds}
ScriptNode(n) == UNION {Commanded(n, e) : e \in ScriptEnds}
\* prepare_action_request refuses an incomplete node; execute_action's result joins the context.
AppActionNode(n) == {Failed, Ends(run, "cancelled"), Adds(n)}
HttpNode(n) == {IF e = "zero" THEN Adds(n) ELSE Failed : e \in HttpEnds}
\* A notification's webhook fails the step after the desktop was notified.
NotifyNode(n) == {Failed, Skipped} \cup {Ends([run EXCEPT !.last = text], "ok") : text \in Rendered(n)}
WriteFileNode(n) == {Failed} \cup {Ends([run EXCEPT !.last = text], "ok") : text \in Rendered(n)}
GitHostNode(n) == {Ends(IF e = "zero" THEN [run EXCEPT !.last = {n}] ELSE run, EndOf(e)) : e \in GitHostEnds}
OtherNode(n) == {Skipped}

Bodies(n) ==
  UNION {InputNode(n), MemoryNode(n), AgentNode(n), CustomAgentNode(n), OutputNode(n), TemplateNode(n), FileInjectNode(n),
         GitStatusNode(n), ShellNode(n), ScriptNode(n), AppActionNode(n), HttpNode(n), NotifyNode(n), WriteFileNode(n),
         GitHostNode(n), OtherNode(n)}

-----------------------------------------------------------------------------
(* The loop over the nodes.                                                *)

StartRun(pinned) ==
  /\ part = "none" /\ part' = "run" /\ run' = [Locals EXCEPT !.pinned = pinned, !.excl = pinned]
  /\ UNCHANGED <<graph, topo, scan, steps, ended>>

\* insert_step, then the status: a step that failed or was cancelled ends the run.
\* Mutant: a step that failed does not end the run.
GoesOn(end) == IF end = "failed" THEN "no" ELSE IF end = "ok" THEN "no" ELSE end
After(end) == IF end = "ok" THEN "no" ELSE end
RunNode(body) ==
  /\ part = "run" /\ ended = "no" /\ Len(steps) < MaxSteps
  /\ run' = body.s /\ ended' = After(body.end)
  /\ steps' = CASE body.end = "ok" -> Append(steps, "completed")
                [] body.end \in {"failed", "cancelled"} -> Append(steps, "failed")
                [] OTHER -> steps
  /\ UNCHANGED <<part, graph, topo, scan>>

\* A cancelled run is found at the next node; the end of the order completes it with the last Output
\* that is final, or with the last output.
ObserveCancel ==
  /\ part = "run" /\ ended = "no" /\ Len(steps) < MaxSteps /\ ended' = "cancelled"
  /\ UNCHANGED <<part, graph, topo, scan, run, steps>>
Finish ==
  /\ part = "run" /\ ended = "no" /\ steps # <<>> /\ ended' = "completed"
  /\ run' = [run EXCEPT !.result = IF run.final # {} THEN run.final ELSE run.last]
  /\ UNCHANGED <<part, graph, topo, scan, steps>>

-----------------------------------------------------------------------------
(* Properties.                                                             *)

Paths[k \in 0..GraphNodes] ==
  IF k = 0 THEN graph.edges
  ELSE Paths[k - 1] \cup {x \in Nodes \X Nodes : \E m \in Nodes : <<x[1], m>> \in Paths[k - 1] /\ <<m, x[2]>> \in graph.edges}
\* A node that no cycle leads to.
Settled(n) == ~\E c \in Nodes : <<c, c>> \in Paths[GraphNodes] /\ (c = n \/ <<c, n>> \in Paths[GraphNodes])
Place(n) == CHOOSE i \in 1..Len(topo.ordered) : topo.ordered[i] = n
\* Every node runs once, after everything it depends on; only a node on a cycle, or behind one, may
\* run before one of its sources (topological_order, runner/mod.rs:2038).
OrderRespectsEdges ==
  topo.state = "done" =>
    /\ Len(topo.ordered) = GraphNodes /\ Range(topo.ordered) = Nodes
    /\ \A e \in graph.edges : Settled(e[2]) => Place(e[1]) < Place(e[2])

Upstream[k \in 0..GraphNodes] == IF k = 0 THEN {Output} ELSE Upstream[k - 1] \cup UNION {Sources(n) : n \in Upstream[k - 1]}
Distance(a) == CHOOSE k \in 0..GraphNodes : a \in Upstream[k] /\ \A j \in 0..(k - 1) : a \notin Upstream[j]
\* An HTML report is asked of every agent at the shortest distance above the output, and of no other
\* (nearest_html_report_agents, runner/mod.rs:538).
NearestAgentsReport ==
  part = "report" /\ scan.queue = <<>> =>
    LET above == graph.agents \cap Upstream[GraphNodes]
    IN scan.agents = {a \in above : \A b \in above : Distance(a) <= Distance(b)}

\* The files an Output lists were changed by the last agent that answered (last_files_changed,
\* runner/mod.rs:1256 and 1432).
FilesAreOfTheLastAgent == run.files \subseteq {run.agent}

\* Recall adds only what the prompt does not hold already: no memory that is pinned or that a Memory
\* node has put there (automatic_memory_exclusions, runner/mod.rs:771 and 1006).
RecallAddsNew == run.recalled \cap (run.pinned \cup run.prompt) = {}

\* A run goes on only after steps that completed, so that what it ends with holds text of completed
\* steps alone (the match on step_result, runner/mod.rs:1874-2006).
ResultIsOfCompletedSteps ==
  /\ \A i \in 1..(Len(steps) - 1) : steps[i] = "completed"
  /\ ended = "completed" => /\ \A i \in 1..Len(steps) : steps[i] = "completed"
                            /\ run.result \cap (1..MaxSteps) \subseteq 1..Len(steps)

-----------------------------------------------------------------------------
Next ==
  \/ part = "none" /\ \E edges \in SUBSET ((1..(GraphNodes - 1)) \X (1..(GraphNodes - 1))), inputs \in {{}, {2}} : StartOrder(edges, inputs)
  \/ PopNode
  \/ AppendRest
  \/ part = "none" /\ \E edges \in SUBSET {e \in Nodes \X Nodes : e[1] < e[2]}, agents \in SUBSET (Nodes \ {Output}) : StartScan(edges, agents)
  \/ PopScan
  \/ \E pinned \in SUBSET Memories : StartRun(pinned)
  \/ part = "run" /\ \E body \in Bodies(Len(steps) + 1) : RunNode(body)
  \/ ObserveCancel
  \/ Finish

Spec == Init /\ [][Next]_wsVars
=============================================================================
