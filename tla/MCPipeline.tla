----------------------------- MODULE MCPipeline -----------------------------
(***************************************************************************)
(* What is made of a file that was written, side by side: the signed       *)
(* revisions all of it is kept in, the capture of who wrote the file, the  *)
(* plan of the changes, and the patches that carry a unit of it to its     *)
(* branch; and two parts that must come to an end like the watchers of a   *)
(* session, the views of an operator who retries, and the webhook.  They   *)
(* share no state: a behaviour chooses one of them and the others stay     *)
(* where they begin, so that the state space is the sum of the six and not *)
(* their product.                                                          *)
(***************************************************************************)
EXTENDS SignedRevisions, Capture, Planning, Patches, MCViews, Webhooks

CONSTANTS p1, p2, ada, bob, hook, hook2, lib, src_lib, nl, w, x, y, z

VARIABLE part

pipelineVars == <<vars, captureVars, planningVars, patchVars, viewVars, webhookVars, part>>

\* Two publishers with their own identities race and crash over one identity with
\* two contents.
MCPublishers == {p1, p2}
MCSigners == {ada, bob}
MCSigner == (p1 :> ada) @@ (p2 :> bob)

\* Two hooks of one agent, whose sessions and links need the longest ledger, a shell and
\* a hook, or two shells.
MCCrews == {{one, hook}, {hook, hook2}, {one, two}}
MCMaxEvents == [c \in MCCrews |-> IF c = {hook, hook2} THEN 6 ELSE IF hook \in c THEN 4 ELSE 3]

\* The path lib, which the name src_lib ends with.
MCEndings == {<<src_lib, lib>>}
MCRelative == [n \in {lib, src_lib} |-> n]

\* Up to four boundaries, apart or nested, with imports and tests among them; the last
\* has a local import in each of two functions.
Node(from, to, import, test) == [from |-> from, to |-> to, import |-> import, test |-> test]
MCLayouts ==
    {{},
     {Node(1, 1, TRUE, FALSE), Node(2, 2, FALSE, FALSE), Node(3, 3, FALSE, TRUE)},
     {Node(1, 3, FALSE, FALSE), Node(2, 2, FALSE, FALSE), Node(3, 3, FALSE, TRUE)},
     {Node(1, 1, TRUE, FALSE), Node(2, 2, TRUE, TRUE), Node(3, 3, FALSE, FALSE)},
     {Node(1, 2, FALSE, FALSE), Node(2, 2, TRUE, FALSE),
      Node(3, 3, FALSE, FALSE), Node(3, 3, TRUE, FALSE)}}

\* Files of up to four different lines, and files with a line that ends in another one
\* (indented is x after a w) or with a last line without a newline; covers of one to
\* three pull requests.
Line(c) == <<c, nl>>
Indented == <<w, x, nl>>
MCSources ==
    {t \in UNION {[1..n -> {Line(w), Line(x), Line(y), Line(z)}] : n \in 0..4} :
        IsInjective(t) /\ (Len(t) = 4 => t[1] = Line(w))}
    \cup {<<Indented, Line(x)>>, <<Line(x), Line(y), Indented>>,
          <<Indented, Line(y), Line(x)>>, <<Line(y), <<x>> >>}
MCCovers ==
    {<<{1}>>, <<{2}>>, <<{1, 3}>>, <<{1, 2, 3}>>,
     <<{1}, {2}>>, <<{2}, {1}>>, <<{1}, {3}>>, <<{1, 2}, {3}>>, <<{1}, {2, 3}>>,
     <<{2, 3}, {1}>>, <<{4}, {1, 2}>>, <<{1, 4}, {2}>>, <<{3}, {2}, {1}>>, <<{1}, {3}, {4}>>}
MCTokenTexts == UNION {[1..n -> {x, y}] : n \in 0..3}

NoCapture ==
    /\ trail = <<>> /\ sessionFile = {} /\ dirty = {} /\ mediated = {}
    /\ watcher = [s \in Sessions |-> "none"] /\ noticed = [s \in Sessions |-> {}]
    /\ at = <<>> /\ holds = <<>> /\ crew = {}
NoPlanning ==
    /\ input = <<>> /\ atoms = {} /\ dependencies = {} /\ units = {}
    /\ needs = <<>> /\ stage = "none"
NoPatches == job = <<>> /\ touched = {} /\ patches = <<>> /\ text = {} /\ applied = 0

PipelineInit ==
    /\ part \in {"revisions", "capture", "planning", "patches", "views", "webhooks"}
    /\ Init /\ WebhookInit
    /\ ViewInit /\ serial
    /\ IF part = "capture" THEN CaptureInit ELSE NoCapture
    /\ IF part = "planning" THEN PlanningInit ELSE NoPlanning
    /\ IF part = "patches" THEN PatchesInit ELSE NoPatches

PipelineNext ==
    \/ part = "revisions" /\ Next
       /\ UNCHANGED <<captureVars, planningVars, patchVars, viewVars, webhookVars, part>>
    \/ part = "capture" /\ CaptureNext
       /\ UNCHANGED <<vars, planningVars, patchVars, viewVars, webhookVars, part>>
    \/ part = "planning" /\ PlanningNext
       /\ UNCHANGED <<vars, captureVars, patchVars, viewVars, webhookVars, part>>
    \/ part = "patches" /\ PatchesNext
       /\ UNCHANGED <<vars, captureVars, planningVars, viewVars, webhookVars, part>>
    \/ part = "views" /\ ViewNext
       /\ UNCHANGED <<vars, captureVars, planningVars, patchVars, webhookVars, part>>
    \/ part = "webhooks" /\ WebhookNext
       /\ UNCHANGED <<vars, captureVars, planningVars, patchVars, viewVars, part>>

\* The fairness of the one that runs.
PipelineSpec ==
    /\ PipelineInit /\ [][PipelineNext]_pipelineVars
    /\ \A s \in Sessions : WF_captureVars(part = "capture" /\ Poll(s))
    /\ \A p \in Operators : WF_viewVars(part = "views" /\ ContinueView(p))
    /\ \A p \in Operators : WF_viewVars(part = "views" /\ RetryAdvance(p))
    /\ \A r \in Requests : WF_webhookVars(part = "webhooks" /\ Work(r))
    /\ \A d \in Deliveries : WF_webhookVars(part = "webhooks" /\ Redeliver(d))
=============================================================================
