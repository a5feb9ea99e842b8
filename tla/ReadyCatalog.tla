----------------------------- MODULE ReadyCatalog -----------------------------
(***************************************************************************)
(* What readers of the archaeology catalog are promised: at any moment at  *)
(* most one generation is ready, the pointer names it, and it stays        *)
(* authoritative until another one that was sealed for the current         *)
(* revision replaces it in a single step.  Everything else that happens to *)
(* jobs, leases and staging rows is invisible here.                        *)
(***************************************************************************)
CONSTANTS Gens, Revisions, NoGen, NoRev

VARIABLES
    current,   \* the registered revision of the repository
    ready,     \* the pointer readers follow
    status,    \* per generation: absent, draft, sealed, ready, superseded,
               \* discarded
    revision   \* the revision a generation was built from

catalog == <<current, ready, status, revision>>

Init ==
    /\ current = NoRev
    /\ ready = NoGen
    /\ status = [g \in Gens |-> "absent"]
    /\ revision = [g \in Gens |-> NoRev]

Register(r) ==
    /\ current' = r
    /\ UNCHANGED <<ready, status, revision>>

Draft(g, r) ==
    /\ status[g] = "absent"
    /\ status' = [status EXCEPT ![g] = "draft"]
    /\ revision' = [revision EXCEPT ![g] = r]
    /\ UNCHANGED <<current, ready>>

\* A draft is sealed by validation, and loses the seal if its content moves.
Reseal(g, from, to) ==
    /\ status[g] = from
    /\ status' = [status EXCEPT ![g] = to]
    /\ UNCHANGED <<current, ready, revision>>

Publish(g) ==
    /\ status[g] = "sealed"
    /\ revision[g] = current
    /\ status' = [h \in Gens |-> IF h = g THEN "ready"
                                 ELSE IF h = ready THEN "superseded"
                                 ELSE status[h]]
    /\ ready' = g
    /\ UNCHANGED <<current, revision>>

Discard(g) ==
    /\ status[g] \in {"draft", "sealed"}
    /\ status' = [status EXCEPT ![g] = "discarded"]
    /\ UNCHANGED <<current, ready, revision>>

\* Deletion never touches the ready generation.
Remove(S) ==
    /\ \A g \in S : status[g] \in {"draft", "sealed", "discarded", "superseded"}
    /\ status' = [g \in Gens |-> IF g \in S THEN "absent" ELSE status[g]]
    /\ revision' = [g \in Gens |-> IF g \in S THEN NoRev ELSE revision[g]]
    /\ UNCHANGED <<current, ready>>

Next ==
    \/ \E r \in Revisions : Register(r)
    \/ \E g \in Gens, r \in Revisions : Draft(g, r)
    \/ \E g \in Gens : Reseal(g, "draft", "sealed")
    \/ \E g \in Gens : Reseal(g, "sealed", "draft")
    \/ \E g \in Gens : Publish(g)
    \/ \E g \in Gens : Discard(g)
    \/ \E S \in SUBSET Gens : Remove(S)

Spec == Init /\ [][Next]_catalog
=============================================================================
