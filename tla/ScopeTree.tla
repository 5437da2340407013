------------------------------ MODULE ScopeTree ------------------------------
(***************************************************************************)
(* The tree of runtime scopes (runtime/scope.rs) behind its owner          *)
(* (RuntimeScopeOwner in runtime/composition.rs): one application, its     *)
(* window, the window's conversations.  Each scope owns effects and the    *)
(* slot of one capability.  A close takes the tree out of its owner until  *)
(* it answers, closes children before parents and newest first, and waits  *)
(* at every asynchronous effect; it may fail there, be retried, or be      *)
(* dropped together with the tree.                                         *)
(***************************************************************************)
EXTENDS EffectScope, TLC
LOCAL INSTANCE SequencesExt
LOCAL INSTANCE FiniteSetsExt

CONSTANTS MaxScopes,   \* bound: scopes ever created
          MaxEffects,  \* bound: effects in force at a time
          MaxInstalls, \* bound: providers ever installed
          None

\* What the parameters are assumed to be.
Parameters == MaxScopes \in Nat \ {0, 1} /\ MaxEffects \in Nat /\ MaxInstalls \in Nat

VARIABLES nodes,    \* the registered scopes
          next_id,  \* the next scope's identity
          tree,     \* "held" by the owner, "taken" by a close, "dropped"
          closing,  \* the close that runs: [root, order], order still to do
          live,     \* the effects in force
          tokens    \* the registrations handed out: [scope, generation]
vars == <<nodes, next_id, tree, closing, live, tokens>>

Application == 0
Window == 1

Node(kind, parent) ==
  [kind |-> kind, parent |-> parent, children |-> <<>>, state |-> "open",
   effects |-> NewScope, current |-> None, last |-> 0]

Init ==
  /\ nodes = (Application :> [Node("application", None) EXCEPT !.children = <<Window>>])
             @@ (Window :> Node("window", Application))
  /\ next_id = Window + 1
  /\ tree = "held" /\ closing = None /\ live = {} /\ tokens = {}

OpenNode(s) == s \in DOMAIN nodes /\ nodes[s].state = "open"

CreateConversation ==
  /\ tree = "held" /\ OpenNode(Window) /\ next_id <= MaxScopes
  /\ nodes' = (next_id :> Node("conversation", Window))
              @@ [nodes EXCEPT ![Window].children = Append(@, next_id)]
  /\ next_id' = next_id + 1
  /\ UNCHANGED <<tree, closing, live, tokens>>

Own(s, kind) ==
  LET e == [scope |-> s, n |-> Len(nodes[s].effects.entries) + 1, kind |-> kind]
  IN /\ tree = "held" /\ OpenNode(s) /\ Cardinality(live) < MaxEffects
     /\ nodes' = [nodes EXCEPT ![s].effects = Owning(@, e)]
     /\ live' = live \cup {e}
     /\ UNCHANGED <<next_id, tree, closing, tokens>>

\* A slot takes one provider at a time; generations of a slot never repeat.
Install(s) ==
  LET generation == nodes[s].last + 1
  IN /\ tree = "held" /\ OpenNode(s) /\ nodes[s].current = None
     /\ Cardinality(tokens) < MaxInstalls
     /\ nodes' = [nodes EXCEPT ![s].current = generation, ![s].last = generation]
     /\ tokens' = tokens \cup {[scope |-> s, generation |-> generation]}
     /\ UNCHANGED <<next_id, tree, closing, live>>

\* Revoking a stale registration, or one of a scope that closed, changes nothing.
Revoke(t) ==
  /\ tree = "held" /\ OpenNode(t.scope) /\ nodes[t.scope].current = t.generation
  /\ nodes' = [nodes EXCEPT ![t.scope].current = None]
  /\ UNCHANGED <<next_id, tree, closing, live, tokens>>

Parents(s) ==
  LET path[n \in DOMAIN nodes] ==
        IF nodes[n].parent = None THEN <<n>> ELSE <<n>> \o path[nodes[n].parent]
  IN path[s]

\* resolve walks from s to the nearest provider: it refuses when it meets a
\* scope that is not open first.
Refuses(s) ==
  LET path == Parents(s)
      ends == {i \in DOMAIN path : ~ OpenNode(path[i]) \/ nodes[path[i]].current # None}
  IN ends # {} /\ ~ OpenNode(path[Min(ends)])
------------------------------------------------------------------------------
(* Closing.                                                                *)
Unclosed(s) == nodes[s].state # "closed"

\* Fault: a scope is closed before what it contains.
ParentsFirst(s) ==
  LET order[n \in DOMAIN nodes] ==
        <<n>> \o FlattenSeq([i \in DOMAIN nodes[n].children |-> order[nodes[n].children[i]]])
  IN SelectSeq(order[s], Unclosed)

\* Descendants before their ancestors, the newest child first.
CloseOrder(s) ==
  LET order[n \in DOMAIN nodes] ==
        FlattenSeq([i \in DOMAIN nodes[n].children |->
                      order[Reverse(nodes[n].children)[i]]]) \o <<n>>
  IN SelectSeq(order[s], Unclosed)

CloseBegin(s) ==
  /\ tree = "held" /\ s \in DOMAIN nodes
  /\ closing' = [root |-> s, order |-> CloseOrder(s)]
  /\ tree' = "taken"
  /\ UNCHANGED <<nodes, next_id, live, tokens>>

\* What disposal of the scope does until it waits or ends, and its answer.
Disposed(node) ==
  LET effects == Unwound(node.effects)
  IN [node EXCEPT !.effects = effects, !.current = None, !.last = 0,
                  !.state = IF effects.state = "disposed" THEN "closed" ELSE "closing"]

Waiting == closing # None /\ closing.order # <<>> /\ Awaiting(nodes[Head(closing.order)].effects)

CloseNode ==
  /\ tree = "taken" /\ closing.order # <<>>
  /\ LET s == Head(closing.order)
     IN /\ nodes[s].state = "open" \/ ~ Awaiting(nodes[s].effects)
        /\ nodes' = [nodes EXCEPT ![s] = Disposed(@)]
        /\ live' = live \ Undoable(nodes[s].effects)
        /\ closing' = [closing EXCEPT !.order = IF nodes'[s].state = "closed" THEN Tail(@) ELSE @]
  /\ UNCHANGED <<next_id, tree, tokens>>

\* The asynchronous effect at the barrier answers: with Ok what is older goes
\* on, with an error the close answers it and the scope stays as it is.
StopEnds ==
  /\ tree = "taken" /\ Waiting
  /\ LET s == Head(closing.order)
         popped == [nodes[s] EXCEPT !.effects = Popped(@)]
     IN /\ nodes' = [nodes EXCEPT ![s] = Disposed(popped)]
        /\ live' = live \ ({Newest(nodes[s].effects)} \cup Undoable(popped.effects))
        /\ closing' = [closing EXCEPT !.order = IF nodes'[s].state = "closed" THEN Tail(@) ELSE @]
  /\ UNCHANGED <<next_id, tree, tokens>>

StopFails ==
  /\ tree = "taken" /\ Waiting
  /\ tree' = "held" /\ closing' = None
  /\ UNCHANGED <<nodes, next_id, live, tokens>>

Below(s) == {n \in DOMAIN nodes : \E i \in DOMAIN Parents(n) : Parents(n)[i] = s}

\* Fault: the scope goes, its parent keeps its identity.
RemovedOnly(s) == [n \in DOMAIN nodes \ Below(s) |-> nodes[n]]

\* remove_closed: the scope and all below it go, and its parent forgets it.
Removed(s) ==
  LET kept == DOMAIN nodes \ Below(s)
  IN [n \in kept |-> [nodes[n] EXCEPT !.children = SelectSeq(@, LAMBDA c : c # s)]]

\* The application stays registered as closed; any other scope is removed.
CloseEnds ==
  /\ tree = "taken" /\ closing.order = <<>>
  /\ nodes' = IF closing.root = Application THEN nodes ELSE Removed(closing.root)
  /\ tree' = "held" /\ closing' = None
  /\ UNCHANGED <<next_id, live, tokens>>
------------------------------------------------------------------------------
(* Drop.                                                                   *)
\* Fault: every scope releases what it can, whatever its children still need.
ReachedAll == {n \in DOMAIN nodes : Unclosed(n)}

\* The scopes release_for_drop reaches: those below which nothing waits.
Reached ==
  LET released[n \in DOMAIN nodes] ==
        \/ nodes[n].state = "closed"
        \/ /\ \A i \in DOMAIN nodes[n].children : released[nodes[n].children[i]]
           /\ Barrier(nodes[n].effects) = 0
  IN {n \in DOMAIN nodes : Unclosed(n) /\
        \A i \in DOMAIN nodes[n].children : released[nodes[n].children[i]]}

\* The tree is dropped, by the owner or with the future of a close that
\* waits: what an asynchronous effect or a retained child needs stays in force.
Drop ==
  /\ tree = "held" \/ (tree = "taken" /\ Waiting)
  /\ live' = live \ UNION {Undoable(nodes[n].effects) : n \in Reached}
  /\ tree' = "dropped" /\ closing' = None
  /\ UNCHANGED <<nodes, next_id, tokens>>

Next ==
  \/ CreateConversation
  \/ \E s \in DOMAIN nodes : \E kind \in {"sync", "async"} : Own(s, kind)
  \/ \E s \in DOMAIN nodes : Install(s) \/ CloseBegin(s)
  \/ \E t \in tokens : Revoke(t)
  \/ CloseNode \/ StopEnds \/ StopFails \/ CloseEnds \/ Drop

Spec == Init /\ [][Next]_vars
------------------------------------------------------------------------------
(* Properties.                                                             *)
Descendants(s) == Below(s) \ {s}

\* What a scope provides outlives everything below it: an effect is undone
\* only when nothing of a descendant, and nothing newer of its own scope, is
\* still in force, in a close, in its retry and when the tree is dropped
\* (ScopeTree::close, release_for_drop).
InnerFirst ==
  [][\A e \in live \ live' : \A f \in live' :
       /\ f.scope \notin Descendants(e.scope)
       /\ f.scope = e.scope => f.n < e.n]_vars

\* The tree stays a tree whatever was closed, failed and removed: parents
\* know exactly their children, a scope that is not open has only closed
\* children and no provider, a closed one has no effects, so that an open
\* scope always resolves; and until the tree is dropped it owns every effect
\* in force (create_child, close, remove_closed, resolve).
ScopesOwned ==
  tree # "dropped" =>
    /\ live = UNION {Entries(nodes[s].effects) : s \in DOMAIN nodes}
    /\ \A s \in DOMAIN nodes :
         /\ {nodes[s].children[i] : i \in DOMAIN nodes[s].children}
              = {c \in DOMAIN nodes : nodes[c].parent = s}
         /\ nodes[s].state # "open" =>
              /\ nodes[s].current = None
              /\ \A i \in DOMAIN nodes[s].children : ~ Unclosed(nodes[s].children[i])
         /\ nodes[s].state = "closed" => nodes[s].effects.entries = <<>>
         /\ nodes[s].state = "open" => ~ Refuses(s)
=============================================================================
