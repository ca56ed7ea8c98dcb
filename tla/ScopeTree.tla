------------------------------ MODULE ScopeTree ------------------------------
(***************************************************************************)
(* The tree of scopes below a root ScopeImpl (tally/src/scope_impl.cc):    *)
(* threads ask scopes for sub-scopes and tagged scopes, by ID, while the   *)
(* thread that executes Report() walks the tree and holds the              *)
(* registry_mutex_ of every scope on its path.                             *)
(*                                                                         *)
(* A string is a sequence of words and separators.                         *)
(***************************************************************************)
EXTENDS Integers, Sequences, SequencesExt

CONSTANTS
  Callers,    \* threads that ask for scopes
  Names,      \* arguments of SubScope: non-empty strings
  TagMaps,    \* arguments of Tagged: functions from tag names to strings
  TagNames,   \* all tag names, in the order of std::sort
  RootTags,   \* the tags of the root
  MaxCalls,   \* bound: calls of SubScope and Tagged
  MaxDepth    \* bound: how deep the tree may grow

Root == 1
Idle == [stage |-> "idle"]

ASSUME TreeAssumption ==
  /\ \A t \in TagMaps \cup {RootTags} : DOMAIN t \subseteq ToSet(TagNames)
  /\ MaxCalls \in Nat /\ MaxDepth \in Nat

VARIABLES
  scopes,    \* the scopes of the tree: [prefix, tags, registry, depth]
  calls,     \* calls[c]: what c has asked for and not yet been given
  path,      \* the scopes that Report() is in: [scope, locked, left]
  made,      \* use of the bound MaxCalls
  \* History, read by no action:
  given,     \* what the calls were given
  due,       \* the scopes that existed when the latest Report began
  visits     \* the scopes that it has visited, in order

vars == <<scopes, calls, path, made, given, due, visits>>

\* Report holds the registry_mutex_ of s.
Locked(s) == \E i \in DOMAIN path : path[i].scope = s /\ path[i].locked

\* insert() of a key that a map does not have.
Inserted(map, key, value) ==
  [k \in DOMAIN map \cup {key} |-> IF k = key THEN value ELSE map[k]]

-----------------------------------------------------------------------------
(* Names, tags and IDs.                                                    *)

FullyQualifiedName(s, name) ==
  IF scopes[s].prefix = <<>> THEN name ELSE scopes[s].prefix \o <<".">> \o name

\* Two rounds of insert(), which leaves a key alone that is there already.
MergeTags(own, tags) == own @@ tags

\* prefix+key=value,key=value with the keys sorted.
ScopeID(prefix, tags) ==
  LET keys == SelectSeq(TagNames, LAMBDA key : key \in DOMAIN tags)
      part(i) == <<keys[i], "=">> \o tags[keys[i]]
                   \o (IF i < Len(keys) THEN <<",">> ELSE <<>>)
  IN prefix \o <<"+">> \o FlattenSeq([i \in 1 .. Len(keys) |-> part(i)])

-----------------------------------------------------------------------------
(* Wrong on purpose: forms of the operations below that plausible mistakes *)
(* would give them.  No specification uses them.                           *)

\* The scope just built is returned, whatever insert() found.
InsertIgnored(c) ==
  LET call == calls[c]
      parent == scopes[call.scope]
      new == [prefix |-> call.prefix, tags |-> call.tags, registry |-> <<>>,
              depth |-> parent.depth + 1]
      result == Len(scopes) + 1
  IN /\ call # Idle /\ ~Locked(call.scope)
     /\ scopes' = Append([scopes EXCEPT ![call.scope].registry = @ @@ (call.id :> result)],
                         new)
     /\ given' = given \cup {[call |-> call, result |-> result]}
     /\ calls' = [calls EXCEPT ![c] = Idle]
     /\ UNCHANGED <<path, made, due, visits>>

\* registry_[id] = scope, in place of insert().
InsertOverwrites(c) ==
  LET call == calls[c]
      parent == scopes[call.scope]
      new == [prefix |-> call.prefix, tags |-> call.tags, registry |-> <<>>,
              depth |-> parent.depth + 1]
      result == Len(scopes) + 1
  IN /\ call # Idle /\ ~Locked(call.scope)
     /\ scopes' = Append([scopes EXCEPT ![call.scope].registry = (call.id :> result) @@ @],
                         new)
     /\ given' = given \cup {[call |-> call, result |-> result]}
     /\ calls' = [calls EXCEPT ![c] = Idle]
     /\ UNCHANGED <<path, made, due, visits>>

\* The mutex of the registry stays locked.
ReportLeaveLocked == path # <<>> /\ Last(path).locked /\ UNCHANGED vars

-----------------------------------------------------------------------------
(* SubScope(name) and Tagged(tags), on any scope the caller has.           *)

\* The part before the mutex: merge the tags, compute the ID, build a scope.
Start(c, s, prefix, tags) ==
  LET merged == MergeTags(scopes[s].tags, tags) IN
  /\ calls[c] = Idle /\ made < MaxCalls /\ scopes[s].depth < MaxDepth
  /\ made' = made + 1
  /\ calls' = [calls EXCEPT ![c] =
       [stage |-> "built", scope |-> s, prefix |-> prefix, asked |-> tags,
        tags |-> merged, id |-> ScopeID(prefix, merged)]]
  /\ UNCHANGED <<scopes, path, given, due, visits>>

SubScope(c, s, name) == Start(c, s, FullyQualifiedName(s, name), <<>>)

Tagged(c, s, tags) == Start(c, s, scopes[s].prefix, tags)

\* Insert it under the parent's registry_mutex_, or drop it for the one that
\* is there already.
Insert(c) ==
  LET call == calls[c]
      parent == scopes[call.scope]
      found == call.id \in DOMAIN parent.registry
      new == [prefix |-> call.prefix, tags |-> call.tags, registry |-> <<>>,
              depth |-> parent.depth + 1]
      result == IF found THEN parent.registry[call.id] ELSE Len(scopes) + 1
  IN /\ call # Idle /\ ~Locked(call.scope)
     /\ scopes' = IF found THEN scopes
                  ELSE Append([scopes EXCEPT ![call.scope].registry =
                                 Inserted(@, call.id, result)], new)
     /\ given' = given \cup {[call |-> call, result |-> result]}
     /\ calls' = [calls EXCEPT ![c] = Idle]
     /\ UNCHANGED <<path, made, due, visits>>

-----------------------------------------------------------------------------
(* Report(), which calls itself for each scope of the registry.            *)

Frame(s) == [scope |-> s, locked |-> FALSE, left |-> {}]

\* The Run thread begins a Report of the root.
ReportStart ==
  /\ path = <<>>
  /\ path' = <<Frame(Root)>>
  /\ due' = DOMAIN scopes
  /\ visits' = <<Root>>
  /\ UNCHANGED <<scopes, calls, made, given>>

\* The metrics of a scope are done, and its registry is locked.
ReportRegistry ==
  LET top == Last(path) IN
  /\ path # <<>> /\ ~top.locked
  /\ path' = [path EXCEPT ![Len(path)] =
       [scope |-> top.scope, locked |-> TRUE, left |-> Range(scopes[top.scope].registry)]]
  /\ UNCHANGED <<scopes, calls, made, given, due, visits>>

\* The next scope of the registry, in the map's order.
ReportChild(s) ==
  /\ path # <<>> /\ s \in Last(path).left
  /\ path' = Append([path EXCEPT ![Len(path)].left = @ \ {s}], Frame(s))
  /\ visits' = Append(visits, s)
  /\ UNCHANGED <<scopes, calls, made, given, due>>

\* The end of Report unlocks the registry.
ReportLeave ==
  /\ path # <<>> /\ Last(path).locked /\ Last(path).left = {}
  /\ path' = Front(path)
  /\ UNCHANGED <<scopes, calls, made, given, due, visits>>

-----------------------------------------------------------------------------
(* The specification.                                                      *)

Init ==
  /\ scopes = <<[prefix |-> <<>>, tags |-> RootTags, registry |-> <<>>, depth |-> 0]>>
  /\ calls = [c \in Callers |-> Idle]
  /\ path = <<>> /\ made = 0
  /\ given = {} /\ due = {} /\ visits = <<>>

Ask ==
  \E c \in Callers, s \in DOMAIN scopes :
    \/ \E name \in Names : SubScope(c, s, name)
    \/ \E tags \in TagMaps : Tagged(c, s, tags)

Report ==
  \/ ReportStart \/ ReportRegistry \/ ReportLeave
  \/ \E s \in DOMAIN scopes : ReportChild(s)

Next == Ask \/ (\E c \in Callers : Insert(c)) \/ Report

Spec == Init /\ [][Next]_vars

\* The Run thread goes on, and a mutex that it frees for an interval (of
\* seconds) after every Report is got by those who wait for it.  Nobody has
\* to ask for a scope.
FairSpec == Spec /\ WF_vars(Report) /\ \A c \in Callers : SF_vars(Insert(c))

-----------------------------------------------------------------------------
(* Properties.                                                             *)

\* Two calls on one scope with the same prefix and tags are given the same
\* scope, whichever of two threads inserts first.
OneScope ==
  \A g, h \in given :
    (/\ g.call.scope = h.call.scope /\ g.call.prefix = h.call.prefix
     /\ g.call.tags = h.call.tags) => g.result = h.result

\* "ScopeID constructs a unique ID for a scope" (scope_impl.h:78): a call is
\* given a scope with the prefix and the tags it asked for, never one that only
\* shares its ID.
RightScope ==
  \A g \in given : /\ scopes[g.result].prefix = g.call.prefix
                   /\ scopes[g.result].tags = g.call.tags

\* Get or create, also for two threads at once: what one parent gives for one
\* prefix and one set of tags is always the same scope, and a scope with that
\* prefix and those tags as long as their IDs are distinct.
SameScope == OneScope /\ RightScope

\* scope_impl.h:78, "ScopeID constructs a unique ID for a scope", among the
\* prefixes P and the tags T.  An assumption on Names, TagMaps and RootTags that
\* SameScope needs: no name or value contains a separator of the IDs.
DistinctIDs(P, T) ==
  \A p, q \in P, t, u \in T : ScopeID(p, t) = ScopeID(q, u) => p = q /\ t = u

\* A Report visits each scope that existed when it began, and none twice,
\* while the tree grows under it: no scope that a thread was given is missing
\* from the registries, and none is in two of them.
ReportVisitsAll ==
  /\ IsInjective(visits)
  /\ path = <<>> => due \subseteq ToSet(visits)

\* A thread that asks for a scope is given one, although Report keeps the
\* mutexes of a whole path locked.
AskersServed == \A c \in Callers : calls[c] # Idle ~> calls[c] = Idle

\* "The provided tags take precedence over the parent's tags" (scope.h:60).
ProvidedTagsWin ==
  \A g \in given : \A t \in DOMAIN g.call.asked :
    scopes[g.result].tags[t] = g.call.asked[t]
-----------------------------------------------------------------------------
(* The inductive invariant behind the safety properties.                   *)

Children(s) == Range(scopes[s].registry)
Visited     == ToSet(visits)

TypeInv ==
  /\ scopes \in Seq(ToSet(scopes))
  /\ \A s \in DOMAIN scopes :
       DOMAIN scopes[s] = {"prefix", "tags", "registry", "depth"}
  /\ calls = [c \in Callers |-> calls[c]]
  /\ path \in Seq([scope : DOMAIN scopes, locked : BOOLEAN, left : SUBSET DOMAIN scopes])
  /\ visits \in Seq(DOMAIN scopes)
  /\ due \in SUBSET DOMAIN scopes

\* The registries make a tree: every scope but the root is in one registry, that
\* of an older scope.
TreeInv ==
  /\ Root \in DOMAIN scopes
  /\ \A p \in DOMAIN scopes : Children(p) \subseteq p + 1 .. Len(scopes)
  /\ \A s \in DOMAIN scopes \ {Root} : \E p \in DOMAIN scopes : s \in Children(p)
  /\ \A p, q \in DOMAIN scopes : p # q => Children(p) \cap Children(q) = {}

\* Report on its way down: nothing below a scope that it has just entered is
\* visited; below one whose registry it holds, all that is not left is; and below
\* one that it has left, all that is due.
WalkInv ==
  /\ \A i, j \in DOMAIN path : path[i].scope = path[j].scope => i = j
  /\ \A i \in DOMAIN path :
       /\ path[i].scope \in Visited
       /\ path[i].locked =>
            /\ path[i].left \subseteq Children(path[i].scope) \ Visited
            /\ Children(path[i].scope) \subseteq Visited \cup path[i].left
       /\ ~path[i].locked =>
            path[i].left = {} /\ Children(path[i].scope) \cap Visited = {}
  /\ \A s \in Visited :
       \/ \E i \in DOMAIN path : path[i].scope = s
       \/ Children(s) \cap due \subseteq Visited

\* What is visited hangs together with the root, and what is due is a tree.
VisitInv ==
  /\ IsInjective(visits)
  /\ \A p \in DOMAIN scopes : Children(p) \cap Visited # {} => p \in Visited
  /\ due # {} => Root \in Visited
  /\ \A s \in due : 1 .. s \subseteq due

\* A registry maps the ID of a call to what the call was given.
GivenInv ==
  /\ \A c \in Callers : calls[c] # Idle =>
       /\ calls[c].scope \in DOMAIN scopes
       /\ calls[c].id = ScopeID(calls[c].prefix, calls[c].tags)
  /\ \A g \in given :
       /\ g.call.scope \in DOMAIN scopes
       /\ g.call.id = ScopeID(g.call.prefix, g.call.tags)
       /\ g.call.id \in DOMAIN scopes[g.call.scope].registry
       /\ g.result = scopes[g.call.scope].registry[g.call.id]
  /\ \A p \in DOMAIN scopes : \A id \in DOMAIN scopes[p].registry :
       LET s == scopes[scopes[p].registry[id]] IN id = ScopeID(s.prefix, s.tags)

\* Init implies it, every step preserves it, and it implies OneScope and
\* ReportVisitsAll.
IInv == TypeInv /\ TreeInv /\ WalkInv /\ VisitInv /\ GivenInv
=============================================================================
