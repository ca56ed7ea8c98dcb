---------------------------- MODULE ScopeTreeProofs ----------------------------
(***************************************************************************)
(* Proofs about ScopeTree for every number of callers, all names and tags, *)
(* and trees of every size.                                                *)
(***************************************************************************)
EXTENDS ScopeTree, SequenceTheorems, WellFoundedInduction, TLAPS

-----------------------------------------------------------------------------
(* Sequences, and the insertion into a registry.                           *)

\* A non-empty set of numbers has a least one.
LEMMA LeastNumber ==
  ASSUME NEW T, T \subseteq Nat, T # {}
  PROVE  \E n \in T : \A m \in T : n <= m
<1> DEFINE R == OpToRel(<, Nat)
<1>1. IsWellFoundedOn(R, Nat)
  BY NatLessThanWellFounded
<1>2. PICK n \in T : \A m \in T : ~ (<<m, n>> \in R)
  <2> HIDE DEF R
  <2> QED
    BY <1>1, WFMin
<1>3. \A m \in T : ~ (m < n)
  BY <1>2 DEF OpToRel
<1> QED
  BY <1>3

\* t is s with x in the place p, and y appended.
Extended(s, t, p, x, y) ==
  /\ t \in Seq(ToSet(t)) /\ Len(t) = Len(s) + 1
  /\ DOMAIN s = 1 .. Len(s) /\ DOMAIN t = 1 .. Len(s) + 1 /\ Len(s) \in Nat
  /\ t[p] = x /\ t[Len(s) + 1] = y
  /\ \A i \in DOMAIN s \ {p} : t[i] = s[i]

\* What Append does to a sequence of which one element has changed.
LEMMA AppendToUpdated ==
  ASSUME NEW s, s \in Seq(ToSet(s)), NEW p \in DOMAIN s, NEW x, NEW y, NEW t,
         t = Append([s EXCEPT ![p] = x], y)
  PROVE  Extended(s, t, p, x, y)
<1> DEFINE B == ToSet(s) \cup {x, y}
<1>1. s \in Seq(B) /\ x \in B /\ y \in B
  BY SeqMonotonic
<1>2. Len(s) \in Nat /\ DOMAIN s = 1 .. Len(s)
  BY LenProperties
<1> HIDE DEF B
<1> DEFINE u == [s EXCEPT ![p] = x]
<1>3. /\ u \in Seq(B) /\ Len(u) = Len(s)
      /\ \A i \in 1 .. Len(s) : u[i] = IF i = p THEN x ELSE s[i]
  BY <1>1, <1>2, ExceptSeq
<1>4. t = Append(u, y)
  OBVIOUS
<1> HIDE DEF u
<1>5. /\ t \in Seq(B) /\ Len(t) = Len(u) + 1
      /\ \A i \in 1 .. Len(u) : t[i] = u[i]
      /\ t[Len(u) + 1] = y
  BY <1>1, <1>3, <1>4, AppendProperties
<1>6. DOMAIN t = 1 .. Len(t)
  BY <1>5, LenProperties
<1>7. t \in Seq(ToSet(t))
  <2>1. Range(t) = ToSet(t)
    BY DEF Range, ToSet
  <2>2. t \in Seq(Range(t))
    BY <1>5, SeqOfRange
  <2> QED
    BY <2>1, <2>2
<1> QED
  BY <1>2, <1>3, <1>5, <1>6, <1>7 DEF Extended

\* The tree grows by a scope below p, for a call that p's registry had no scope for.
Grown(p, call) ==
  /\ p \in DOMAIN scopes /\ ~Locked(p)
  /\ call.id \notin DOMAIN scopes[p].registry
  /\ scopes' \in Seq(ToSet(scopes')) /\ Len(scopes') = Len(scopes) + 1
  /\ Len(scopes) \in Nat
  /\ DOMAIN scopes = 1 .. Len(scopes) /\ DOMAIN scopes' = 1 .. Len(scopes) + 1
  /\ \A s \in DOMAIN scopes : /\ DOMAIN scopes'[s] = DOMAIN scopes[s]
                              /\ scopes'[s].prefix = scopes[s].prefix
                              /\ scopes'[s].tags = scopes[s].tags
  /\ \A s \in DOMAIN scopes \ {p} : scopes'[s] = scopes[s]
  /\ scopes'[p].registry = Inserted(scopes[p].registry, call.id, Len(scopes) + 1)
  /\ DOMAIN scopes'[Len(scopes) + 1] = {"prefix", "tags", "registry", "depth"}
  /\ scopes'[Len(scopes) + 1].prefix = call.prefix
  /\ scopes'[Len(scopes) + 1].tags = call.tags
  /\ scopes'[Len(scopes) + 1].registry = <<>>

\* What Insert does: it finds the scope, or the tree grows by it.
LEMMA InsertEffect ==
  ASSUME TypeInv, GivenInv, NEW c \in Callers, Insert(c)
  PROVE  LET p == calls[c].scope
             id == calls[c].id
         IN /\ p \in DOMAIN scopes /\ calls[c] # Idle
            /\ calls' = [calls EXCEPT ![c] = Idle]
            /\ UNCHANGED <<path, made, due, visits>>
            /\ \/ /\ scopes' = scopes /\ id \in DOMAIN scopes[p].registry
                  /\ given' = given \cup {[call |-> calls[c],
                                           result |-> scopes[p].registry[id]]}
               \/ /\ Grown(p, calls[c])
                  /\ given' = given \cup {[call |-> calls[c], result |-> Len(scopes) + 1]}
<1> DEFINE call == calls[c]
<1> DEFINE p == call.scope
<1> DEFINE id == call.id
<1> DEFINE result == Len(scopes) + 1
<1> DEFINE new == [prefix |-> call.prefix, tags |-> call.tags, registry |-> <<>>,
                   depth |-> scopes[p].depth + 1]
<1> DEFINE old == [scopes[p] EXCEPT !.registry = Inserted(@, id, result)]
<1>1. p \in DOMAIN scopes /\ call # Idle /\ ~Locked(p)
  BY DEF Insert, GivenInv
<1>2. CASE id \in DOMAIN scopes[p].registry
  BY <1>1, <1>2 DEF Insert
<1>3. CASE id \notin DOMAIN scopes[p].registry
  <2>1. /\ scopes' = Append([scopes EXCEPT ![p].registry = Inserted(@, id, result)], new)
        /\ given' = given \cup {[call |-> call, result |-> result]}
    BY <1>3 DEF Insert
  <2>2. scopes' = Append([scopes EXCEPT ![p] = old], new)
    BY <2>1
  <2>3. DOMAIN scopes[p] = {"prefix", "tags", "registry", "depth"}
    BY <1>1 DEF TypeInv
  <2>4. /\ DOMAIN old = DOMAIN scopes[p] /\ old.prefix = scopes[p].prefix
        /\ old.tags = scopes[p].tags
        /\ old.registry = Inserted(scopes[p].registry, id, result)
    BY <2>3
  <2>5. /\ DOMAIN new = {"prefix", "tags", "registry", "depth"} /\ new.registry = <<>>
        /\ new.prefix = call.prefix /\ new.tags = call.tags
    OBVIOUS
  <2> HIDE DEF old, new
  <2>6. Extended(scopes, scopes', p, old, new)
    <3>1. scopes \in Seq(ToSet(scopes))
      BY DEF TypeInv
    <3>2. p \in DOMAIN scopes
      BY <1>1
    <3> HIDE DEF p
    <3> QED
      BY <2>2, <3>1, <3>2, AppendToUpdated
  <2>7. Grown(p, call)
    BY <1>1, <1>3, <2>3, <2>4, <2>5, <2>6 DEF Grown, Extended
  <2> QED
    BY <1>1, <2>1, <2>7 DEF Insert
<1> QED
  BY <1>2, <1>3

\* The registries after that.
LEMMA GrownChildren ==
  ASSUME NEW p, NEW call, Grown(p, call), NEW new, new = Len(scopes) + 1
  PROVE  /\ Children(p)' = Children(p) \cup {new}
         /\ \A s \in DOMAIN scopes \ {p} : Children(s)' = Children(s)
         /\ Children(new)' = {}
<1>1. p \in DOMAIN scopes /\ call.id \notin DOMAIN scopes[p].registry
  BY DEF Grown
<1> DEFINE r == scopes'[p].registry
<1>2. r = Inserted(scopes[p].registry, call.id, new)
  BY DEF Grown
<1>3. /\ DOMAIN r = DOMAIN scopes[p].registry \cup {call.id} /\ r[call.id] = new
      /\ \A i \in DOMAIN scopes[p].registry : r[i] = scopes[p].registry[i]
  BY <1>1, <1>2 DEF Inserted
<1>4. Children(p)' = Children(p) \cup {new}
  <2> HIDE DEF r
  <2>1. Range(r) = Range(scopes[p].registry) \cup {new}
    BY <1>3 DEF Range
  <2> QED
    BY <2>1 DEF Children, r
<1>5. \A s \in DOMAIN scopes \ {p} : Children(s)' = Children(s)
  BY DEF Grown, Children
<1>6. Children(new)' = {}
  <2>1. scopes'[new].registry = <<>>
    BY DEF Grown
  <2>2. Range(<<>>) = {}
    BY DEF Range
  <2> QED
    BY <2>1, <2>2 DEF Children
<1> QED
  BY <1>4, <1>5, <1>6

-----------------------------------------------------------------------------
(* What the steps of Report do, frame by frame.                            *)

Frames == [scope : DOMAIN scopes, locked : BOOLEAN, left : SUBSET DOMAIN scopes]

\* The scopes visited are the old ones and s.
Visits(s) ==
  /\ visits' = Append(visits, s) /\ visits' \in Seq(DOMAIN scopes)
  /\ Len(visits') = Len(visits) + 1 /\ Len(visits) \in Nat
  /\ DOMAIN visits = 1 .. Len(visits) /\ DOMAIN visits' = 1 .. Len(visits) + 1
  /\ \A i \in DOMAIN visits : visits'[i] = visits[i]
  /\ visits'[Len(visits) + 1] = s
  /\ Visited' = Visited \cup {s}

\* What the append to visits does.
LEMMA VisitsAppend ==
  ASSUME TypeInv, NEW s \in DOMAIN scopes, visits' = Append(visits, s)
  PROVE  Visits(s)
<1>1. visits \in Seq(DOMAIN scopes)
  BY DEF TypeInv
<1>2. Len(visits) \in Nat /\ DOMAIN visits = 1 .. Len(visits)
  BY <1>1, LenProperties
<1>3. /\ visits' \in Seq(DOMAIN scopes) /\ Len(visits') = Len(visits) + 1
      /\ \A i \in 1 .. Len(visits) : visits'[i] = visits[i]
      /\ visits'[Len(visits) + 1] = s
  BY <1>1, AppendProperties
<1>4. DOMAIN visits' = 1 .. Len(visits) + 1
  BY <1>3, LenProperties
<1>5. Visited' = Visited \cup {s}
  BY <1>2, <1>3, <1>4 DEF Visited, ToSet
<1> QED
  BY <1>2, <1>3, <1>4, <1>5 DEF Visits

\* Report locks the registry of the scope on top.
Locks(n) ==
  /\ n \in Nat \ {0} /\ DOMAIN path = 1 .. n /\ DOMAIN path' = 1 .. n
  /\ path' \in Seq(Frames)
  /\ \A i \in 1 .. n - 1 : path'[i] = path[i]
  /\ ~path[n].locked /\ path'[n].locked
  /\ path'[n].scope = path[n].scope /\ path'[n].left = Children(path[n].scope)

\* What ReportRegistry does: the top of the path is locked, its scopes are left.
LEMMA ReportRegistryEffect ==
  ASSUME TypeInv, TreeInv, ReportRegistry
  PROVE  \E n \in Nat \ {0} : Locks(n)
<1> PICK n : n = Len(path)
  OBVIOUS
<1>1. path \in Seq(Frames) /\ path # <<>>
  BY DEF TypeInv, Frames, ReportRegistry
<1>2. n \in Nat \ {0} /\ DOMAIN path = 1 .. n
  BY <1>1, EmptySeq, LenProperties
<1>3. path[n] \in Frames
  BY <1>1, <1>2, ElementOfSeq
<1> DEFINE top == [scope |-> path[n].scope, locked |-> TRUE,
                   left |-> Children(path[n].scope)]
<1>6. path' = [path EXCEPT ![n] = top]
  BY <1>2 DEF ReportRegistry, Last, Children
<1>7. Children(path[n].scope) \subseteq DOMAIN scopes
  <2>1. DOMAIN scopes = 1 .. Len(scopes) /\ Len(scopes) \in Nat
    BY LenProperties DEF TypeInv
  <2>2. path[n].scope \in DOMAIN scopes
    BY <1>3 DEF Frames
  <2> QED
    BY <2>1, <2>2 DEF TreeInv
<1>8. top \in Frames
  BY <1>3, <1>7 DEF Frames
<1>9. ~path[n].locked
  BY DEF ReportRegistry, Last
<1> HIDE DEF top
<1>10. path' \in Seq(Frames) /\ DOMAIN path' = 1 .. n /\ path'[n] = top
       /\ \A i \in 1 .. n - 1 : path'[i] = path[i]
  BY <1>1, <1>2, <1>6, <1>8, ExceptSeq
<1> QED
  BY <1>2, <1>9, <1>10 DEF Locks, top

\* Report enters the child s of the scope on top.
Enters(n, s) ==
  /\ n \in Nat \ {0} /\ DOMAIN path = 1 .. n /\ DOMAIN path' = 1 .. n + 1
  /\ path' \in Seq(Frames)
  /\ \A i \in 1 .. n - 1 : path'[i] = path[i]
  /\ path'[n].scope = path[n].scope /\ path'[n].locked = path[n].locked
  /\ s \in path[n].left /\ path'[n].left = path[n].left \ {s}
  /\ path'[n + 1].scope = s /\ path'[n + 1].locked = FALSE /\ path'[n + 1].left = {}

\* What ReportChild does: the scope is taken off the top of the path and put on it.
LEMMA ReportChildEffect ==
  ASSUME TypeInv, NEW s \in DOMAIN scopes, ReportChild(s)
  PROVE  \E n \in Nat \ {0} : Enters(n, s)
<1> PICK n : n = Len(path)
  OBVIOUS
<1>1. path \in Seq(Frames) /\ path # <<>>
  BY DEF TypeInv, Frames, ReportChild
<1>2. n \in Nat \ {0} /\ DOMAIN path = 1 .. n
  BY <1>1, EmptySeq, LenProperties
<1>3. path[n] \in Frames
  BY <1>1, <1>2, ElementOfSeq
<1> DEFINE top == [scope |-> path[n].scope, locked |-> path[n].locked,
                   left |-> path[n].left \ {s}]
<1>4. path' = Append([path EXCEPT ![n] = [path[n] EXCEPT !.left = path[n].left \ {s}]],
                     Frame(s))
  BY <1>2 DEF ReportChild
<1>5. [path[n] EXCEPT !.left = path[n].left \ {s}] = top
  <2>1. PICK a \in DOMAIN scopes, b \in BOOLEAN, c \in SUBSET DOMAIN scopes :
          path[n] = [scope |-> a, locked |-> b, left |-> c]
    BY <1>3 DEF Frames
  <2>2. path[n].scope = a /\ path[n].locked = b /\ path[n].left = c
    BY <2>1
  <2>3. [[scope |-> a, locked |-> b, left |-> c] EXCEPT !.left = c \ {s}]
          = [scope |-> a, locked |-> b, left |-> c \ {s}]
    OBVIOUS
  <2> QED
    BY <2>1, <2>2, <2>3
<1>6. path' = Append([path EXCEPT ![n] = top], Frame(s))
  BY <1>4, <1>5
<1>7. top \in Frames /\ Frame(s) \in Frames
  BY <1>3 DEF Frames, Frame
<1>8. s \in path[n].left
  BY DEF ReportChild, Last
<1> DEFINE mid == [path EXCEPT ![n] = top]
<1>9. mid \in Seq(Frames) /\ Len(mid) = n /\ mid[n] = top
      /\ \A i \in 1 .. n - 1 : mid[i] = path[i]
  <2> HIDE DEF top
  <2> QED
    BY <1>1, <1>2, <1>7, ExceptSeq
<1>10. path' = Append(mid, Frame(s))
  BY <1>6
<1> HIDE DEF mid, top
<1>11. path' \in Seq(Frames) /\ Len(path') = n + 1 /\ path'[n + 1] = Frame(s)
       /\ \A i \in 1 .. n : path'[i] = mid[i]
  BY <1>7, <1>9, <1>10, AppendProperties
<1>12. DOMAIN path' = 1 .. n + 1
  BY <1>11, LenProperties
<1> QED
  BY <1>2, <1>8, <1>9, <1>11, <1>12 DEF Enters, top, Frame

\* Report leaves the scope on top.
Leaves(n) ==
  /\ n \in Nat \ {0} /\ DOMAIN path = 1 .. n /\ DOMAIN path' = 1 .. n - 1
  /\ path' \in Seq(Frames)
  /\ \A i \in 1 .. n - 1 : path'[i] = path[i]
  /\ path[n].locked /\ path[n].left = {}

\* What ReportLeave does: the top of the path goes.
LEMMA ReportLeaveEffect ==
  ASSUME TypeInv, ReportLeave
  PROVE  \E n \in Nat \ {0} : Leaves(n)
<1> PICK n : n = Len(path)
  OBVIOUS
<1>1. path \in Seq(Frames) /\ path # <<>>
  BY DEF TypeInv, Frames, ReportLeave
<1>2. n \in Nat \ {0} /\ DOMAIN path = 1 .. n
  BY <1>1, EmptySeq, LenProperties
<1>3. path' = SubSeq(path, 1, n - 1)
  BY DEF ReportLeave, Front
<1>4. \A i \in 1 .. n - 1 : path[i] \in Frames
  BY <1>1, <1>2, ElementOfSeq
<1>5. path' \in Seq(Frames) /\ Len(path') = n - 1
      /\ \A i \in 1 .. n - 1 : path'[i] = path[i]
  BY <1>2, <1>3, <1>4, SubSeqProperties
<1>6. DOMAIN path' = 1 .. n - 1
  BY <1>5, LenProperties
<1>7. path[n].locked /\ path[n].left = {}
  BY DEF ReportLeave, Last
<1> QED
  BY <1>2, <1>5, <1>6, <1>7 DEF Leaves

-----------------------------------------------------------------------------
(* Every step preserves the invariant.                                     *)

\* The types.
LEMMA TypeStep ==
  IInv /\ [Next]_vars => TypeInv'
<1> SUFFICES ASSUME IInv, [Next]_vars PROVE TypeInv'
  OBVIOUS
<1> USE DEF IInv
<1>1. ASSUME NEW c \in Callers, NEW s \in DOMAIN scopes, NEW prefix, NEW tags,
             Start(c, s, prefix, tags)
      PROVE  TypeInv'
  BY <1>1 DEF Start, TypeInv
<1>2. ASSUME NEW c \in Callers, Insert(c) PROVE TypeInv'
  <2>1. calls' = [d \in Callers |-> calls'[d]] /\ UNCHANGED <<path, due, visits>>
    BY <1>2, InsertEffect DEF TypeInv
  <2>2. CASE scopes' = scopes
    BY <2>1, <2>2 DEF TypeInv
  <2>3. CASE Grown(calls[c].scope, calls[c])
    <3>0. /\ Len(scopes) \in Nat
          /\ DOMAIN scopes = 1 .. Len(scopes) /\ DOMAIN scopes' = 1 .. Len(scopes) + 1
          /\ DOMAIN scopes'[Len(scopes) + 1] = {"prefix", "tags", "registry", "depth"}
          /\ \A s \in DOMAIN scopes : DOMAIN scopes'[s] = DOMAIN scopes[s]
          /\ scopes' \in Seq(ToSet(scopes'))
      BY <2>3 DEF Grown
    <3>1. /\ scopes' \in Seq(ToSet(scopes')) /\ DOMAIN scopes \subseteq DOMAIN scopes'
          /\ \A s \in DOMAIN scopes' :
               DOMAIN scopes'[s] = {"prefix", "tags", "registry", "depth"}
      <4>1. ASSUME NEW s \in DOMAIN scopes'
            PROVE  DOMAIN scopes'[s] = {"prefix", "tags", "registry", "depth"}
        <5>1. CASE s \in DOMAIN scopes
          <6>1. DOMAIN scopes[s] = {"prefix", "tags", "registry", "depth"}
            BY <5>1 DEF TypeInv
          <6> QED
            BY <3>0, <5>1, <6>1
        <5>2. CASE s = Len(scopes) + 1
          BY <3>0, <5>2
        <5> QED
          BY <3>0, <5>1, <5>2
      <4> QED
        BY <3>0, <4>1
    <3>2. visits \in Seq(DOMAIN scopes') /\ due \in SUBSET DOMAIN scopes'
      BY <3>1, SeqMonotonic DEF TypeInv
    <3>3. path \in Seq([scope : DOMAIN scopes', locked : BOOLEAN,
                        left : SUBSET DOMAIN scopes'])
      <4>1. [scope : DOMAIN scopes, locked : BOOLEAN, left : SUBSET DOMAIN scopes]
              \subseteq [scope : DOMAIN scopes', locked : BOOLEAN,
                         left : SUBSET DOMAIN scopes']
        BY <3>1
      <4> QED
        BY <4>1, SeqMonotonic DEF TypeInv
    <3> QED
      BY <2>1, <3>1, <3>2, <3>3 DEF TypeInv
  <2> QED
    BY <1>2, <2>2, <2>3, InsertEffect
<1>3. CASE ReportStart
  <2>1. Root \in DOMAIN scopes
    BY DEF TreeInv
  <2>2. path' \in Seq(Frames) /\ visits' \in Seq(DOMAIN scopes)
    BY <1>3, <2>1 DEF ReportStart, Frame, Frames
  <2> QED
    BY <1>3, <2>2 DEF ReportStart, TypeInv, Frames
<1>4. CASE ReportRegistry
  <2>1. path' \in Seq(Frames)
    BY <1>4, ReportRegistryEffect DEF Locks
  <2> QED
    BY <1>4, <2>1 DEF ReportRegistry, TypeInv, Frames
<1>5. ASSUME NEW s \in DOMAIN scopes, ReportChild(s) PROVE TypeInv'
  <2>1. path' \in Seq(Frames)
    BY <1>5, ReportChildEffect DEF Enters
  <2>2. visits' \in Seq(DOMAIN scopes)
    BY <1>5, VisitsAppend DEF ReportChild, Visits
  <2> QED
    BY <1>5, <2>1, <2>2 DEF ReportChild, TypeInv, Frames
<1>6. CASE ReportLeave
  <2>1. path' \in Seq(Frames)
    BY <1>6, ReportLeaveEffect DEF Leaves
  <2> QED
    BY <1>6, <2>1 DEF ReportLeave, TypeInv, Frames
<1>7. CASE UNCHANGED vars
  BY <1>7 DEF vars, TypeInv
<1> QED
  BY <1>1, <1>2, <1>3, <1>4, <1>5, <1>6, <1>7 DEF Next, Ask, SubScope, Tagged, Report

\* The tree: only Insert changes it, and gives the new scope one parent.
LEMMA TreeStep ==
  IInv /\ [Next]_vars => TreeInv'
<1> SUFFICES ASSUME IInv, [Next]_vars PROVE TreeInv'
  OBVIOUS
<1>1. CASE scopes' = scopes
  BY <1>1 DEF IInv, TreeInv, Children
<1>2. ASSUME NEW c \in Callers, Grown(calls[c].scope, calls[c]) PROVE TreeInv'
  <2> PICK p : p = calls[c].scope
    OBVIOUS
  <2> PICK new : new = Len(scopes) + 1
    OBVIOUS
  <2>1. /\ p \in DOMAIN scopes /\ Len(scopes) \in Nat /\ Len(scopes') = new
        /\ DOMAIN scopes = 1 .. new - 1 /\ DOMAIN scopes' = 1 .. new
    BY <1>2 DEF Grown
  <2>2. /\ Children(p)' = Children(p) \cup {new} /\ Children(new)' = {}
        /\ \A s \in DOMAIN scopes \ {p} : Children(s)' = Children(s)
    BY <1>2, GrownChildren
  <2>3. TreeInv
    BY DEF IInv
  <2>4. Root \in DOMAIN scopes' /\ new # Root
    BY <2>1, <2>3 DEF TreeInv, Root
  <2>5. ASSUME NEW q \in DOMAIN scopes' PROVE Children(q)' \subseteq q + 1 .. Len(scopes')
    BY <2>1, <2>2, <2>3 DEF TreeInv
  <2>6. ASSUME NEW s \in DOMAIN scopes' \ {Root}
        PROVE  \E q \in DOMAIN scopes' : s \in Children(q)'
    <3>1. CASE s = new
      BY <2>1, <2>2, <3>1
    <3>2. CASE s \in DOMAIN scopes
      <4>1. PICK q \in DOMAIN scopes : s \in Children(q)
        BY <2>3, <3>2 DEF TreeInv
      <4>2. s \in Children(q)'
        BY <2>2, <4>1
      <4> QED
        BY <2>1, <4>2
    <3> QED
      BY <2>1, <3>1, <3>2
  <2>7. ASSUME NEW q \in DOMAIN scopes', NEW r \in DOMAIN scopes', q # r
        PROVE  Children(q)' \cap Children(r)' = {}
    <3>1. \A s \in DOMAIN scopes : new \notin Children(s)
      BY <2>1, <2>3 DEF TreeInv
    <3>2. ASSUME NEW s \in DOMAIN scopes
          PROVE  \/ Children(s)' = Children(s)
                 \/ s = p /\ Children(s)' = Children(s) \cup {new}
      <4>1. CASE s = p
        BY <2>2, <4>1
      <4>2. CASE s # p
        BY <2>2, <4>2
      <4> QED
        BY <4>1, <4>2
    <3>3. CASE q = new \/ r = new
      BY <2>2, <3>3
    <3>4. CASE q # new /\ r # new
      <4>1. q \in DOMAIN scopes /\ r \in DOMAIN scopes
        BY <2>1, <3>4
      <4>2. Children(q) \cap Children(r) = {}
        BY <2>3, <2>7, <4>1 DEF TreeInv
      <4> QED
        BY <2>7, <3>1, <3>2, <4>1, <4>2
    <3> QED
      BY <3>3, <3>4
  <2> QED
    BY <2>4, <2>5, <2>6, <2>7 DEF TreeInv
<1> QED
  <2>1. ASSUME NEW c \in Callers, Insert(c) PROVE TreeInv'
    BY <1>1, <1>2, <2>1, InsertEffect DEF IInv
  <2> QED
    BY <1>1, <2>1 DEF Next, Ask, SubScope, Tagged, Start, Report, ReportStart,
       ReportRegistry, ReportChild, ReportLeave, vars

\* A Report in progress: no step of it visits a scope twice or skips one that is
\* due, and no Insert touches a registry that it holds.
LEMMA WalkStep ==
  IInv /\ [Next]_vars => WalkInv'
<1> SUFFICES ASSUME IInv, [Next]_vars PROVE WalkInv'
  OBVIOUS
<1> USE DEF IInv
<1>0. /\ path \in Seq(Frames) /\ DOMAIN path = 1 .. Len(path) /\ Len(path) \in Nat
      /\ \A i \in DOMAIN path : path[i] \in Frames
      /\ DOMAIN scopes = 1 .. Len(scopes) /\ Len(scopes) \in Nat
      /\ Visited \subseteq DOMAIN scopes
  <2>1. path \in Seq(Frames) /\ DOMAIN path = 1 .. Len(path) /\ Len(path) \in Nat
    BY LenProperties DEF TypeInv, Frames
  <2>2. \A i \in DOMAIN path : path[i] \in Frames
    BY <2>1, ElementOfSeq
  <2>3. DOMAIN scopes = 1 .. Len(scopes) /\ Len(scopes) \in Nat
    BY LenProperties DEF TypeInv
  <2>4. Visited \subseteq DOMAIN scopes
    BY LenProperties, ElementOfSeq DEF TypeInv, Visited, ToSet
  <2> QED
    BY <2>1, <2>2, <2>3, <2>4
<1>1. CASE UNCHANGED <<scopes, path, due, visits>>
  BY <1>1 DEF WalkInv, Children, Visited
<1>2. ASSUME NEW c \in Callers, Grown(calls[c].scope, calls[c]),
             UNCHANGED <<path, due, visits>>
      PROVE  WalkInv'
  <2> PICK p : p = calls[c].scope
    OBVIOUS
  <2> PICK new : new = Len(scopes) + 1
    OBVIOUS
  <2>1. /\ Children(p)' = Children(p) \cup {new}
        /\ \A s \in DOMAIN scopes \ {p} : Children(s)' = Children(s)
    BY <1>2, GrownChildren
  <2>2. new \notin Visited /\ new \notin due /\ Visited' = Visited
    BY <1>0, <1>2 DEF TypeInv, Visited
  <2>3. ASSUME NEW i \in DOMAIN path, NEW u, u = path[i].scope
        PROVE  /\ u \in Visited
               /\ path[i].locked => /\ path[i].left \subseteq Children(u)' \ Visited
                                   /\ Children(u)' \subseteq Visited \cup path[i].left
               /\ ~path[i].locked => path[i].left = {} /\ Children(u)' \cap Visited = {}
    <3>1. u \in DOMAIN scopes /\ u \in Visited
      BY <1>0, <2>3 DEF Frames, WalkInv
    <3>2. CASE path[i].locked
      <4>1. u # p
        BY <1>2, <2>3, <3>2 DEF Grown, Locked
      <4>2. Children(u)' = Children(u)
        BY <2>1, <3>1, <4>1
      <4> QED
        BY <2>3, <3>1, <3>2, <4>2 DEF WalkInv
    <3>3. CASE ~path[i].locked
      <4>1. path[i].left = {} /\ Children(u) \cap Visited = {}
        BY <2>3, <3>3 DEF WalkInv
      <4>2. Children(u)' \subseteq Children(u) \cup {new}
        BY <2>1, <3>1
      <4> QED
        BY <2>2, <3>1, <3>3, <4>1, <4>2
    <3> QED
      BY <3>2, <3>3
  <2>4. ASSUME NEW s \in Visited
        PROVE  \/ \E i \in DOMAIN path : path[i].scope = s
               \/ Children(s)' \cap due \subseteq Visited
    <3>1. s \in DOMAIN scopes
      BY <1>0
    <3>2. Children(s)' \subseteq Children(s) \cup {new}
      BY <2>1, <3>1
    <3> QED
      BY <2>2, <3>2 DEF WalkInv
  <2> QED
    BY <1>2, <2>2, <2>3, <2>4 DEF WalkInv
<1>3. CASE ReportStart
  <2>1. /\ DOMAIN path' = {1} /\ path'[1].scope = Root /\ ~path'[1].locked
        /\ path'[1].left = {} /\ Visited' = {Root} /\ scopes' = scopes
    BY <1>3 DEF ReportStart, Frame, Visited, ToSet
  <2>2. Children(Root)' = Children(Root) /\ Root \notin Children(Root)
    BY <1>0, <2>1 DEF TreeInv, Children, Root
  <2> QED
    BY <2>1, <2>2 DEF WalkInv
<1>4. ASSUME NEW n \in Nat \ {0}, Locks(n), UNCHANGED <<scopes, due, visits>> PROVE WalkInv'
  <2>1. Visited' = Visited /\ \A s : Children(s)' = Children(s)
    BY <1>4 DEF Visited, Children
  <2>2. /\ DOMAIN path' = DOMAIN path /\ n \in DOMAIN path
        /\ \A i \in DOMAIN path : path'[i].scope = path[i].scope
        /\ \A i \in DOMAIN path \ {n} : path'[i] = path[i]
    BY <1>4 DEF Locks
  <2>3. /\ path'[n].locked /\ path'[n].left = Children(path[n].scope)
        /\ Children(path[n].scope) \cap Visited = {}
    BY <1>4, <2>2 DEF Locks, WalkInv
  <2>4. ASSUME NEW i \in DOMAIN path
        PROVE  /\ path'[i].scope \in Visited
               /\ path'[i].locked =>
                    /\ path'[i].left \subseteq Children(path[i].scope) \ Visited
                    /\ Children(path[i].scope) \subseteq Visited \cup path'[i].left
               /\ ~path'[i].locked =>
                    path'[i].left = {} /\ Children(path[i].scope) \cap Visited = {}
    <3>1. CASE i = n
      BY <2>2, <2>3, <3>1 DEF WalkInv
    <3>2. CASE i # n
      BY <2>2, <3>2 DEF WalkInv
    <3> QED
      BY <3>1, <3>2
  <2> QED
    BY <1>4, <2>1, <2>2, <2>4 DEF WalkInv
<1>5. ASSUME NEW s \in DOMAIN scopes, NEW n \in Nat \ {0}, Enters(n, s), Visits(s),
             UNCHANGED <<scopes, due>>
      PROVE  WalkInv'
  <2> PICK t : t = path[n].scope
    OBVIOUS
  <2>1. /\ n \in DOMAIN path /\ t \in DOMAIN scopes /\ t \in Visited
        /\ DOMAIN path' = DOMAIN path \cup {n + 1} /\ n + 1 \notin DOMAIN path
    BY <1>0, <1>5 DEF Enters, Frames, WalkInv
  <2>2. /\ path[n].locked /\ s \in Children(t) /\ s \notin Visited
        /\ path[n].left \subseteq Children(t) \ Visited
        /\ Children(t) \subseteq Visited \cup path[n].left
    BY <1>5, <2>1 DEF Enters, WalkInv
  <2>3. Visited' = Visited \cup {s} /\ \A q : Children(q)' = Children(q)
    BY <1>5 DEF Visits, Children
  <2>4. Children(s) \cap (Visited \cup {s}) = {}
    <3>1. Children(s) \cap Visited = {}
      BY <2>2 DEF VisitInv
    <3>2. s \notin Children(s)
      BY <1>0 DEF TreeInv
    <3> QED
      BY <3>1, <3>2
  <2>5. \A i \in DOMAIN path : path'[i].scope = path[i].scope /\ path[i].scope \in Visited
    BY <1>0, <1>5, SMTT(30) DEF Enters, WalkInv
  <2>6. path'[n + 1].scope = s /\ ~path'[n + 1].locked /\ path'[n + 1].left = {}
    BY <1>5 DEF Enters
  <2>7. ASSUME NEW i \in DOMAIN path', NEW j \in DOMAIN path',
               path'[i].scope = path'[j].scope
        PROVE  i = j
    BY <2>1, <2>2, <2>5, <2>6, <2>7 DEF WalkInv
  <2>8. ASSUME NEW i \in DOMAIN path'
        PROVE  /\ path'[i].scope \in Visited \cup {s}
               /\ path'[i].locked =>
                    /\ path'[i].left \subseteq Children(path'[i].scope) \ (Visited \cup {s})
                    /\ Children(path'[i].scope) \subseteq (Visited \cup {s}) \cup path'[i].left
               /\ ~path'[i].locked =>
                    /\ path'[i].left = {}
                    /\ Children(path'[i].scope) \cap (Visited \cup {s}) = {}
    <3>1. CASE i = n + 1
      BY <2>4, <2>6, <3>1
    <3>2. CASE i = n
      <4>1. /\ path'[i].scope = t /\ path'[i].locked = path[n].locked
            /\ path'[i].left = path[n].left \ {s}
        BY <1>5, <3>2 DEF Enters
      <4> QED
        BY <2>1, <2>2, <4>1
    <3>3. CASE i \in 1 .. n - 1
      <4> PICK u : u = path[i].scope
        OBVIOUS
      <4>1. path'[i] = path[i] /\ i \in DOMAIN path
        BY <1>5, <3>3 DEF Enters
      <4>2. u # t
        BY <2>1, <3>3, <4>1 DEF WalkInv
      <4>3. u \in DOMAIN scopes
        BY <1>0, <4>1 DEF Frames
      <4>4. s \notin Children(u)
        BY <2>1, <2>2, <4>2, <4>3 DEF TreeInv
      <4> QED
        BY <4>1, <4>4 DEF WalkInv
    <3> QED
      BY <1>5, <3>1, <3>2, <3>3 DEF Enters
  <2>9. ASSUME NEW v \in Visited \cup {s}
        PROVE  \/ \E i \in DOMAIN path' : path'[i].scope = v
               \/ Children(v) \cap due \subseteq Visited \cup {s}
    BY <2>1, <2>5, <2>6 DEF WalkInv
  <2> QED
    BY <1>5, <2>3, <2>7, <2>8, <2>9 DEF WalkInv
<1>6. ASSUME NEW n \in Nat \ {0}, Leaves(n), UNCHANGED <<scopes, due, visits>> PROVE WalkInv'
  <2>1. Visited' = Visited /\ \A s : Children(s)' = Children(s)
    BY <1>6 DEF Visited, Children
  <2>2. /\ DOMAIN path' = DOMAIN path \ {n} /\ n \in DOMAIN path
        /\ \A i \in DOMAIN path' : path'[i] = path[i]
    BY <1>6 DEF Leaves
  <2>3. Children(path[n].scope) \subseteq Visited
    BY <1>6, <2>2 DEF Leaves, WalkInv
  <2>4. ASSUME NEW v \in Visited
        PROVE  \/ \E i \in DOMAIN path' : path'[i].scope = v
               \/ Children(v) \cap due \subseteq Visited
    <3>1. CASE v = path[n].scope
      BY <2>3, <3>1
    <3>2. CASE v # path[n].scope
      BY <2>2, <3>2 DEF WalkInv
    <3> QED
      BY <3>1, <3>2
  <2> QED
    BY <1>6, <2>1, <2>2, <2>4 DEF WalkInv
<1> QED
  <2>1. ASSUME NEW c \in Callers, Insert(c) PROVE WalkInv'
    BY <1>1, <1>2, <2>1, InsertEffect
  <2>2. ASSUME ReportRegistry PROVE WalkInv'
    BY <1>4, <2>2, ReportRegistryEffect DEF ReportRegistry
  <2>3. ASSUME NEW s \in DOMAIN scopes, ReportChild(s) PROVE WalkInv'
    BY <1>5, <2>3, ReportChildEffect, VisitsAppend DEF ReportChild
  <2>4. ASSUME ReportLeave PROVE WalkInv'
    BY <1>6, <2>4, ReportLeaveEffect DEF ReportLeave
  <2> QED
    BY <1>1, <1>3, <2>1, <2>2, <2>3, <2>4 DEF Next, Ask, SubScope, Tagged, Start, Report, vars

\* What has been visited and what is due.
LEMMA VisitStep ==
  IInv /\ [Next]_vars => VisitInv'
<1> SUFFICES ASSUME IInv, [Next]_vars PROVE VisitInv'
  OBVIOUS
<1> USE DEF IInv
<1>0. /\ DOMAIN scopes = 1 .. Len(scopes) /\ Len(scopes) \in Nat
      /\ Visited \subseteq DOMAIN scopes /\ due \subseteq DOMAIN scopes
  <2>1. DOMAIN scopes = 1 .. Len(scopes) /\ Len(scopes) \in Nat
    BY LenProperties DEF TypeInv
  <2>2. Visited \subseteq DOMAIN scopes /\ due \subseteq DOMAIN scopes
    BY LenProperties, ElementOfSeq DEF TypeInv, Visited, ToSet
  <2> QED
    BY <2>1, <2>2
<1>1. CASE UNCHANGED <<scopes, due, visits>>
  BY <1>1 DEF VisitInv, Children, Visited
<1>2. ASSUME NEW c \in Callers, Grown(calls[c].scope, calls[c]), UNCHANGED <<due, visits>>
      PROVE  VisitInv'
  <2> PICK p : p = calls[c].scope
    OBVIOUS
  <2> PICK new : new = Len(scopes) + 1
    OBVIOUS
  <2>1. /\ Children(p)' = Children(p) \cup {new} /\ Children(new)' = {}
        /\ \A s \in DOMAIN scopes \ {p} : Children(s)' = Children(s)
    BY <1>2, GrownChildren
  <2>2. new \notin Visited /\ Visited' = Visited /\ DOMAIN scopes' = DOMAIN scopes \cup {new}
    BY <1>0, <1>2 DEF Visited, Grown
  <2>3. ASSUME NEW q \in DOMAIN scopes', Children(q)' \cap Visited # {} PROVE q \in Visited
    <3>1. q \in DOMAIN scopes
      BY <2>1, <2>2, <2>3
    <3>2. Children(q)' \subseteq Children(q) \cup {new}
      BY <2>1, <3>1
    <3> QED
      BY <2>2, <2>3, <3>1, <3>2 DEF VisitInv
  <2> QED
    BY <1>2, <2>2, <2>3 DEF VisitInv
<1>3. CASE ReportStart
  <2>1. /\ visits' = <<Root>> /\ Visited' = {Root} /\ scopes' = scopes
        /\ due' = DOMAIN scopes /\ \A s : Children(s)' = Children(s)
    BY <1>3 DEF ReportStart, Visited, ToSet, Children
  <2>2. IsInjective(visits')
    BY <2>1 DEF IsInjective
  <2>3. \A p \in DOMAIN scopes : Root \notin Children(p)
    BY <1>0 DEF TreeInv, Root
  <2>4. \A s \in due' : 1 .. s \subseteq due'
    BY <1>0, <2>1
  <2> QED
    BY <2>1, <2>2, <2>3, <2>4 DEF VisitInv
<1>4. ASSUME NEW s \in DOMAIN scopes, NEW n \in Nat \ {0}, Enters(n, s), Visits(s),
             UNCHANGED <<scopes, due>>
      PROVE  VisitInv'
  <2> PICK t : t = path[n].scope
    OBVIOUS
  <2>1. n \in DOMAIN path /\ path[n] \in Frames
    <3>1. path \in Seq(Frames)
      BY DEF TypeInv, Frames
    <3>2. n \in 1 .. Len(path)
      BY <1>4, <3>1, LenProperties DEF Enters
    <3> QED
      BY <3>1, <3>2, LenProperties, ElementOfSeq
  <2>2. t \in DOMAIN scopes /\ t \in Visited /\ s \in Children(t) /\ s \notin Visited
    BY <1>4, <2>1 DEF Enters, WalkInv, Frames
  <2>3. Visited' = Visited \cup {s} /\ \A q : Children(q)' = Children(q)
    BY <1>4 DEF Visits, Children
  <2>4. IsInjective(visits')
    <3>1. /\ Len(visits) \in Nat /\ DOMAIN visits = 1 .. Len(visits)
          /\ DOMAIN visits' = 1 .. Len(visits) + 1
          /\ \A i \in DOMAIN visits : visits'[i] = visits[i]
          /\ visits'[Len(visits) + 1] = s
      BY <1>4 DEF Visits
    <3>2. \A i \in DOMAIN visits : visits[i] # s
      BY <2>2 DEF Visited, ToSet
    <3>3. IsInjective(visits)
      BY DEF VisitInv
    <3> QED
      BY <3>1, <3>2, <3>3 DEF IsInjective
  <2>5. ASSUME NEW p \in DOMAIN scopes, Children(p) \cap (Visited \cup {s}) # {}
        PROVE  p \in Visited \cup {s}
    BY <2>2, <2>5 DEF VisitInv, TreeInv
  <2> QED
    BY <1>4, <2>3, <2>4, <2>5 DEF VisitInv
<1> QED
  <2>1. ASSUME NEW c \in Callers, Insert(c) PROVE VisitInv'
    BY <1>1, <1>2, <2>1, InsertEffect
  <2>2. ASSUME NEW s \in DOMAIN scopes, ReportChild(s) PROVE VisitInv'
    BY <1>4, <2>2, ReportChildEffect, VisitsAppend DEF ReportChild
  <2> QED
    BY <1>1, <1>3, <2>1, <2>2 DEF Next, Ask, SubScope, Tagged, Start, Report,
       ReportRegistry, ReportLeave, vars

\* The registries and what the callers were given.
LEMMA GivenStep ==
  IInv /\ [Next]_vars => GivenInv'
<1> SUFFICES ASSUME IInv, [Next]_vars PROVE GivenInv'
  OBVIOUS
<1> USE DEF IInv
<1>1. ASSUME NEW c \in Callers, NEW s \in DOMAIN scopes, NEW prefix, NEW tags,
             Start(c, s, prefix, tags)
      PROVE  GivenInv'
  <2> PICK merged : merged = MergeTags(scopes[s].tags, tags)
    OBVIOUS
  <2>1. /\ calls' = [calls EXCEPT ![c] =
             [stage |-> "built", scope |-> s, prefix |-> prefix, asked |-> tags,
              tags |-> merged, id |-> ScopeID(prefix, merged)]]
        /\ UNCHANGED <<scopes, given>>
    BY <1>1 DEF Start
  <2>2. /\ calls'[c].scope = s /\ calls'[c].prefix = prefix /\ calls'[c].tags = merged
        /\ calls'[c].id = ScopeID(prefix, merged)
        /\ \A d \in Callers \ {c} : calls'[d] = calls[d]
    BY <2>1 DEF TypeInv
  <2> QED
    BY <2>1, <2>2 DEF GivenInv
<1>2. ASSUME NEW c \in Callers, Insert(c) PROVE GivenInv'
  <2> PICK p : p = calls[c].scope
    OBVIOUS
  <2> PICK call : call = calls[c]
    OBVIOUS
  <2> PICK new : new = Len(scopes) + 1
    OBVIOUS
  <2>1. /\ p \in DOMAIN scopes /\ call.scope = p
        /\ call.id = ScopeID(call.prefix, call.tags)
    BY <1>2, InsertEffect DEF GivenInv
  <2>2. \A d \in Callers : calls'[d] # Idle => calls'[d] = calls[d] /\ calls[d] # Idle
    BY <1>2, InsertEffect DEF TypeInv
  <2>3. CASE /\ scopes' = scopes /\ call.id \in DOMAIN scopes[p].registry
             /\ given' = given \cup {[call |-> call, result |-> scopes[p].registry[call.id]]}
    BY <2>1, <2>2, <2>3 DEF GivenInv
  <2>4. CASE Grown(p, call) /\ given' = given \cup {[call |-> call, result |-> new]}
    <3>1. /\ DOMAIN scopes \subseteq DOMAIN scopes' /\ new \in DOMAIN scopes'
          /\ DOMAIN scopes' = DOMAIN scopes \cup {new} /\ new \notin DOMAIN scopes
      BY <2>4 DEF Grown
    <3>2. /\ DOMAIN scopes'[p].registry = DOMAIN scopes[p].registry \cup {call.id}
          /\ scopes'[p].registry[call.id] = new
          /\ \A id \in DOMAIN scopes[p].registry :
               scopes'[p].registry[id] = scopes[p].registry[id]
      BY <2>4 DEF Grown, Inserted
    <3>3. \A q \in DOMAIN scopes \ {p} : scopes'[q].registry = scopes[q].registry
      BY <2>4 DEF Grown
    <3>4. \A q \in DOMAIN scopes : \A id \in DOMAIN scopes[q].registry :
            /\ id \in DOMAIN scopes'[q].registry
            /\ scopes'[q].registry[id] = scopes[q].registry[id]
      BY <3>2, <3>3
    <3>5. /\ scopes'[new].registry = <<>> /\ scopes'[new].prefix = call.prefix
          /\ scopes'[new].tags = call.tags
          /\ \A q \in DOMAIN scopes : /\ scopes'[q].prefix = scopes[q].prefix
                                      /\ scopes'[q].tags = scopes[q].tags
      BY <2>4 DEF Grown
    <3>6. ASSUME NEW g \in given'
          PROVE  /\ g.call.scope \in DOMAIN scopes'
                 /\ g.call.id = ScopeID(g.call.prefix, g.call.tags)
                 /\ g.call.id \in DOMAIN scopes'[g.call.scope].registry
                 /\ g.result = scopes'[g.call.scope].registry[g.call.id]
      <4>1. CASE g \in given
        BY <3>1, <3>4, <4>1 DEF GivenInv
      <4>2. CASE g = [call |-> call, result |-> new]
        BY <2>1, <3>1, <3>2, <4>2
      <4> QED
        BY <2>4, <4>1, <4>2
    <3>7. ASSUME NEW q \in DOMAIN scopes', NEW id \in DOMAIN scopes'[q].registry, NEW s,
                 s = scopes'[scopes'[q].registry[id]]
          PROVE  id = ScopeID(s.prefix, s.tags)
      <4>1. CASE q = p /\ id = call.id
        BY <2>1, <3>2, <3>5, <3>7, <4>1
      <4>2. CASE q \in DOMAIN scopes /\ id \in DOMAIN scopes[q].registry
        <5> PICK r : r = scopes[q].registry[id]
          OBVIOUS
        <5>1. r \in Children(q)
          BY <4>2 DEF Children, Range
        <5>2. r \in DOMAIN scopes
          <6>1. DOMAIN scopes = 1 .. Len(scopes) /\ Len(scopes) \in Nat
            BY LenProperties DEF TypeInv
          <6> QED
            BY <4>2, <5>1, <6>1 DEF TreeInv
        <5>3. id = ScopeID(scopes[r].prefix, scopes[r].tags)
          BY <4>2 DEF GivenInv
        <5>4. s = scopes'[r]
          BY <3>4, <3>7, <4>2
        <5> QED
          BY <3>5, <5>2, <5>3, <5>4
      <4>3. q # new
        BY <3>5, <3>7
      <4> QED
        BY <3>1, <3>2, <3>3, <4>1, <4>2, <4>3
    <3>8. ASSUME NEW d \in Callers, calls'[d] # Idle
          PROVE  /\ calls'[d].scope \in DOMAIN scopes'
                 /\ calls'[d].id = ScopeID(calls'[d].prefix, calls'[d].tags)
      BY <2>2, <3>1, <3>8 DEF GivenInv
    <3> QED
      BY <3>6, <3>7, <3>8 DEF GivenInv
  <2> QED
    BY <1>2, <2>3, <2>4, InsertEffect
<1>3. CASE UNCHANGED <<scopes, calls, given>>
  BY <1>3 DEF GivenInv
<1> QED
  BY <1>1, <1>2, <1>3 DEF Next, Ask, SubScope, Tagged, Report, ReportStart,
     ReportRegistry, ReportChild, ReportLeave, vars

-----------------------------------------------------------------------------
(* The theorems.                                                           *)

\* IInv is inductive.
THEOREM Invariance ==
  Spec => []IInv
<1>1. Init => IInv
  <2> SUFFICES ASSUME Init PROVE IInv
    OBVIOUS
  <2>1. /\ Len(scopes) = 1 /\ DOMAIN scopes = {Root} /\ Visited = {}
        /\ scopes[Root].registry = <<>> /\ Children(Root) = {}
        /\ DOMAIN scopes[Root] = {"prefix", "tags", "registry", "depth"}
    BY DEF Init, Root, Visited, ToSet, Children, Range
  <2>2. scopes \in Seq(ToSet(scopes))
    <3> DEFINE x == [prefix |-> <<>>, tags |-> RootTags, registry |-> <<>>, depth |-> 0]
    <3>1. scopes = <<x>>
      BY DEF Init
    <3> HIDE DEF x
    <3>2. scopes \in Seq({x}) /\ ToSet(scopes) = {x}
      BY <3>1 DEF ToSet
    <3> QED
      BY <3>2
  <2>3. TypeInv
    BY <2>1, <2>2 DEF TypeInv, Init
  <2>4. TreeInv
    BY <2>1 DEF TreeInv
  <2>5. WalkInv
    BY <2>1 DEF WalkInv, Init
  <2>6. VisitInv
    BY <2>1 DEF VisitInv, Init, IsInjective
  <2>7. GivenInv
    BY <2>1 DEF GivenInv, Init
  <2> QED
    BY <2>3, <2>4, <2>5, <2>6, <2>7 DEF IInv
<1>2. IInv /\ [Next]_vars => IInv'
  BY TypeStep, TreeStep, WalkStep, VisitStep, GivenStep DEF IInv
<1> QED
  BY <1>1, <1>2, PTL DEF Spec

\* Report, started again and again while other threads add scopes: each Report
\* visits every scope that existed when it began, and none twice.
THEOREM EveryScopeIsVisited ==
  Spec => []ReportVisitsAll
<1>1. IInv => ReportVisitsAll
  <2> SUFFICES ASSUME IInv PROVE ReportVisitsAll
    OBVIOUS
  <2>1. IsInjective(visits)
    BY DEF IInv, VisitInv
  <2>2. ASSUME path = <<>> PROVE due \subseteq Visited
    <3> DEFINE T == due \ Visited
    <3>1. DOMAIN scopes = 1 .. Len(scopes) /\ Len(scopes) \in Nat /\ due \subseteq DOMAIN scopes
      BY LenProperties DEF IInv, TypeInv
    <3>2. SUFFICES ASSUME T # {} PROVE FALSE
      OBVIOUS
    <3>3. PICK n \in T : \A m \in T : n <= m
      <4>1. T \subseteq Nat
        BY <3>1
      <4> HIDE DEF T
      <4> QED
        BY <3>2, <4>1, LeastNumber
    <3>4. n \in due /\ n \in DOMAIN scopes /\ n \in Nat
      BY <3>1
    <3>5. Root \in Visited
      BY <3>4 DEF IInv, VisitInv
    <3>6. PICK p \in DOMAIN scopes : n \in Children(p)
      BY <3>4, <3>5 DEF IInv, TreeInv
    <3>7. p < n /\ p \in 1 .. n
      BY <3>1, <3>6 DEF IInv, TreeInv
    <3>8. p \in due
      BY <3>4, <3>7 DEF IInv, VisitInv
    <3>9. p \in Visited
      BY <3>1, <3>3, <3>7, <3>8
    <3>10. Children(p) \cap due \subseteq Visited
      BY <2>2, <3>9 DEF IInv, WalkInv
    <3> QED
      BY <3>4, <3>6, <3>10
  <2> QED
    BY <2>1, <2>2 DEF ReportVisitsAll, Visited
<1> QED
  BY <1>1, Invariance, PTL

\* Two calls of SubScope or Tagged on one scope that ask for one prefix and one set
\* of tags are given one scope, whatever the interleaving of their two parts.
THEOREM OneScopeIsGiven ==
  Spec => []OneScope
<1>1. IInv => OneScope
  BY DEF IInv, GivenInv, OneScope
<1> QED
  BY <1>1, Invariance, PTL

\* The prefixes P and the tags T hold all that the calls can ask for, and IDs are
\* unique among them.
UniqueIDs(P, T) ==
  /\ <<>> \in P /\ Names \subseteq P
  /\ \A p \in P, name \in Names : p \o <<".">> \o name \in P
  /\ RootTags \in T
  /\ \A own \in T, tags \in TagMaps \cup {<<>>} : MergeTags(own, tags) \in T
  /\ DistinctIDs(P, T)

\* What the scopes of the tree and the calls are made of.
Within(P, T) ==
  /\ \A s \in DOMAIN scopes : scopes[s].prefix \in P /\ scopes[s].tags \in T
  /\ \A c \in Callers : calls[c] # Idle => calls[c].prefix \in P /\ calls[c].tags \in T
  /\ \A g \in given : g.call.prefix \in P /\ g.call.tags \in T

\* No step asks for a prefix or for tags outside P and T.
LEMMA WithinStep ==
  ASSUME NEW P, NEW T, UniqueIDs(P, T), IInv, Within(P, T), [Next]_vars
  PROVE  Within(P, T)'
<1>1. ASSUME NEW c \in Callers, NEW s \in DOMAIN scopes, NEW prefix \in P,
             NEW tags \in TagMaps \cup {<<>>}, Start(c, s, prefix, tags)
      PROVE  Within(P, T)'
  <2> PICK merged : merged = MergeTags(scopes[s].tags, tags)
    OBVIOUS
  <2>1. merged \in T
    BY DEF UniqueIDs, Within
  <2>2. /\ calls' = [calls EXCEPT ![c] =
             [stage |-> "built", scope |-> s, prefix |-> prefix, asked |-> tags,
              tags |-> merged, id |-> ScopeID(prefix, merged)]]
        /\ UNCHANGED <<scopes, given>>
    BY <1>1 DEF Start
  <2>3. /\ calls'[c].prefix = prefix /\ calls'[c].tags = merged
        /\ \A d \in Callers \ {c} : calls'[d] = calls[d]
    BY <2>2 DEF IInv, TypeInv
  <2> QED
    BY <2>1, <2>2, <2>3 DEF Within
<1>2. ASSUME NEW c \in Callers, Insert(c) PROVE Within(P, T)'
  <2> PICK call : call = calls[c]
    OBVIOUS
  <2>1. call.prefix \in P /\ call.tags \in T
    BY <1>2, InsertEffect DEF IInv, Within
  <2>2. \A d \in Callers : calls'[d] # Idle => calls'[d] = calls[d] /\ calls[d] # Idle
    BY <1>2, InsertEffect DEF IInv, TypeInv
  <2>3. ASSUME NEW g \in given' PROVE g.call.prefix \in P /\ g.call.tags \in T
    <3>1. g \in given \/ g.call = call
      BY <1>2, <2>3, InsertEffect DEF IInv
    <3> QED
      BY <2>1, <3>1 DEF Within
  <2>4. ASSUME NEW s \in DOMAIN scopes' PROVE scopes'[s].prefix \in P /\ scopes'[s].tags \in T
    <3>1. CASE scopes' = scopes
      BY <2>4, <3>1 DEF Within
    <3>2. CASE Grown(call.scope, call)
      BY <2>1, <2>4, <3>2 DEF Within, Grown
    <3> QED
      BY <1>2, <3>1, <3>2, InsertEffect DEF IInv
  <2> QED
    BY <2>2, <2>3, <2>4 DEF Within
<1>3. CASE UNCHANGED <<scopes, calls, given>>
  BY <1>3 DEF Within
<1>4. ASSUME NEW c \in Callers, NEW s \in DOMAIN scopes, NEW name \in Names,
             SubScope(c, s, name)
      PROVE  Within(P, T)'
  <2> PICK prefix : prefix = FullyQualifiedName(s, name)
    OBVIOUS
  <2>1. prefix \in P
    BY DEF Within, UniqueIDs, FullyQualifiedName
  <2>2. Start(c, s, prefix, <<>>)
    BY <1>4 DEF SubScope
  <2> QED
    BY <1>1, <2>1, <2>2
<1>5. ASSUME NEW c \in Callers, NEW s \in DOMAIN scopes, NEW tags \in TagMaps,
             Tagged(c, s, tags)
      PROVE  Within(P, T)'
  <2> PICK prefix : prefix = scopes[s].prefix
    OBVIOUS
  <2>1. prefix \in P
    BY DEF Within
  <2>2. Start(c, s, prefix, tags)
    BY <1>5 DEF Tagged
  <2> QED
    BY <1>1, <2>1, <2>2
<1>6. Report => UNCHANGED <<scopes, calls, given>>
  BY DEF Report, ReportStart, ReportRegistry, ReportChild, ReportLeave
<1> QED
  BY <1>2, <1>3, <1>4, <1>5, <1>6 DEF Next, Ask, vars

\* Where IDs are unique, the scope given is also one with the prefix and the tags
\* that were asked for.
THEOREM SameScopeIsGiven ==
  ASSUME NEW P, NEW T, UniqueIDs(P, T)
  PROVE  Spec => []SameScope
<1>1. Init => Within(P, T)
  BY DEF Init, Within, UniqueIDs
<1>2. IInv /\ Within(P, T) /\ [Next]_vars => Within(P, T)'
  BY WithinStep
<1>3. IInv /\ Within(P, T) => SameScope
  <2> SUFFICES ASSUME IInv, Within(P, T) PROVE SameScope
    OBVIOUS
  <2>1. ASSUME NEW g \in given
        PROVE  scopes[g.result].prefix = g.call.prefix /\ scopes[g.result].tags = g.call.tags
    <3> PICK p : p = g.call.scope
      OBVIOUS
    <3> PICK r : r = g.result
      OBVIOUS
    <3>1. /\ p \in DOMAIN scopes /\ g.call.id \in DOMAIN scopes[p].registry
          /\ r = scopes[p].registry[g.call.id]
          /\ g.call.id = ScopeID(g.call.prefix, g.call.tags)
      BY DEF IInv, GivenInv
    <3>2. g.call.id = ScopeID(scopes[r].prefix, scopes[r].tags)
      BY <3>1 DEF IInv, GivenInv
    <3>3. r \in DOMAIN scopes
      <4>1. DOMAIN scopes = 1 .. Len(scopes) /\ Len(scopes) \in Nat
        BY LenProperties DEF IInv, TypeInv
      <4>2. r \in Children(p)
        BY <3>1 DEF Children, Range
      <4> QED
        BY <3>1, <4>1, <4>2 DEF IInv, TreeInv
    <3>4. /\ scopes[r].prefix \in P /\ scopes[r].tags \in T
          /\ g.call.prefix \in P /\ g.call.tags \in T
      BY <3>3 DEF Within
    <3>5. \A a, b \in P, t, u \in T : ScopeID(a, t) = ScopeID(b, u) => a = b /\ t = u
      BY Zenon DEF UniqueIDs, DistinctIDs
    <3>6. ScopeID(scopes[r].prefix, scopes[r].tags) = ScopeID(g.call.prefix, g.call.tags)
      BY <3>1, <3>2, Zenon
    <3>7. scopes[r].prefix = g.call.prefix /\ scopes[r].tags = g.call.tags
      BY <3>4, <3>5, <3>6
    <3> QED
      BY <3>7
  <2> QED
    BY <2>1 DEF SameScope, OneScope, RightScope, IInv, GivenInv
<1> QED
  BY <1>1, <1>2, <1>3, Invariance, PTL DEF Spec
=============================================================================
