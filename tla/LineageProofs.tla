---------------------------- MODULE LineageProofs ----------------------------
(***************************************************************************)
(* Proofs about module Lineage, for any requests, sessions and imports and *)
(* any number of cells and markers: the store stays consistent, a          *)
(* compaction redirects links to the current versions, and what is         *)
(* remembered of a session or an import is all of it.                      *)
(***************************************************************************)
EXTENDS Lineage, SharedProofs, TLAPS

-----------------------------------------------------------------------------
(* The inductive invariant.                                                *)

\* A dictionary: its maps are the inverse of each other, and its ids were
\* given in order.
DictOk(d) ==
    /\ DOMAIN d = {"toId", "toName", "next"}
    /\ d.next \in 1 .. MaxMarker
    /\ DOMAIN d.toId \subseteq MarkerName /\ DOMAIN d.toName \subseteq 1 .. d.next - 1
    /\ \A n \in DOMAIN d.toId : d.toId[n] \in DOMAIN d.toName /\ d.toName[d.toId[n]] = n
    /\ \A i \in DOMAIN d.toName : d.toName[i] \in DOMAIN d.toId /\ d.toId[d.toName[i]] = i

\* A cell whose markers the dictionary has, and that names its own scope.
CellOk(c, d) ==
    /\ DOMAIN c = {"scope", "status", "links", "marks"} /\ c = [k \in DOMAIN c |-> c[k]]
    /\ c.scope \in Scope /\ c.marks \subseteq DOMAIN d.toName
    /\ {d.toName[i] : i \in c.marks} \ {Supersedes} = {c.scope}

IInv ==
    /\ next \in 1 .. MaxId + 1 /\ Known \subseteq 1 .. next - 1
    /\ DictOk(dict) /\ SupersessionsOk
    /\ \A c \in Known : CellOk(cells[c], dict)

LEMMA InitIInv == Init => IInv
<1> SUFFICES ASSUME Init PROVE IInv
  OBVIOUS
<1>1. Known = {} /\ DOMAIN over = {} /\ DOMAIN by = {} /\ next = 1
  BY DEF Init, Known
<1>2. DictOk(dict)
  BY BoundAssumption DEF Init, EmptyDict, DictOk
<1> QED
  BY <1>1, <1>2, BoundAssumption DEF IInv, SupersessionsOk

-----------------------------------------------------------------------------
(* The dictionary.                                                         *)

\* What `d` knows, `e` knows too.
Extends(d, e) ==
    /\ \A n \in DOMAIN d.toId : n \in DOMAIN e.toId /\ e.toId[n] = d.toId[n]
    /\ \A i \in DOMAIN d.toName : i \in DOMAIN e.toName /\ e.toName[i] = d.toName[i]

\* An insertion gives the marker an id, if one is left, and changes no other.
LEMMA InsertedMarker ==
    ASSUME NEW d, DictOk(d), NEW name \in MarkerName, NEW e, e = GetOrInsert(d, name)
    PROVE  DictOk(e) /\ Extends(d, e)
<1>1. d.next \in Int
  BY BoundAssumption DEF DictOk
<1>2. CASE name \in DOMAIN d.toId \/ d.next + 1 > MaxMarker
  <2>1. e = d
    BY <1>2 DEF GetOrInsert
  <2>2. Extends(d, d)
    BY DEF Extends
  <2> QED
    BY <1>2, <2>1, <2>2
<1>3. CASE name \notin DOMAIN d.toId /\ ~(d.next + 1 > MaxMarker)
  <2>1. e = [d EXCEPT !.toId = With(d.toId, name, d.next), !.toName = With(d.toName, d.next, name),
                      !.next = d.next + 1]
    BY <1>3 DEF GetOrInsert
  <2>2. /\ DOMAIN e = {"toId", "toName", "next"}
        /\ e.toId = With(d.toId, name, d.next) /\ e.toName = With(d.toName, d.next, name)
        /\ e.next = d.next + 1
    <3>1. DOMAIN d = {"toId", "toName", "next"}
      BY DEF DictOk
    <3> QED
      BY <2>1, <3>1
  <2>3. d.next \notin DOMAIN d.toName /\ e.next \in 1 .. MaxMarker
    BY <1>1, <1>3, <2>2, BoundAssumption DEF DictOk
  <2>4. /\ DOMAIN e.toId = DOMAIN d.toId \cup {name} /\ e.toId[name] = d.next
        /\ \A n \in DOMAIN d.toId : e.toId[n] = d.toId[n]
    BY <1>3, <2>2 DEF With
  <2>5. /\ DOMAIN e.toName = DOMAIN d.toName \cup {d.next} /\ e.toName[d.next] = name
        /\ \A i \in DOMAIN d.toName : e.toName[i] = d.toName[i]
    BY <2>2, <2>3 DEF With
  <2>6. Extends(d, e)
    BY <2>4, <2>5 DEF Extends
  <2>7. DOMAIN e.toName \subseteq 1 .. e.next - 1
    BY <1>1, <2>2, <2>5 DEF DictOk
  <2>8. \A n \in DOMAIN e.toId : e.toId[n] \in DOMAIN e.toName /\ e.toName[e.toId[n]] = n
    BY <2>4, <2>5 DEF DictOk
  <2>9. \A i \in DOMAIN e.toName : e.toName[i] \in DOMAIN e.toId /\ e.toId[e.toName[i]] = i
    BY <2>4, <2>5 DEF DictOk
  <2>10. DOMAIN e.toId \subseteq MarkerName
    BY <2>4 DEF DictOk
  <2>11. DictOk(e)
    BY <2>2, <2>3, <2>7, <2>8, <2>9, <2>10 DEF DictOk
  <2> QED
    BY <2>4, <2>6, <2>11
<1> QED
  BY <1>2, <1>3

\* The markers of a request: whether they all fit or not, the dictionary is
\* as good as before.
LEMMA MarkersOfRequest ==
    ASSUME DictOk(dict), NEW request \in Request, NEW d, d = WithMarkers(request)
    PROVE  DictOk(d) /\ Extends(dict, d)
<1> DEFINE first == GetOrInsert(dict, request.scope)
<1>1. request.scope \in MarkerName /\ Supersedes \in MarkerName
  BY DEF MarkerName, Request
<1>2. DictOk(first) /\ Extends(dict, first)
  BY <1>1, InsertedMarker
<1> HIDE DEF first
<1>3. CASE Supersedes \notin request.explicit
  BY <1>2, <1>3 DEF WithMarkers, first
<1>4. CASE Supersedes \in request.explicit
  <2>1. d = GetOrInsert(first, Supersedes)
    BY <1>4 DEF WithMarkers, first
  <2>2. DictOk(d) /\ Extends(first, d)
    BY <1>1, <1>2, <2>1, InsertedMarker
  <2> QED
    BY <1>2, <2>2 DEF Extends
<1> QED
  BY <1>3, <1>4

\* Cells stay what they are when the dictionary grows.
LEMMA CellsKeep ==
    ASSUME NEW c, NEW d, NEW e, CellOk(c, d), Extends(d, e)
    PROVE  CellOk(c, e)
<1>1. c.marks \subseteq DOMAIN e.toName /\ \A i \in c.marks : e.toName[i] = d.toName[i]
  BY DEF CellOk, Extends
<1>2. {e.toName[i] : i \in c.marks} = {d.toName[i] : i \in c.marks}
  BY <1>1
<1> QED
  BY <1>1, <1>2 DEF CellOk

-----------------------------------------------------------------------------
(* Calls that remember.                                                    *)

\* A request, and what the dictionary becomes for it.
Served(request, d) ==
    /\ request \in Request /\ DictOk(d) /\ Extends(dict, d)

\* A new cell names its scope.
LEMMA NewCellOk ==
    ASSUME NEW request, NEW d, Served(request, d), ~Overflow(request, d)
    PROVE  CellOk(NewCell(request, d), d)
<1> DEFINE c == NewCell(request, d)
<1>1. /\ DOMAIN c = {"scope", "status", "links", "marks"} /\ c = [k \in DOMAIN c |-> c[k]]
      /\ c.scope = request.scope /\ c.marks = {d.toId[n] : n \in NamesOf(request)}
  BY DEF NewCell
<1>2. \A n \in NamesOf(request) : d.toId[n] \in DOMAIN d.toName /\ d.toName[d.toId[n]] = n
  BY DEF Overflow, Served, DictOk
<1>3. {d.toName[i] : i \in c.marks} = NamesOf(request)
  BY <1>1, <1>2
<1>4. NamesOf(request) \ {Supersedes} = {request.scope}
  BY ScopeAssumption DEF NamesOf, Served, Request, Supersedes
<1>5. request.scope \in Scope
  BY DEF Served, Request
<1> HIDE DEF c
<1>6. CellOk(c, d)
  BY <1>1, <1>2, <1>3, <1>4, <1>5 DEF CellOk
<1> QED
  BY <1>6 DEF c

\* What remember, n times, does to the cells and the dictionary.
LEMMA InsertKeeps ==
    ASSUME IInv, NEW request, NEW d, Served(request, d), ~Overflow(request, d),
           NEW n \in Nat, Insert(request, d, n)
    PROVE  /\ next' \in 1 .. MaxId + 1 /\ Known' = Known \cup next .. next + n - 1
           /\ Known' \subseteq 1 .. next' - 1
           /\ \A c \in Known : c < next /\ cells'[c] = cells[c]
           /\ \A c \in next .. next + n - 1 : cells'[c] = NewCell(request, d)
           /\ DictOk(dict') /\ \A c \in Known' : CellOk(cells'[c], dict')
<1>1. next \in Int /\ next >= 1 /\ MaxId \in Nat /\ next + n - 1 <= MaxId /\ next' = next + n
      /\ dict' = d /\ Known \subseteq 1 .. next - 1
  BY BoundAssumption DEF IInv, Insert
<1>2. Known' = Known \cup next .. next + n - 1
  BY DEF Insert, Known
<1>3. \A c \in Known : c < next /\ cells'[c] = cells[c]
  BY <1>1 DEF Insert
<1>4. \A c \in next .. next + n - 1 : cells'[c] = NewCell(request, d)
  BY <1>1 DEF Insert
<1>5. \A c \in Known' : CellOk(cells'[c], dict')
  <2> TAKE c \in Known'
  <2>1. CASE c \in Known
    BY <1>1, <1>3, <2>1, CellsKeep DEF IInv, Served
  <2>2. CASE c \in next .. next + n - 1
    BY <1>1, <1>4, <2>2, NewCellOk
  <2> QED
    BY <1>2, <2>1, <2>2
<1>6. next' \in 1 .. MaxId + 1 /\ Known' \subseteq 1 .. next' - 1 /\ DictOk(dict')
  BY <1>1, <1>2 DEF Served
<1> QED
  BY <1>2, <1>3, <1>4, <1>5, <1>6

\* A call of which supersessions take no notice.
LEMMA SameSupersessions ==
    ASSUME IInv, Known \subseteq Known', \A c \in Known : cells'[c] = cells[c],
           UNCHANGED <<over, by>>
    PROVE  SupersessionsOk'
BY DEF IInv, SupersessionsOk

LEMMA InsertStep ==
    ASSUME IInv, NEW request, NEW d, Served(request, d), ~Overflow(request, d),
           NEW n \in Nat, Insert(request, d, n), UNCHANGED <<over, by>>
    PROVE  IInv'
BY InsertKeeps, SameSupersessions DEF IInv

LEMMA OverflowStep ==
    ASSUME IInv, NEW request, NEW d, Served(request, d), Overflows(d), UNCHANGED <<over, by>>
    PROVE  IInv'
<1>1. UNCHANGED <<cells, next>> /\ Known' = Known /\ (dict' = dict \/ dict' = d)
  BY DEF Overflows, Known
<1>2. DictOk(dict') /\ Extends(dict, dict')
  BY <1>1 DEF IInv, Served, Extends
<1>3. \A c \in Known' : CellOk(cells'[c], dict')
  BY <1>1, <1>2, CellsKeep DEF IInv
<1> QED
  BY <1>1, <1>2, <1>3, SameSupersessions DEF IInv

\* The requests of all the calls are the model's.
LEMMA RequestServed ==
    ASSUME IInv, NEW request \in Request, NEW d, d = WithMarkers(request)
    PROVE  Served(request, d)
BY MarkersOfRequest DEF IInv, Served

LEMMA RememberStep ==
    ASSUME IInv, NEW r \in Requests, Remember(r)
    PROVE  IInv'
<1> DEFINE d == WithMarkers(r)
<1>1. Served(r, d)
  BY RequestServed, RequestsAssumption
<1>2. /\ IF Overflow(r, d) THEN Overflows(d) ELSE Insert(r, d, 1)
      /\ UNCHANGED <<over, by>>
  BY DEF Remember
<1> HIDE DEF d
<1> QED
  BY <1>1, <1>2, InsertStep, OverflowStep

LEMMA RememberSessionStep ==
    ASSUME IInv, NEW s \in Sessions, RememberSession(s)
    PROVE  IInv'
<1> DEFINE d == WithMarkers(s.request)
<1>1. Served(s.request, d)
  BY RequestServed, RequestsAssumption
<1>2. PICK kept \in 0 .. Len(ChunksOf[s]) :
          IF Overflow(s.request, d) THEN kept = 0 /\ Overflows(d)
          ELSE Insert(s.request, d, kept)
  BY DEF RememberSession
<1>3. kept \in Nat /\ UNCHANGED <<over, by>>
  BY DEF RememberSession
<1> HIDE DEF d
<1> QED
  BY <1>1, <1>2, <1>3, InsertStep, OverflowStep

LEMMA ImportMarkdownStep ==
    ASSUME IInv, NEW i \in Imports, ImportMarkdown(i)
    PROVE  IInv'
<1> DEFINE d == WithMarkers(i.request)
           texts == SectionsOf[i]
<1>1. Served(i.request, d)
  BY RequestServed, RequestsAssumption
<1>2. PICK kept \in 0 .. Len(texts) :
          CASE texts = <<>> -> UNCHANGED <<cells, next, dict>>
            [] texts # <<>> /\ Overflow(i.request, d)  -> kept = 0 /\ Overflows(d)
            [] texts # <<>> /\ ~Overflow(i.request, d) -> Insert(i.request, d, kept)
  BY DEF ImportMarkdown
<1>3. kept \in Nat /\ UNCHANGED <<over, by>>
  BY DEF ImportMarkdown
<1> HIDE DEF d, texts
<1>4. CASE texts = <<>>
  <2>1. UNCHANGED <<cells, next, dict, over, by>> /\ Known' = Known
    BY <1>2, <1>3, <1>4 DEF Known
  <2> QED
    BY <2>1, SameSupersessions DEF IInv
<1>5. CASE texts # <<>>
  BY <1>1, <1>2, <1>3, <1>5, InsertStep, OverflowStep
<1> QED
  BY <1>4, <1>5

-----------------------------------------------------------------------------
(* supersede, set_status_override, compact.                                *)

\* A request with other links and other markers.
LEMMA OtherLinks ==
    ASSUME NEW A, NEW B, NEW C, NEW D,
           NEW q \in [scope : A, status : B, links : C, explicit : D], NEW x \in C, NEW y \in D
    PROVE  /\ [q EXCEPT !.links = x, !.explicit = y]
                  \in [scope : A, status : B, links : C, explicit : D]
           /\ [q EXCEPT !.links = x, !.explicit = y].links = x
OBVIOUS

LEMMA SupersedeStep ==
    ASSUME IInv, NEW old \in Known, NEW request \in Requests, Supersede(old, request)
    PROVE  IInv'
<1> DEFINE r == [request EXCEPT !.links = @ \cup {old}, !.explicit = @ \cup {Supersedes}]
           d == WithMarkers(r)
<1>1. request \in Request /\ old \in Nat
  BY RequestsAssumption DEF IInv
<1>2. r \in Request /\ old \in r.links
  <2>1. request.links \cup {old} \in SUBSET Nat
        /\ request.explicit \cup {Supersedes} \in SUBSET {Supersedes}
    BY <1>1 DEF Request
  <2> QED
    BY <1>1, <2>1, OtherLinks DEF Request
<1>3. Served(r, d)
  BY <1>2, RequestServed
<1>4. /\ old \notin DOMAIN by /\ ~Overflow(r, d) /\ Insert(r, d, 1)
      /\ over' = With(over, old, "superseded") /\ by' = With(by, old, next)
  BY DEF Supersede, MaySupersede
<1> HIDE DEF r, d
<1>5. /\ next' \in 1 .. MaxId + 1 /\ Known' = Known \cup next .. next
      /\ Known' \subseteq 1 .. next' - 1
      /\ \A c \in Known : c < next /\ cells'[c] = cells[c]
      /\ \A c \in next .. next : cells'[c] = NewCell(r, d)
      /\ DictOk(dict') /\ \A c \in Known' : CellOk(cells'[c], dict')
  <2>1. next + 1 - 1 = next
    BY DEF IInv
  <2>2. /\ next' \in 1 .. MaxId + 1 /\ Known' = Known \cup next .. next + 1 - 1
        /\ Known' \subseteq 1 .. next' - 1
        /\ \A c \in Known : c < next /\ cells'[c] = cells[c]
        /\ \A c \in next .. next + 1 - 1 : cells'[c] = NewCell(r, d)
        /\ DictOk(dict') /\ \A c \in Known' : CellOk(cells'[c], dict')
    BY <1>3, <1>4, InsertKeeps
  <2> QED
    BY <2>1, <2>2
<1>6. next \in Known' /\ old < next /\ old \in cells'[next].links
  <2>1. next \in next .. next
    BY DEF IInv
  <2>2. cells'[next] = NewCell(r, d) /\ next \in Known' /\ old < next
    BY <1>5, <2>1
  <2>3. NewCell(r, d).links = r.links
    BY DEF NewCell
  <2> QED
    BY <1>2, <2>2, <2>3
<1>7. /\ DOMAIN over' = DOMAIN over \cup {old} /\ over'[old] = "superseded"
      /\ \A c \in DOMAIN over \ {old} : over'[c] = over[c]
      /\ DOMAIN by' = DOMAIN by \cup {old} /\ by'[old] = next
      /\ \A c \in DOMAIN by \ {old} : by'[c] = by[c]
  BY <1>4 DEF With
<1>8. SupersessionsOk'
  <2>1. DOMAIN over' \subseteq Known'
    BY <1>5, <1>7 DEF IInv, SupersessionsOk
  <2>2. ASSUME NEW c \in DOMAIN by', c # old
        PROVE  /\ c < by'[c] /\ {c, by'[c]} \subseteq Known'
               /\ c \in DOMAIN over' /\ over'[c] = "superseded"
               /\ c \in cells'[by'[c]].links
    <3>1. c \in DOMAIN by /\ by'[c] = by[c] /\ over'[c] = over[c]
      BY <1>7, <2>2 DEF IInv, SupersessionsOk
    <3>2. /\ c < by[c] /\ {c, by[c]} \subseteq Known
          /\ c \in DOMAIN over /\ over[c] = "superseded" /\ c \in cells[by[c]].links
      BY <3>1 DEF IInv, SupersessionsOk
    <3>3. cells'[by[c]] = cells[by[c]] /\ Known \subseteq Known'
      BY <1>5, <3>2
    <3> QED
      BY <1>7, <3>1, <3>2, <3>3
  <2>3. /\ old < by'[old] /\ {old, by'[old]} \subseteq Known'
        /\ old \in DOMAIN over' /\ over'[old] = "superseded"
        /\ old \in cells'[by'[old]].links
    BY <1>5, <1>6, <1>7
  <2> QED
    BY <2>1, <2>2, <2>3 DEF SupersessionsOk
<1> QED
  BY <1>5, <1>8 DEF IInv

LEMMA SetStatusStep ==
    ASSUME IInv, NEW c \in Known, NEW status \in Overrides, SetStatus(c, status)
    PROVE  IInv'
<1>1. /\ UNCHANGED <<cells, next, by, dict>> /\ Known' = Known
      /\ c \in DOMAIN by => status = "superseded"
      /\ over' = IF status = "active" THEN [x \in DOMAIN over \ {c} |-> over[x]]
                 ELSE With(over, c, status)
  BY DEF SetStatus, Known
<1>2. /\ DOMAIN over' \subseteq DOMAIN over \cup {c}
      /\ \A x \in DOMAIN over \ {c} : x \in DOMAIN over' /\ over'[x] = over[x]
      /\ status = "superseded" => c \in DOMAIN over' /\ over'[c] = "superseded"
  BY <1>1 DEF With
<1>3. SupersessionsOk'
  BY <1>1, <1>2 DEF IInv, SupersessionsOk
<1> QED
  BY <1>1, <1>3 DEF IInv

\* What compaction prunes.
PrunedBy(cutoff) == {c \in Known : Prunable(c, cutoff)}

\* No cell with a successor survives a compaction.
LEMMA ReplacedIsPruned ==
    ASSUME IInv, NEW cutoff, NEW old \in DOMAIN by
    PROVE  old \in PrunedBy(cutoff)
BY DEF IInv, SupersessionsOk, PrunedBy, Prunable, Effective

LEMMA CompactStep ==
    ASSUME IInv, NEW cutoff \in 0 .. MaxId, Compact(cutoff)
    PROVE  IInv'
<1> DEFINE pruned == PrunedBy(cutoff)
           retained == UNION {cells'[c].marks : c \in Known \ pruned}
<1>1. /\ cells' = KeptCells(pruned) /\ UNCHANGED next
      /\ over' = [c \in DOMAIN over \ pruned |-> over[c]]
      /\ by' = [old \in {o \in DOMAIN by : {o, by[o]} \cap pruned = {}} |-> by[old]]
      /\ dict' = RetainMarkers(retained)
  BY DEF Compact, PrunedBy
<1>2. pruned \subseteq Known
  BY DEF PrunedBy
<1> HIDE DEF pruned
<1>3. /\ Known' = Known \ pruned
      /\ \A c \in Known \ pruned :
             cells'[c] = [cells[c] EXCEPT !.links = RewrittenLinks(c, pruned)]
  BY <1>1 DEF KeptCells, Known
<1>4. ASSUME NEW c \in Known \ pruned
      PROVE  /\ DOMAIN cells'[c] = {"scope", "status", "links", "marks"}
             /\ cells'[c] = [k \in DOMAIN cells'[c] |-> cells'[c][k]]
             /\ cells'[c].scope = cells[c].scope /\ cells'[c].marks = cells[c].marks
  BY <1>3, <1>4 DEF IInv, CellOk
<1>5. SupersessionsOk'
  <2>1. DOMAIN by' = {}
    BY <1>1, ReplacedIsPruned DEF pruned
  <2>2. DOMAIN over' \subseteq Known'
    BY <1>1, <1>3 DEF IInv, SupersessionsOk
  <2> QED
    BY <2>1, <2>2 DEF SupersessionsOk
<1> HIDE DEF retained
<1>6. /\ DOMAIN dict' = {"toId", "toName", "next"} /\ dict'.next = dict.next
      /\ dict'.toName = [i \in DOMAIN dict.toName \cap retained |-> dict.toName[i]]
      /\ dict'.toId = [n \in {m \in DOMAIN dict.toId : dict.toId[m] \in retained} |-> dict.toId[n]]
  <2>1. DOMAIN dict = {"toId", "toName", "next"}
    BY DEF IInv, DictOk
  <2>2. dict' = [dict EXCEPT
                    !.toName = [i \in DOMAIN dict.toName \cap retained |-> dict.toName[i]],
                    !.toId = [n \in {m \in DOMAIN dict.toId : dict.toId[m] \in retained} |->
                                 dict.toId[n]]]
    BY <1>1 DEF RetainMarkers
  <2> QED
    BY <2>1, <2>2
<1>7. DictOk(dict')
  BY <1>6 DEF IInv, DictOk
<1>8. ASSUME NEW c \in Known \ pruned PROVE CellOk(cells'[c], dict')
  <2>1. CellOk(cells[c], dict) /\ cells[c].marks \subseteq retained
    BY <1>4, <1>8 DEF IInv, retained
  <2>2. /\ cells[c].marks \subseteq DOMAIN dict'.toName
        /\ \A i \in cells[c].marks : dict'.toName[i] = dict.toName[i]
    BY <1>6, <2>1 DEF CellOk
  <2>3. {dict'.toName[i] : i \in cells[c].marks} = {dict.toName[i] : i \in cells[c].marks}
    BY <2>2
  <2> QED
    BY <1>4, <1>8, <2>1, <2>2, <2>3 DEF CellOk
<1> QED
  BY <1>1, <1>3, <1>5, <1>7, <1>8 DEF IInv

-----------------------------------------------------------------------------
(* The theorems.                                                           *)

LEMMA NextKeeps == IInv /\ [Next]_vars => IInv'
<1> SUFFICES ASSUME IInv, [Next]_vars PROVE IInv'
  OBVIOUS
<1>1. CASE \E r \in Requests : Remember(r)
  BY <1>1, RememberStep
<1>2. CASE \E s \in Sessions : RememberSession(s)
  BY <1>2, RememberSessionStep
<1>3. CASE \E i \in Imports : ImportMarkdown(i)
  BY <1>3, ImportMarkdownStep
<1>4. CASE \E old \in Known, r \in Requests : Supersede(old, r)
  BY <1>4, SupersedeStep
<1>5. CASE \E c \in Known, status \in Overrides : SetStatus(c, status)
  BY <1>5, SetStatusStep
<1>6. CASE \E cutoff \in 0 .. MaxId : Compact(cutoff)
  BY <1>6, CompactStep
<1>7. CASE UNCHANGED vars
  <2>1. UNCHANGED <<cells, next, over, by, dict>> /\ Known' = Known
    BY <1>7 DEF vars, Known
  <2> QED
    BY <2>1, SameSupersessions DEF IInv
<1> QED
  BY <1>1, <1>2, <1>3, <1>4, <1>5, <1>6, <1>7 DEF Next

\* The inductive invariant holds after any sequence of calls.
THEOREM Invariance == Spec => []IInv
<1>1. IInv /\ [Next]_vars => IInv'
  BY NextKeeps
<1> QED
  BY <1>1, InitIInv, PTL DEF Spec

\* Whatever the calls were, failed ones and compactions included, the store
\* stays consistent: validate finds nothing wrong but links a caller gave.
THEOREM StaysConsistent == Spec => []StoreConsistent
<1>1. IInv => StoreConsistent
  <2> SUFFICES ASSUME IInv PROVE StoreConsistent
    OBVIOUS
  <2>1. /\ dict.next \in 1 .. MaxMarker /\ DOMAIN dict.toName \subseteq 1 .. dict.next - 1
        /\ DOMAIN dict.toId \subseteq MarkerName
    BY DEF IInv, DictOk
  <2>2. \A i \in DOMAIN dict.toName :
            i \in Int /\ 0 < i /\ i < dict.next /\ i \in 1 .. MaxMarker - 1
    BY <2>1, BoundAssumption
  <2>3. DictionaryOk
    BY <2>2 DEF IInv, DictOk, DictionaryOk
  <2>4. MarkersKnown
    BY DEF IInv, CellOk, MarkersKnown
  <2>5. DOMAIN over \subseteq Id /\ DOMAIN by \subseteq Id
    <3>1. next \in 1 .. MaxId + 1 /\ Known \subseteq 1 .. next - 1
      BY DEF IInv
    <3>2. Known \subseteq Id
      BY <3>1, BoundAssumption DEF Id
    <3> QED
      BY <3>2 DEF IInv, SupersessionsOk
  <2>6. \A c \in Known : cells[c].scope \in Scope /\ cells[c].marks \subseteq 1 .. MaxMarker - 1
    BY <2>2 DEF IInv, CellOk
  <2>7. TypeOK
    BY <2>1, <2>5, <2>6 DEF IInv, TypeOK
  <2> QED
    BY <2>3, <2>4, <2>7 DEF IInv, CellOk, StoreConsistent
<1> QED
  BY <1>1, Invariance, PTL

-----------------------------------------------------------------------------
(* Links after a compaction.                                               *)

\* The least set with `c` that follows `by` wherever it is in `D`.
Reach(c, D) ==
    {v \in Id : \A S \in SUBSET Id : (c \in S /\ \A x \in S \cap D : by[x] \in S) => v \in S}

LEMMA ReachStops ==
    ASSUME NEW c \in Id, NEW D, c \notin D
    PROVE  Reach(c, D) = {c}
<1>1. {c} \in SUBSET Id /\ c \in {c} /\ \A x \in {c} \cap D : by[x] \in {c}
  OBVIOUS
<1> QED
  BY <1>1 DEF Reach

\* One step of it: whether `c` itself is left out afterwards or not.
LEMMA ReachSteps ==
    ASSUME NEW D, \A x \in D : by[x] \in Id, NEW c \in Id \cap D,
           NEW E, D \ {c} \subseteq E, E \subseteq D
    PROVE  Reach(c, D) = {c} \cup Reach(by[c], E)
<1> DEFINE R == {c} \cup Reach(by[c], E)
<1>1. ASSUME NEW v \in Reach(c, D) PROVE v \in R
  <2>1. R \in SUBSET Id /\ c \in R
    BY DEF Reach
  <2>2. ASSUME NEW x \in R \cap D PROVE by[x] \in R
    <3>1. CASE x = c
      BY <3>1 DEF Reach
    <3>2. CASE x # c
      <4>1. x \in Reach(by[c], E) /\ x \in E /\ by[x] \in Id
        BY <2>2, <3>2
      <4> QED
        BY <4>1 DEF Reach
    <3> QED
      BY <3>1, <3>2
  <2> HIDE DEF R
  <2> QED
    BY <2>1, <2>2 DEF Reach
<1>2. ASSUME NEW v \in R PROVE v \in Reach(c, D)
  <2>1. CASE v = c
    BY <2>1 DEF Reach
  <2>2. CASE v \in Reach(by[c], E)
    <3>1. ASSUME NEW S \in SUBSET Id, c \in S, \A x \in S \cap D : by[x] \in S
          PROVE  v \in S
      <4>1. by[c] \in S /\ \A x \in S \cap E : by[x] \in S
        BY <3>1
      <4> QED
        BY <2>2, <4>1 DEF Reach
    <3>2. v \in Id
      BY <2>2 DEF Reach
    <3> QED
      BY <3>1, <3>2 DEF Reach
  <2> QED
    BY <2>1, <2>2
<1> QED
  BY <1>1, <1>2

\* Supersessions run forward between cells of the store.
LEMMA Forward ==
    ASSUME IInv
    PROVE  /\ Known \subseteq Id /\ next \in Int
           /\ \A c \in Known : c \in Int /\ c < next
           /\ \A c \in DOMAIN by : c \in Known /\ by[c] \in Known /\ c < by[c]
<1>1. next \in 1 .. MaxId + 1 /\ Known \subseteq 1 .. next - 1 /\ MaxId \in Nat
  BY BoundAssumption DEF IInv
<1>2. Known \subseteq Id /\ next \in Int /\ \A c \in Known : c \in Int /\ c < next
  BY <1>1 DEF Id
<1> QED
  BY <1>2 DEF IInv, SupersessionsOk

\* The current version of a cell is that of its successor, if it has one.
LEMMA CurrentVersion ==
    ASSUME IInv, NEW c \in Known
    PROVE  /\ Current(c) \subseteq Known
           /\ c \notin DOMAIN by => Current(c) = {c}
           /\ c \in DOMAIN by => Current(c) = Current(by[c])
<1>1. c \in Id /\ Known \subseteq Id /\ \A x \in DOMAIN by : by[x] \in Id /\ by[x] \in Known
  BY Forward
<1>2. \A x : VersionsOf(x) = Reach(x, DOMAIN by)
  BY DEF VersionsOf, Reach
<1>3. VersionsOf(c) \subseteq Known
  BY <1>1 DEF VersionsOf
<1>4. c \notin DOMAIN by => VersionsOf(c) = {c}
  BY <1>1, <1>2, ReachStops
<1>5. c \in DOMAIN by => VersionsOf(c) = {c} \cup VersionsOf(by[c])
  <2> DEFINE D == DOMAIN by
  <2>1. SUFFICES ASSUME c \in D PROVE VersionsOf(c) = {c} \cup VersionsOf(by[c])
    OBVIOUS
  <2>2. \A x \in D : by[x] \in Id
    BY <1>1
  <2>3. c \in Id \cap D /\ D \ {c} \subseteq D
    BY <1>1, <2>1
  <2> HIDE DEF D
  <2>4. Reach(c, D) = {c} \cup Reach(by[c], D)
    BY <2>2, <2>3, ReachSteps
  <2> QED
    BY <1>2, <2>4 DEF D
<1> QED
  BY <1>3, <1>4, <1>5 DEF Current

\* What ResolvedLink looks up: where its recursion leads from a cell, when it
\* has been at others.
Follows(f, pruned) ==
    f = [p \in Known \X SUBSET Known |->
            IF p[1] \notin pruned THEN {p[1]}
            ELSE IF p[1] \in p[2] \/ p[1] \notin DOMAIN by THEN {}
            ELSE f[<<by[p[1]], p[2] \cup {p[1]}>>]]

\* The recursion has a result: where the cells it has not been at lead.
LEMMA FollowsSomewhere ==
    ASSUME IInv, NEW pruned \in SUBSET Known
    PROVE  \E f : Follows(f, pruned)
<1> DEFINE Open(V) == (DOMAIN by \cap pruned) \ V
           f == [p \in Known \X SUBSET Known |-> Reach(p[1], Open(p[2])) \ pruned]
           then(c, V) == IF c \notin pruned THEN {c}
                         ELSE IF c \in V \/ c \notin DOMAIN by THEN {}
                         ELSE f[<<by[c], V \cup {c}>>]
<1>1. ASSUME NEW c \in Known, NEW V \in SUBSET Known
      PROVE  Reach(c, Open(V)) \ pruned = then(c, V)
  <2>1. c \in Id /\ Known \subseteq Id /\ \A x \in DOMAIN by : by[x] \in Id /\ by[x] \in Known
    BY Forward
  <2>2. CASE c \notin Open(V)
    <3>1. Reach(c, Open(V)) = {c}
      BY <2>1, <2>2, ReachStops
    <3> QED
      BY <2>2, <3>1
  <2>3. CASE c \in Open(V)
    <3>1. \A x \in Open(V) : by[x] \in Id
      BY <2>1
    <3>2. Open(V) \ {c} = Open(V \cup {c}) /\ c \in pruned /\ c \in DOMAIN by /\ c \notin V
      BY <2>3
    <3>3. <<by[c], V \cup {c}>> \in Known \X SUBSET Known
      BY <2>1, <3>2
    <3>4. f[<<by[c], V \cup {c}>>] = Reach(by[c], Open(V \cup {c})) \ pruned
      BY <3>3
    <3> DEFINE D == Open(V)
               E == Open(V \cup {c})
    <3>6. c \in Id \cap D /\ D \ {c} \subseteq E /\ E \subseteq D /\ \A x \in D : by[x] \in Id
      BY <2>1, <2>3, <3>1
    <3> HIDE DEF D, E, Open, f
    <3>7. Reach(c, D) = {c} \cup Reach(by[c], E)
      BY <3>6, ReachSteps
    <3>5. Reach(c, Open(V)) = {c} \cup Reach(by[c], Open(V \cup {c}))
      BY <3>7 DEF D, E
    <3> QED
      BY <3>2, <3>4, <3>5
  <2> QED
    BY <2>2, <2>3
<1>2. f = [p \in Known \X SUBSET Known |-> then(p[1], p[2])]
  <2> HIDE DEF Open, then
  <2> QED
    BY <1>1
<1> QED
  BY <1>2 DEF Follows

\* It ends at the current version, if that is kept: chains run forward, so no
\* cell is met twice.
LEMMA FollowsToCurrent ==
    ASSUME IInv, NEW cutoff, NEW pruned, pruned = PrunedBy(cutoff), NEW f, Follows(f, pruned),
           NEW link \in Known
    PROVE  f[<<link, {}>>] = Current(link) \ pruned
<1> DEFINE Good(c) == \A V \in SUBSET Known :
                          (\A x \in V : x < c) => f[<<c, V>>] = Current(c) \ pruned
           bad == {c \in Known : ~Good(c)}
           left == {next - c : c \in bad}
<1>1. \A c \in Known : c \in Int /\ c < next
  BY Forward
<1>2. next \in Int
  BY Forward
<1>3. bad = {}
  <2> SUFFICES ASSUME bad # {} PROVE FALSE
    OBVIOUS
  <2>1. left \in SUBSET Nat /\ left # {}
    BY <1>1, <1>2
  <2>2. PICK k \in left : \A j \in left : k <= j
    <3> HIDE DEF left
    <3> QED
      BY <2>1, HasLeast
  <2>3. PICK c \in bad : k = next - c
    BY <2>2
  <2>4. \A e \in Known : e > c => Good(e)
    <3> SUFFICES ASSUME NEW e \in Known, e > c, ~Good(e) PROVE FALSE
      OBVIOUS
    <3>1. next - e \in left /\ c \in Known
      BY <2>3
    <3>2. next - c <= next - e
      BY <2>2, <2>3, <3>1
    <3> QED
      BY <1>1, <1>2, <3>1, <3>2
  <2>5. c \in Known /\ ~Good(c)
    BY <2>3
  <2>6. PICK V \in SUBSET Known : (\A x \in V : x < c) /\ f[<<c, V>>] # Current(c) \ pruned
    BY <2>5
  <2>7. f[<<c, V>>] = IF c \notin pruned THEN {c}
                      ELSE IF c \in V \/ c \notin DOMAIN by THEN {}
                      ELSE f[<<by[c], V \cup {c}>>]
    BY <2>5 DEF Follows
  <2>8. c \notin V
    BY <1>1, <2>5, <2>6
  <2>9. CASE c \notin DOMAIN by
    BY <2>5, <2>6, <2>7, <2>8, <2>9, CurrentVersion
  <2>10. CASE c \in DOMAIN by
    <3>1. c \in pruned /\ by[c] \in Known /\ c < by[c]
      BY <2>10, ReplacedIsPruned, Forward
    <3>2. Current(c) = Current(by[c])
      BY <2>5, <2>10, CurrentVersion
    <3>3. V \cup {c} \in SUBSET Known /\ \A x \in V \cup {c} : x < by[c]
      BY <1>1, <2>5, <2>6, <3>1
    <3>4. Good(by[c])
      <4>1. by[c] > c
        BY <1>1, <2>5, <3>1
      <4> HIDE DEF Good
      <4> QED
        BY <2>4, <3>1, <4>1
    <3>5. f[<<by[c], V \cup {c}>>] = Current(by[c]) \ pruned
      BY <3>3, <3>4
    <3> QED
      BY <2>6, <2>7, <2>8, <2>10, <3>1, <3>2, <3>5
  <2> QED
    BY <2>9, <2>10
<1>4. Good(link)
  BY <1>3
<1> QED
  BY <1>4

\* What a link to a cell of the store becomes.
LEMMA LinkResolved ==
    ASSUME IInv, NEW cutoff, NEW pruned, pruned = PrunedBy(cutoff),
           NEW link \in Known, NEW owner
    PROVE  ResolvedLink(link, owner, pruned) = (Current(link) \ pruned) \ {owner}
<1> DEFINE f == CHOOSE g : Follows(g, pruned)
<1>1. pruned \in SUBSET Known
  BY DEF PrunedBy
<1>2. Follows(f, pruned)
  BY <1>1, FollowsSomewhere
<1>3. ResolvedLink(link, owner, pruned) = f[<<link, {}>>] \ {owner}
  BY DEF ResolvedLink, Follows
<1> HIDE DEF f
<1> QED
  BY <1>2, <1>3, FollowsToCurrent

\* All the links of a cell.
LEMMA LinksRewritten ==
    ASSUME IInv, NEW cutoff, NEW pruned, pruned = PrunedBy(cutoff),
           NEW c \in Known, LinksOk
    PROVE  RewrittenLinks(c, pruned)
               = ((UNION {Current(l) : l \in cells[c].links}) \ pruned) \ {c}
<1>1. cells[c].links \subseteq Known
  BY DEF LinksOk
<1>2. \A l \in cells[c].links : ResolvedLink(l, c, pruned) = (Current(l) \ pruned) \ {c}
  BY <1>1, LinkResolved
<1> DEFINE all == UNION {Current(l) : l \in cells[c].links}
<1>3. \A v : v \in all <=> \E l \in cells[c].links : v \in Current(l)
  OBVIOUS
<1>4. \A v : v \in RewrittenLinks(c, pruned)
                 <=> \E l \in cells[c].links : v \in ResolvedLink(l, c, pruned)
  BY DEF RewrittenLinks
<1> HIDE DEF all
<1>5. \A v : v \in RewrittenLinks(c, pruned) <=> v \in (all \ pruned) \ {c}
  BY <1>2, <1>3, <1>4
<1>6. RewrittenLinks(c, pruned) = (all \ pruned) \ {c}
  <2>1. RewrittenLinks(c, pruned) = UNION {ResolvedLink(l, c, pruned) : l \in cells[c].links}
    BY DEF RewrittenLinks
  <2> QED
    BY <1>5, <2>1
<1> QED
  BY <1>6 DEF all

\* What RedirectsToCurrent says of a step.
Redirected ==
    LET kept == DOMAIN cells'
    IN IF Known \subseteq kept
       THEN \A c \in Known : cells'[c] = cells[c]
       ELSE /\ \A c \in kept : cells'[c].links =
                 ((UNION {Current(l) : l \in cells[c].links}) \cap kept) \ {c}
            /\ \A c \in Known \ kept : \A v \in Current(c) \ kept :
                 Effective(v) \in {"deprecated", "rejected", "temporary"}

LEMMA CompactRedirects ==
    ASSUME IInv, NEW cutoff \in 0 .. MaxId, Compact(cutoff)
    PROVE  Redirected
<1> DEFINE pruned == PrunedBy(cutoff)
           kept == Known \ pruned
<1>1. cells' = KeptCells(pruned) /\ LinksOk /\ pruned \subseteq Known
  BY DEF Compact, PrunedBy, Valid
<1>2. /\ \A c \in DOMAIN by : c \in pruned
      /\ \A c \in pruned : Prunable(c, cutoff)
  BY ReplacedIsPruned DEF PrunedBy
<1>3. \A c \in Known : RewrittenLinks(c, pruned)
                         = ((UNION {Current(l) : l \in cells[c].links}) \ pruned) \ {c}
  BY <1>1, LinksRewritten
<1> HIDE DEF pruned
<1>4. /\ DOMAIN cells' = kept
      /\ \A c \in kept : cells'[c] = [cells[c] EXCEPT !.links = RewrittenLinks(c, pruned)]
  BY <1>1 DEF KeptCells
<1>5. \A l \in Known : Current(l) \subseteq Known
  BY CurrentVersion
<1>6. CASE Known \subseteq kept
  <2>1. pruned = {} /\ DOMAIN by = {}
    BY <1>1, <1>2, <1>6
  <2>2. ASSUME NEW c \in Known PROVE cells'[c] = cells[c]
    <3>1. cells[c].links \subseteq Known /\ c \notin cells[c].links
      BY <1>1 DEF LinksOk
    <3>2. \A l \in cells[c].links : Current(l) = {l}
      BY <2>1, <3>1, CurrentVersion
    <3>3. UNION {Current(l) : l \in cells[c].links} = cells[c].links
      BY <3>2
    <3>7. RewrittenLinks(c, pruned) = (cells[c].links \ pruned) \ {c}
      BY <1>3, <3>3
    <3>4. RewrittenLinks(c, pruned) = cells[c].links
      <4> DEFINE links == cells[c].links
      <4>1. \A S : S \subseteq Known /\ c \notin S => (S \ {}) \ {c} = S
        OBVIOUS
      <4>2. links \subseteq Known /\ c \notin links
        BY <3>1
      <4>3. (links \ {}) \ {c} = links
        <5> HIDE DEF links
        <5> QED
          BY <4>1, <4>2
      <4> QED
        BY <2>1, <3>7, <4>3
    <3>5. cells'[c] = [cells[c] EXCEPT !.links = cells[c].links]
      BY <1>4, <1>6, <3>4
    <3>6. /\ DOMAIN cells[c] = {"scope", "status", "links", "marks"}
          /\ cells[c] = [k \in DOMAIN cells[c] |-> cells[c][k]]
      BY DEF IInv, CellOk
    <3> QED
      BY <3>5, <3>6
  <2> QED
    BY <1>4, <1>6, <2>2 DEF Redirected
<1>7. CASE ~(Known \subseteq kept)
  <2>1. ASSUME NEW c \in kept
        PROVE  cells'[c].links = ((UNION {Current(l) : l \in cells[c].links}) \cap kept) \ {c}
    <3>1. cells'[c].links = RewrittenLinks(c, pruned)
      BY <1>4 DEF IInv, CellOk
    <3>2. cells[c].links \subseteq Known
      BY <1>1 DEF LinksOk
    <3>3. UNION {Current(l) : l \in cells[c].links} \subseteq Known
      BY <1>5, <3>2
    <3> QED
      BY <1>3, <3>1, <3>3
  <2>2. ASSUME NEW c \in Known \ kept, NEW v \in Current(c) \ kept
        PROVE  Effective(v) \in {"deprecated", "rejected", "temporary"}
    <3>1. v \in pruned /\ v \notin DOMAIN by
      BY <1>5, <2>2 DEF Current
    <3> QED
      BY <1>2, <3>1 DEF Prunable
  <2> QED
    BY <1>4, <1>7, <2>1, <2>2 DEF Redirected
<1> QED
  BY <1>6, <1>7

\* A step that takes no cell away and changes none.
CellsStay == Known \subseteq Known' /\ \A c \in Known : cells'[c] = cells[c]

LEMMA InsertCells ==
    ASSUME NEW request, NEW d, NEW n, Insert(request, d, n)
    PROVE  CellsStay
BY DEF Insert, Known, CellsStay

LEMMA SameCells ==
    ASSUME UNCHANGED cells
    PROVE  CellsStay
BY DEF Known, CellsStay

\* Only a compaction changes cells.
LEMMA CellsStayStep ==
    ASSUME [Next]_vars, ~ \E cutoff \in 0 .. MaxId : Compact(cutoff)
    PROVE  CellsStay
<1>1. ASSUME NEW r \in Requests, Remember(r) PROVE CellsStay
  BY <1>1, InsertCells, SameCells DEF Remember, Overflows
<1>2. ASSUME NEW s \in Sessions, RememberSession(s) PROVE CellsStay
  <2> DEFINE d == WithMarkers(s.request)
  <2>1. PICK kept \in 0 .. Len(ChunksOf[s]) :
            IF Overflow(s.request, d) THEN kept = 0 /\ Overflows(d)
            ELSE Insert(s.request, d, kept)
    BY <1>2 DEF RememberSession
  <2> QED
    BY <2>1, InsertCells, SameCells DEF Overflows
<1>3. ASSUME NEW i \in Imports, ImportMarkdown(i) PROVE CellsStay
  <2> DEFINE d == WithMarkers(i.request)
             texts == SectionsOf[i]
  <2>1. PICK kept \in 0 .. Len(texts) :
            CASE texts = <<>> -> UNCHANGED <<cells, next, dict>>
              [] texts # <<>> /\ Overflow(i.request, d)  -> kept = 0 /\ Overflows(d)
              [] texts # <<>> /\ ~Overflow(i.request, d) -> Insert(i.request, d, kept)
    BY <1>3 DEF ImportMarkdown
  <2> HIDE DEF d, texts
  <2>2. CASE texts = <<>>
    BY <2>1, <2>2, SameCells
  <2>3. CASE texts # <<>>
    BY <2>1, <2>3, InsertCells, SameCells DEF Overflows
  <2> QED
    BY <2>2, <2>3
<1>4. ASSUME NEW old \in Known, NEW r \in Requests, Supersede(old, r) PROVE CellsStay
  BY <1>4, InsertCells DEF Supersede
<1>5. ASSUME NEW c \in Known, NEW status \in Overrides, SetStatus(c, status) PROVE CellsStay
  BY <1>5, SameCells DEF SetStatus
<1>6. CASE UNCHANGED vars
  BY <1>6, SameCells DEF vars
<1> QED
  BY <1>1, <1>2, <1>3, <1>4, <1>5, <1>6 DEF Next

\* When a compaction removes cells, the links of the others lead to the
\* current versions of what they led to, as far as those are kept, and no
\* current version is removed but one that was given up itself; between
\* compactions no link changes.
THEOREM LinksRedirected == Spec => RedirectsToCurrent
<1>1. IInv /\ [Next]_vars => Redirected
  <2> SUFFICES ASSUME IInv, [Next]_vars PROVE Redirected
    OBVIOUS
  <2>1. CASE \E cutoff \in 0 .. MaxId : Compact(cutoff)
    BY <2>1, CompactRedirects
  <2>2. CASE ~ \E cutoff \in 0 .. MaxId : Compact(cutoff)
    <3>1. CellsStay
      BY <2>2, CellsStayStep
    <3>2. Known' = DOMAIN cells'
      BY DEF Known
    <3> QED
      BY <3>1, <3>2 DEF CellsStay, Redirected
  <2> QED
    BY <2>1, <2>2
<1>2. IInv /\ [Next]_vars => [Redirected]_vars
  BY <1>1
<1> QED
  BY <1>2, Invariance, PTL DEF Spec, RedirectsToCurrent, Redirected

-----------------------------------------------------------------------------
(* Sessions.                                                               *)

\* The bytes of a chunk, turn by turn.
LEMMA ChunkBytesSteps ==
    ASSUME NEW turns \in Seq(Nat), NEW a \in Nat, NEW b \in Nat, a <= b, b <= Len(turns)
    PROVE  \E f : /\ f[0] = b - a - 1 /\ ChunkBytes(turns, a, b) = f[b - a]
                  /\ \A k \in 1 .. b - a : f[k] = f[k - 1] + turns[a + k]
<1> DEFINE seq == SubSeq(turns, a + 1, b)
           n == b - a
           base == b - a - 1
           U == Int
           G == [p \in U \X (1 .. n) |-> p[1] + seq[p[2]]]
           Solves(h) == h = [s \in SUBSET (1 .. n) |->
                                IF s = {} THEN base ELSE h[s \ {Max(s)}] + seq[Max(s)]]
           iter == CHOOSE h : Solves(h)
<1>1. /\ n \in Nat /\ seq \in Seq(Nat) /\ Len(seq) = n /\ DOMAIN seq = 1 .. n /\ base \in U
      /\ \A i \in 1 .. n : seq[i] = turns[a + i] /\ seq[i] \in Nat
  <2>1. seq \in Seq(Nat) /\ Len(seq) = n
    <3>1. \A i \in a + 1 .. b : i \in 1 .. Len(turns) /\ turns[i] \in Nat
      OBVIOUS
    <3>2. /\ seq \in Seq(Nat)
          /\ Len(seq) = IF a + 1 <= b THEN b - (a + 1) + 1 ELSE 0
      BY <3>1, SubSeqProperties
    <3> HIDE DEF seq
    <3> QED
      BY <3>2
  <2>2. ASSUME NEW i \in 1 .. n PROVE seq[i] = turns[a + i] /\ seq[i] \in Nat
    <3>1. i \in 1 .. b - (a + 1) + 1 /\ a + 1 + i - 1 = a + i /\ a + i \in 1 .. Len(turns)
      OBVIOUS
    <3>2. seq[i] = turns[a + i]
      BY <2>1, <3>1 DEF seq
    <3>3. turns[a + i] \in Nat
      BY <3>1
    <3> QED
      BY <3>2, <3>3
  <2> QED
    BY <2>1, <2>2
<1> HIDE DEF seq
<1>2. StepIn(G, U, n)
  <2>1. ASSUME NEW p \in U \X (1 .. n) PROVE p[1] + seq[p[2]] \in U
    <3>1. p[1] \in Int /\ p[2] \in 1 .. n
      OBVIOUS
    <3>2. seq[p[2]] \in Nat
      BY <1>1, <3>1
    <3> QED
      BY <3>1, <3>2
  <2> QED
    BY <2>1 DEF StepIn
<1>. PICK f : FoldOf(f, U, base, n, G)
  <2> HIDE DEF U, G, n, base
  <2> QED
    BY <1>1, <1>2, FoldExists
<1>3. /\ f \in [SUBSET (1 .. n) -> U]
      /\ f = [s \in SUBSET (1 .. n) |-> IF s = {} THEN base ELSE G[<<f[s \ {Max(s)}], Max(s)>>]]
  BY DEF FoldOf
<1>4. ASSUME NEW s \in SUBSET (1 .. n), s # {}
      PROVE  G[<<f[s \ {Max(s)}], Max(s)>>] = f[s \ {Max(s)}] + seq[Max(s)]
  <2>1. Max(s) \in 1 .. n
    <3> HIDE DEF n
    <3> QED
      BY <1>1, <1>4, HasLargest
  <2>2. s \ {Max(s)} \in SUBSET (1 .. n)
    OBVIOUS
  <2>3. <<f[s \ {Max(s)}], Max(s)>> \in U \X (1 .. n)
    BY <1>3, <2>1, <2>2
  <2> QED
    BY <2>3
<1>5. Solves(f)
  <2> HIDE DEF G, n, U, base
  <2> QED
    BY <1>3, <1>4
<1>6. Solves(iter)
  <2> HIDE DEF Solves
  <2> QED
    BY <1>5
<1>7. ChunkBytes(turns, a, b) = iter[1 .. n]
  BY <1>1 DEF ChunkBytes, FoldLeft, MapThenFoldSet, seq
<1> HIDE DEF iter
<1> DEFINE g == [k \in 0 .. n |-> iter[1 .. k]]
<1>8. g[0] = base /\ g[n] = ChunkBytes(turns, a, b)
  <2>1. 1 .. 0 = {} /\ {} \in SUBSET (1 .. n) /\ 0 \in 0 .. n /\ n \in 0 .. n
    BY <1>1
  <2> HIDE DEF n, base
  <2> QED
    BY <1>6, <1>7, <2>1
<1>9. ASSUME NEW k \in 1 .. n PROVE g[k] = g[k - 1] + turns[a + k]
  <2>1. k \in Nat \ {0} /\ k \in 0 .. n /\ k - 1 \in 0 .. n /\ 1 .. k \in SUBSET (1 .. n)
    <3>1. n \in Nat
      BY <1>1
    <3> HIDE DEF n
    <3> QED
      BY <3>1
  <2>2. 1 .. k # {} /\ Max(1 .. k) = k /\ (1 .. k) \ {k} = 1 .. k - 1
    BY <2>1, FirstNumbers
  <2>3. iter[1 .. k] = iter[1 .. k - 1] + seq[k]
    <3> HIDE DEF n, base
    <3> QED
      BY <1>6, <2>1, <2>2
  <2>4. seq[k] = turns[a + k]
    BY <1>1
  <2> HIDE DEF n
  <2> QED
    BY <2>1, <2>3, <2>4
<1> HIDE DEF g
<1> QED
  BY <1>8, <1>9

\* The bytes of a chunk of one turn, and of one with one more turn.
LEMMA ChunkBytesMore ==
    ASSUME NEW turns \in Seq(Nat), NEW a \in Nat, NEW b \in Nat, a < b, b <= Len(turns)
    PROVE  /\ ChunkBytes(turns, a, b) \in Int
           /\ b = a + 1 => ChunkBytes(turns, a, b) = turns[b]
           /\ b < Len(turns) =>
                ChunkBytes(turns, a, b + 1) = ChunkBytes(turns, a, b) + 1 + turns[b + 1]
<1> DEFINE n == b - a
<1>1. n \in Nat \ {0} /\ \A k \in 1 .. n : turns[a + k] \in Nat
  OBVIOUS
<1>. PICK f : /\ f[0] = b - a - 1 /\ ChunkBytes(turns, a, b) = f[n]
              /\ \A k \in 1 .. n : f[k] = f[k - 1] + turns[a + k]
  <2>1. a <= b
    OBVIOUS
  <2> QED
    BY <2>1, ChunkBytesSteps
<1>2. \A k \in 0 .. n : f[k] \in Int
  <2> DEFINE T == {k \in 0 .. n : f[k] \in Int}
  <2>1. 0 \in T
    BY <1>1
  <2>2. ASSUME NEW k \in 0 .. n - 1, k \in T PROVE k + 1 \in T
    <3>1. k + 1 \in 1 .. n /\ k + 1 \in 0 .. n /\ (k + 1) - 1 = k
      BY <1>1
    <3>2. f[k + 1] = f[k] + turns[a + (k + 1)] /\ turns[a + (k + 1)] \in Nat
      BY <1>1, <3>1
    <3>3. f[k] \in Int
      BY <2>2
    <3>4. f[k + 1] \in Int
      <4> HIDE DEF n, T
      <4> QED
        BY <3>2, <3>3
    <3> QED
      BY <3>1, <3>4
  <2> HIDE DEF T, n
  <2>3. \A k \in 0 .. n : k \in T
    BY <1>1, <2>1, <2>2, UpTo
  <2> QED
    BY <2>3 DEF T
<1>3. ASSUME b = a + 1 PROVE ChunkBytes(turns, a, b) = turns[b]
  <2>1. n = 1 /\ f[0] = 0 /\ 1 \in 1 .. n /\ a + 1 = b
    BY <1>3
  <2>2. f[1] = f[1 - 1] + turns[a + 1]
    BY <2>1
  <2>3. turns[b] \in Nat
    OBVIOUS
  <2> QED
    BY <2>1, <2>2, <2>3
<1>4. ASSUME b < Len(turns)
      PROVE  ChunkBytes(turns, a, b + 1) = ChunkBytes(turns, a, b) + 1 + turns[b + 1]
  <2> DEFINE m == (b + 1) - a
  <2>1. m = n + 1 /\ b + 1 \in Nat /\ a <= b + 1 /\ b + 1 <= Len(turns) /\ turns[b + 1] \in Nat
    BY <1>4
  <2>. PICK g : /\ g[0] = (b + 1) - a - 1 /\ ChunkBytes(turns, a, b + 1) = g[m]
                /\ \A k \in 1 .. m : g[k] = g[k - 1] + turns[a + k]
    BY <2>1, ChunkBytesSteps
  <2> DEFINE T == {k \in 0 .. n : g[k] = f[k] + 1}
  <2>2. 0 \in T
    <3>1. n \in Nat /\ f[0] = b - a - 1 /\ g[0] = (b + 1) - a - 1
      BY <1>1
    <3>2. g[0] = f[0] + 1
      BY <3>1
    <3> HIDE DEF n
    <3> QED
      BY <3>1, <3>2
  <2>3. ASSUME NEW k \in 0 .. n - 1, k \in T PROVE k + 1 \in T
    <3>1. /\ k + 1 \in 1 .. n /\ k + 1 \in 1 .. m /\ k + 1 \in 0 .. n /\ (k + 1) - 1 = k
          /\ turns[a + (k + 1)] \in Nat /\ f[k] \in Int
      <4>1. k \in 0 .. n /\ k + 1 \in 1 .. n /\ k + 1 \in 1 .. m /\ k + 1 \in 0 .. n /\ (k + 1) - 1 = k
        <5> HIDE DEF n, m
        <5> QED
          BY <1>1, <2>1
      <4> HIDE DEF n, m
      <4> QED
        BY <1>1, <1>2, <4>1
    <3>2. f[k + 1] = f[k] + turns[a + (k + 1)] /\ g[k + 1] = g[k] + turns[a + (k + 1)]
      BY <3>1
    <3>3. g[k] = f[k] + 1
      BY <2>3
    <3>4. g[k + 1] = f[k + 1] + 1
      <4>1. \A x \in Int, y \in Nat : (x + 1) + y = (x + y) + 1
        OBVIOUS
      <4>2. (f[k] + 1) + turns[a + (k + 1)] = (f[k] + turns[a + (k + 1)]) + 1
        BY <3>1, <4>1
      <4> HIDE DEF T, n, m
      <4> QED
        BY <3>2, <3>3, <4>2
    <3> QED
      BY <3>1, <3>4
  <2>4. \A k \in 0 .. n : k \in T
    <3> HIDE DEF T, n
    <3> QED
      BY <1>1, <2>2, <2>3, UpTo
  <2>5. g[n] = f[n] + 1 /\ f[n] \in Int
    BY <1>1, <1>2, <2>4
  <2>6. m \in 1 .. m /\ m - 1 = n /\ a + m = b + 1
    BY <1>1, <2>1
  <2>7. g[m] = g[n] + turns[b + 1]
    BY <2>6
  <2> HIDE DEF n, m
  <2> QED
    BY <2>1, <2>5, <2>7
<1>5. ChunkBytes(turns, a, b) \in Int
  BY <1>1, <1>2
<1> QED
  BY <1>3, <1>4, <1>5

\* The state of the loop over the turns of a session.
Loop == [closed : Seq(Nat \X Nat), start : Nat, seen : Nat, bytes : Int]

\* Whether a turn begins a new chunk, and what one turn makes of the loop.
Cuts(acc, len, options) ==
    /\ acc.seen - acc.start > 0
    /\ acc.seen - acc.start >= options.max_turns \/ acc.bytes + 1 + len > options.max_bytes

AfterTurn(acc, len, options, new) ==
    /\ new \in Loop /\ new.seen = acc.seen + 1
    /\ Cuts(acc, len, options) =>
          /\ new.start = acc.seen /\ new.bytes = len
          /\ new.closed = Append(acc.closed, <<acc.start, acc.seen>>)
    /\ ~Cuts(acc, len, options) =>
          /\ new.start = acc.start /\ new.closed = acc.closed
          /\ new.bytes = IF acc.seen = acc.start THEN acc.bytes + len ELSE acc.bytes + 1 + len

LEMMA AddTurnIs ==
    ASSUME NEW acc \in Loop, NEW len \in Nat,
           NEW options \in [max_turns : Nat, max_bytes : Nat]
    PROVE  AfterTurn(acc, len, options, AddTurn(acc, len, options))
<1> DEFINE cut == Cuts(acc, len, options)
           before == IF cut THEN CloseChunk(acc) ELSE acc
<1>1. /\ acc.closed \in Seq(Nat \X Nat) /\ acc.bytes \in Int /\ acc.start \in Nat /\ acc.seen \in Nat
      /\ acc = [closed |-> acc.closed, start |-> acc.start, seen |-> acc.seen, bytes |-> acc.bytes]
      /\ options.max_turns \in Nat /\ options.max_bytes \in Nat
  BY DEF Loop
<1>2. Lines(acc) = acc.seen - acc.start
  BY DEF Lines
<1>3. Lines(acc) > 0 => Separator(acc) = 1
  BY <1>2 DEF Separator
<1>4. cut <=> Lines(acc) > 0 /\ ExceedsLimit(acc, len, options)
  BY <1>2, <1>3 DEF ExceedsLimit, Cuts
<1>5. AddTurn(acc, len, options) = AddLine(before, len)
  BY <1>4 DEF AddTurn
<1>6. /\ before \in Loop /\ before.seen = acc.seen
      /\ before.start = IF cut THEN acc.seen ELSE acc.start
      /\ before.closed = IF cut THEN Append(acc.closed, <<acc.start, acc.seen>>) ELSE acc.closed
      /\ before.bytes = IF cut THEN 0 ELSE acc.bytes
  <2>1. CASE cut
    <3>1. Append(acc.closed, <<acc.start, acc.seen>>) \in Seq(Nat \X Nat)
      <4>1. <<acc.start, acc.seen>> \in Nat \X Nat
        BY <1>1
      <4> QED
        BY <1>1, <4>1, AppendProperties
    <3> QED
      BY <1>1, <2>1, <3>1 DEF Loop, CloseChunk
  <2>2. CASE ~cut
    BY <2>2
  <2> QED
    BY <2>1, <2>2
<1> HIDE DEF before
<1>7. AddLine(before, len) = [closed |-> before.closed, start |-> before.start, seen |-> before.seen + 1,
                              bytes |-> before.bytes + Separator(before) + len]
  BY <1>6 DEF AddLine, Loop
<1>8. Separator(before) = IF cut \/ acc.seen = acc.start THEN 0 ELSE 1
  <2>1. cut => before.seen - before.start = 0
    BY <1>1, <1>6
  <2>2. ~cut => (before.seen - before.start = 0 <=> acc.seen = acc.start)
    BY <1>1, <1>6
  <2> HIDE DEF cut
  <2> QED
    BY <2>1, <2>2 DEF Separator, Lines
<1>9. AddLine(before, len) \in Loop
  <2>1. /\ before.closed \in Seq(Nat \X Nat) /\ before.start \in Nat
        /\ before.seen \in Nat /\ before.bytes \in Int
    BY <1>6 DEF Loop
  <2>2. before.bytes + Separator(before) + len \in Int /\ before.seen + 1 \in Nat
    BY <1>8, <2>1
  <2> HIDE DEF cut
  <2> QED
    BY <1>7, <2>1, <2>2 DEF Loop
<1>10. before.bytes + Separator(before) + len =
         IF cut THEN len ELSE IF acc.seen = acc.start THEN acc.bytes + len ELSE acc.bytes + 1 + len
  <2> HIDE DEF cut
  <2> QED
    BY <1>1, <1>6, <1>8
<1> QED
  <2> HIDE DEF cut
  <2> SUFFICES AfterTurn(acc, len, options, AddLine(before, len))
    BY <1>5
  <2> QED
    BY <1>6, <1>7, <1>9, <1>10 DEF AfterTurn, cut

LEMMA AddTurnTypes ==
    ASSUME NEW acc \in Loop, NEW len \in Nat, NEW options \in [max_turns : Nat, max_bytes : Nat]
    PROVE  AddTurn(acc, len, options) \in Loop
  BY AddTurnIs DEF AfterTurn

\* The chunks of a session, turn by turn.
LEMMA ChunkSteps ==
    ASSUME NEW turns \in Seq(Nat), NEW options \in [max_turns : Nat, max_bytes : Nat]
    PROVE  \E f : /\ f[0] = NoChunks
                  /\ \A k \in 1 .. Len(turns) : f[k] = AddTurn(f[k - 1], turns[k], options)
                  /\ Chunks(turns, options) =
                       (IF Lines(f[Len(turns)]) = 0 THEN f[Len(turns)]
                        ELSE CloseChunk(f[Len(turns)])).closed
<1> DEFINE n == Len(turns)
           U == Loop
           base == NoChunks
           G == [p \in U \X (1 .. n) |-> AddTurn(p[1], turns[p[2]], options)]
           Solves(h) == h = [s \in SUBSET (1 .. n) |->
                                IF s = {} THEN base ELSE AddTurn(h[s \ {Max(s)}], turns[Max(s)], options)]
           iter == CHOOSE h : Solves(h)
<1>1. n \in Nat /\ DOMAIN turns = 1 .. n /\ \A i \in 1 .. n : turns[i] \in Nat
  OBVIOUS
<1>2. StepIn(G, U, n) /\ base \in U
  <2>1. ASSUME NEW p \in U \X (1 .. n) PROVE AddTurn(p[1], turns[p[2]], options) \in U
    <3>1. p[1] \in U /\ turns[p[2]] \in Nat
      BY <1>1
    <3> QED
      BY <3>1, AddTurnTypes
  <2>2. base \in U
    BY DEF NoChunks, Loop
  <2> QED
    BY <2>1, <2>2 DEF StepIn
<1>. PICK f : FoldOf(f, U, base, n, G)
  <2> HIDE DEF U, G, n, base
  <2> QED
    BY <1>1, <1>2, FoldExists
<1>3. /\ f \in [SUBSET (1 .. n) -> U]
      /\ f = [s \in SUBSET (1 .. n) |-> IF s = {} THEN base ELSE G[<<f[s \ {Max(s)}], Max(s)>>]]
  BY DEF FoldOf
<1>4. ASSUME NEW s \in SUBSET (1 .. n), s # {}
      PROVE  G[<<f[s \ {Max(s)}], Max(s)>>] = AddTurn(f[s \ {Max(s)}], turns[Max(s)], options)
  <2>1. Max(s) \in 1 .. n
    <3> HIDE DEF n
    <3> QED
      BY <1>1, <1>4, HasLargest
  <2>2. s \ {Max(s)} \in SUBSET (1 .. n)
    OBVIOUS
  <2> HIDE DEF U
  <2>3. <<f[s \ {Max(s)}], Max(s)>> \in U \X (1 .. n)
    BY <1>3, <2>1, <2>2
  <2> QED
    BY <2>3
<1>5. Solves(f)
  <2> HIDE DEF G, n, U, base
  <2> QED
    BY <1>3, <1>4
<1>6. Solves(iter)
  <2> HIDE DEF Solves
  <2> QED
    BY <1>5
<1> DEFINE all == FoldLeft(LAMBDA acc, len : AddTurn(acc, len, options), NoChunks, turns)
<1>7. all = iter[1 .. n]
  BY <1>1 DEF FoldLeft, MapThenFoldSet
<1>8. Chunks(turns, options) = (IF Lines(all) = 0 THEN all ELSE CloseChunk(all)).closed
  BY DEF Chunks
<1> HIDE DEF iter, all, base
<1> DEFINE g == [k \in 0 .. n |-> iter[1 .. k]]
<1>9. g[0] = base /\ g[n] = all
  <2>1. 1 .. 0 = {} /\ {} \in SUBSET (1 .. n) /\ 0 \in 0 .. n /\ n \in 0 .. n
    BY <1>1
  <2> HIDE DEF n
  <2> QED
    BY <1>6, <1>7, <2>1
<1>10. ASSUME NEW k \in 1 .. n PROVE g[k] = AddTurn(g[k - 1], turns[k], options)
  <2> DEFINE w == 1 .. k
  <2>1. k \in Nat \ {0} /\ k \in 0 .. n /\ k - 1 \in 0 .. n /\ w \in SUBSET (1 .. n)
    BY <1>1
  <2>2. w # {} /\ Max(w) = k /\ w \ {k} = 1 .. k - 1
    BY <2>1, FirstNumbers
  <2> HIDE DEF w, n
  <2>3. iter[w] = AddTurn(iter[w \ {Max(w)}], turns[Max(w)], options)
    BY <1>6, <2>1, <2>2
  <2>4. iter[w] = AddTurn(iter[1 .. k - 1], turns[k], options)
    BY <2>2, <2>3
  <2> QED
    BY <2>1, <2>4 DEF w
<1> HIDE DEF g
<1> QED
  BY <1>8, <1>9, <1>10 DEF base

\* The turns up to `end`, cut into chunks: one after the other, none longer
\* than it may be and none that would take the first turn of the next.
CutInto(turns, options, chunks, end) ==
    /\ chunks \in Seq(Nat \X Nat) /\ end \in 0 .. Len(turns)
    /\ end = IF Len(chunks) = 0 THEN 0 ELSE chunks[Len(chunks)][2]
    /\ \A k \in 1 .. Len(chunks) :
          /\ chunks[k][1] = IF k = 1 THEN 0 ELSE chunks[k - 1][2]
          /\ chunks[k][1] < chunks[k][2] /\ chunks[k][2] <= end
          /\ k < Len(chunks) => chunks[k][2] < end
          /\ Fits(turns, options, chunks[k][1], chunks[k][2]) \/ chunks[k][2] = chunks[k][1] + 1
          /\ k > 1 => ~Fits(turns, options, chunks[k - 1][1], chunks[k][1] + 1)

\* One more chunk.
LEMMA CutMore ==
    ASSUME NEW turns, NEW options, NEW chunks, NEW a, CutInto(turns, options, chunks, a),
           NEW b \in 0 .. Len(turns), a < b,
           Fits(turns, options, a, b) \/ b = a + 1,
           Len(chunks) > 0 => ~Fits(turns, options, chunks[Len(chunks)][1], a + 1)
    PROVE  CutInto(turns, options, Append(chunks, <<a, b>>), b)
<1> DEFINE n == Len(chunks)
           more == Append(chunks, <<a, b>>)
<1>1. /\ chunks \in Seq(Nat \X Nat) /\ a \in 0 .. Len(turns) /\ n \in Nat /\ b \in Nat /\ a \in Nat
      /\ a = IF n = 0 THEN 0 ELSE chunks[n][2]
      /\ \A k \in 1 .. n : chunks[k][1] \in Nat /\ chunks[k][2] \in Nat
  BY DEF CutInto
<1>2. /\ more \in Seq(Nat \X Nat) /\ Len(more) = n + 1 /\ more[n + 1] = <<a, b>>
      /\ \A k \in 1 .. n : more[k] = chunks[k]
  <2>1. <<a, b>> \in Nat \X Nat
    BY <1>1
  <2> QED
    BY <1>1, <2>1, AppendProperties
<1>3. \A k \in 1 .. n :
          /\ chunks[k][1] = IF k = 1 THEN 0 ELSE chunks[k - 1][2]
          /\ chunks[k][1] < chunks[k][2] /\ chunks[k][2] <= a
          /\ Fits(turns, options, chunks[k][1], chunks[k][2]) \/ chunks[k][2] = chunks[k][1] + 1
          /\ k > 1 => ~Fits(turns, options, chunks[k - 1][1], chunks[k][1] + 1)
  BY DEF CutInto
<1> HIDE DEF n, more
<1>4. ASSUME NEW k \in 1 .. n + 1
      PROVE  /\ more[k][1] = IF k = 1 THEN 0 ELSE more[k - 1][2]
             /\ more[k][1] < more[k][2] /\ more[k][2] <= b
             /\ k < n + 1 => more[k][2] < b
             /\ Fits(turns, options, more[k][1], more[k][2]) \/ more[k][2] = more[k][1] + 1
             /\ k > 1 => ~Fits(turns, options, more[k - 1][1], more[k][1] + 1)
  <2>1. CASE k \in 1 .. n
    <3>1. k > 1 => k - 1 \in 1 .. n
      BY <1>1, <2>1
    <3>2. more[k] = chunks[k] /\ (k > 1 => more[k - 1] = chunks[k - 1])
      BY <1>2, <2>1, <3>1
    <3>3. chunks[k][2] < b /\ chunks[k][2] <= b
      <4>1. \A x, y, z \in Nat : x <= y /\ y < z => x < z /\ x <= z
        OBVIOUS
      <4>2. chunks[k][2] \in Nat /\ chunks[k][2] <= a
        BY <1>1, <1>3, <2>1
      <4> QED
        BY <1>1, <4>1, <4>2
    <3>4. k # 1 => k > 1
      BY <1>1, <2>1
    <3> DEFINE c == chunks[k]
    <3>5. /\ c[1] = IF k = 1 THEN 0 ELSE chunks[k - 1][2]
          /\ c[1] < c[2]
          /\ Fits(turns, options, c[1], c[2]) \/ c[2] = c[1] + 1
          /\ k > 1 => ~Fits(turns, options, chunks[k - 1][1], c[1] + 1)
      BY <1>3, <2>1
    <3>6. more[k] = c /\ c[2] < b /\ c[2] <= b
      BY <3>2, <3>3
    <3> HIDE DEF c
    <3>7. more[k][1] = IF k = 1 THEN 0 ELSE more[k - 1][2]
      BY <3>2, <3>4, <3>5, <3>6
    <3>8. k > 1 => ~Fits(turns, options, more[k - 1][1], more[k][1] + 1)
      BY <3>2, <3>5, <3>6
    <3> QED
      BY <3>5, <3>6, <3>7, <3>8
  <2>2. CASE k = n + 1
    <3>1. more[k][1] = a /\ more[k][2] = b
      BY <1>2, <2>2
    <3>2. k > 1 => n \in 1 .. n /\ n > 0 /\ k - 1 = n /\ more[n] = chunks[n]
      BY <1>1, <1>2, <2>2
    <3>3. k = 1 => n = 0
      BY <1>1, <2>2
    <3>4. k > 1 => ~Fits(turns, options, more[k - 1][1], more[k][1] + 1)
      <4> SUFFICES ASSUME k > 1 PROVE ~Fits(turns, options, more[k - 1][1], more[k][1] + 1)
        OBVIOUS
      <4>1. more[k - 1][1] = chunks[n][1] /\ n > 0
        BY <3>2
      <4> QED
        BY <3>1, <4>1 DEF n
    <3>5. more[k][1] = IF k = 1 THEN 0 ELSE more[k - 1][2]
      <4>1. k \in Nat \ {0}
        BY <1>1
      <4>2. CASE k = 1
        BY <1>1, <3>1, <3>3, <4>2
      <4>3. CASE k > 1
        <5>1. more[k - 1][2] = chunks[n][2] /\ n # 0
          BY <3>2, <4>3
        <5> QED
          BY <1>1, <3>1, <4>3, <5>1
      <4> QED
        BY <4>1, <4>2, <4>3
    <3>6. ~(k < n + 1) /\ b <= b
      BY <1>1, <2>2
    <3> QED
      BY <3>1, <3>4, <3>5, <3>6
  <2>3. k \in 1 .. n \/ k = n + 1
    BY <1>1
  <2> QED
    BY <2>1, <2>2, <2>3
<1>5. b = IF Len(more) = 0 THEN 0 ELSE more[Len(more)][2]
  BY <1>1, <1>2
<1>6. CutInto(turns, options, more, b)
  BY <1>2, <1>4, <1>5 DEF CutInto
<1> QED
  BY <1>6 DEF more

\* The loop after k turns: the last chunk is open.
LoopOk(turns, options, acc, k) ==
    /\ acc \in Loop /\ acc.seen = k
    /\ CutInto(turns, options, acc.closed, acc.start)
    /\ acc.start <= k /\ (k > 0 => acc.start < k)
    /\ acc.start < k => /\ acc.bytes = ChunkBytes(turns, acc.start, k)
                        /\ Fits(turns, options, acc.start, k) \/ k = acc.start + 1
    /\ acc.start = k => acc.bytes = 0
    /\ Len(acc.closed) > 0 =>
          ~Fits(turns, options, acc.closed[Len(acc.closed)][1], acc.start + 1)

LEMMA LoopNext ==
    ASSUME NEW turns \in Seq(Nat), NEW options \in [max_turns : Nat, max_bytes : Nat],
           NEW k \in 0 .. Len(turns) - 1, NEW acc, LoopOk(turns, options, acc, k)
    PROVE  LoopOk(turns, options, AddTurn(acc, turns[k + 1], options), k + 1)
<1>. PICK len : len = turns[k + 1]
  OBVIOUS
<1>. PICK new : new = AddTurn(acc, len, options)
  OBVIOUS
<1>. PICK start : start = acc.start
  OBVIOUS
<1> DEFINE cut == Cuts(acc, len, options)
           closed == acc.closed
           fits(a, b) == Fits(turns, options, a, b)
<1>1. /\ acc \in Loop /\ acc.seen = k /\ start <= k
      /\ CutInto(turns, options, closed, start)
      /\ start < k => acc.bytes = ChunkBytes(turns, start, k) /\ (fits(start, k) \/ k = start + 1)
      /\ start = k => acc.bytes = 0
      /\ Len(closed) > 0 => ~fits(closed[Len(closed)][1], start + 1)
  BY DEF LoopOk
<1>2. /\ start \in Nat /\ acc.bytes \in Int /\ closed \in Seq(Nat \X Nat)
      /\ options.max_turns \in Nat /\ options.max_bytes \in Nat
  BY <1>1 DEF Loop
<1>3. /\ Len(turns) \in Nat /\ k \in Nat /\ k + 1 \in 1 .. Len(turns) /\ k < Len(turns) /\ k <= Len(turns)
      /\ k + 1 \in 0 .. Len(turns) /\ k \in 0 .. Len(turns) /\ k + 1 \in Nat /\ k < k + 1
  OBVIOUS
<1>4. len \in Nat
  BY <1>3
<1>5. AfterTurn(acc, len, options, new)
  BY <1>1, <1>4, AddTurnIs
<1> HIDE DEF cut, closed
<1>6. /\ new \in Loop /\ new.seen = k + 1
      /\ cut => new.start = k /\ new.bytes = len /\ new.closed = Append(closed, <<start, k>>)
      /\ ~cut => /\ new.start = start /\ new.closed = closed
                 /\ new.bytes = IF k = start THEN acc.bytes + len ELSE acc.bytes + 1 + len
  BY <1>1, <1>5 DEF AfterTurn, cut, closed
<1>7. start < k => ChunkBytes(turns, start, k + 1) = acc.bytes + 1 + len
  <2> SUFFICES ASSUME start < k PROVE ChunkBytes(turns, start, k + 1) = acc.bytes + 1 + len
    OBVIOUS
  <2>1. acc.bytes = ChunkBytes(turns, start, k)
    BY <1>1
  <2>2. ChunkBytes(turns, start, k + 1) = ChunkBytes(turns, start, k) + 1 + turns[k + 1]
    <3> HIDE <1>1
    <3> QED
      BY <1>2, <1>3, ChunkBytesMore
  <2> QED
    BY <2>1, <2>2
<1>8. ChunkBytes(turns, k, k + 1) = len
  BY <1>3, ChunkBytesMore
<1>9. start < k => (cut <=> ~fits(start, k + 1))
  <2>1. cut <=> /\ k - start > 0
                /\ k - start >= options.max_turns \/ acc.bytes + 1 + len > options.max_bytes
    BY <1>1 DEF cut, Cuts
  <2>2. fits(start, k + 1) <=> /\ (k + 1) - start <= options.max_turns
                               /\ ChunkBytes(turns, start, k + 1) <= options.max_bytes
    BY DEF Fits
  <2> SUFFICES ASSUME start < k PROVE cut <=> ~fits(start, k + 1)
    OBVIOUS
  <2>3. k - start > 0
    <3>1. \A x, y \in Nat : x < y => y - x > 0
      OBVIOUS
    <3> QED
      BY <1>2, <1>3, <3>1
  <2>4. (k - start >= options.max_turns) <=> ~((k + 1) - start <= options.max_turns)
    <3>1. \A x, y, z \in Nat : (y - x >= z) <=> ~((y + 1) - x <= z)
      OBVIOUS
    <3> QED
      BY <1>2, <1>3, <3>1
  <2>5. acc.bytes + 1 + len \in Int
    BY <1>2, <1>4
  <2>6. (acc.bytes + 1 + len > options.max_bytes) <=>
        ~(ChunkBytes(turns, start, k + 1) <= options.max_bytes)
    <3>1. \A x \in Int, y \in Nat : x > y <=> ~(x <= y)
      OBVIOUS
    <3> QED
      BY <1>2, <1>7, <2>5, <3>1
  <2> HIDE DEF fits
  <2> QED
    BY <2>1, <2>2, <2>3, <2>4, <2>6
<1>10. cut => start < k
  BY <1>1, <1>2, <1>3 DEF cut, Cuts
<1>11. CASE cut
  <2>1. start < k /\ ~fits(start, k + 1)
    BY <1>9, <1>10, <1>11
  <2>2. CutInto(turns, options, Append(closed, <<start, k>>), k)
    BY <1>1, <1>3, <2>1, CutMore
  <2>3. Len(Append(closed, <<start, k>>)) > 0 /\
        Append(closed, <<start, k>>)[Len(Append(closed, <<start, k>>))] = <<start, k>>
    <3>1. <<start, k>> \in Nat \X Nat /\ Len(closed) \in Nat
      BY <1>2, <1>3
    <3>2. /\ Len(Append(closed, <<start, k>>)) = Len(closed) + 1
          /\ Append(closed, <<start, k>>)[Len(closed) + 1] = <<start, k>>
      BY <1>2, <3>1, AppendProperties
    <3> QED
      BY <3>1, <3>2
  <2>4. new.start = k /\ new.closed = Append(closed, <<start, k>>) /\ new.bytes = len
    BY <1>6, <1>11
  <2>5. ~fits(new.closed[Len(new.closed)][1], k + 1)
    <3>1. new.closed[Len(new.closed)][1] = start
      BY <2>3, <2>4
    <3> QED
      BY <2>1, <3>1
  <2>6. k < k + 1 /\ k <= k + 1 /\ k # k + 1
    BY <1>3
  <2> QED
    BY <1>6, <1>8, <2>2, <2>4, <2>5, <2>6 DEF LoopOk
<1>12. CASE ~cut
  <2>1. new.start = start /\ new.closed = closed
    BY <1>6, <1>12
  <2>2. new.bytes = ChunkBytes(turns, start, k + 1)
    <3>1. CASE start = k
      <4>1. new.bytes = acc.bytes + len /\ acc.bytes = 0
        BY <1>1, <1>6, <1>12, <3>1
      <4> QED
        BY <1>4, <1>8, <3>1, <4>1
    <3>2. CASE start < k
      <4>1. new.bytes = acc.bytes + 1 + len
        BY <1>2, <1>3, <1>6, <1>12, <3>2
      <4> QED
        BY <1>7, <3>2, <4>1
    <3> QED
      BY <1>1, <1>2, <1>3, <3>1, <3>2
  <2>3. fits(start, k + 1) \/ k + 1 = start + 1
    <3>1. start < k \/ start = k
      BY <1>1, <1>2, <1>3
    <3> QED
      BY <1>9, <1>12, <3>1
  <2>4. start < k + 1 /\ start <= k + 1 /\ start # k + 1
    <3>1. \A x, y \in Nat : x <= y => x < y + 1 /\ x <= y + 1 /\ x # y + 1
      OBVIOUS
    <3>2. start \in Nat /\ k \in Nat /\ start <= k
      BY <1>1, <1>2, <1>3
    <3> QED
      BY <3>1, <3>2
  <2>5. CutInto(turns, options, new.closed, new.start) /\
        (Len(new.closed) > 0 => ~fits(new.closed[Len(new.closed)][1], new.start + 1))
    BY <1>1, <2>1
  <2> QED
    BY <1>6, <2>1, <2>2, <2>3, <2>4, <2>5 DEF LoopOk
<1> QED
  BY <1>11, <1>12

\* All turns are in the chunks of a session.
LEMMA ChunksCut ==
    ASSUME NEW turns \in Seq(Nat), Len(turns) > 0, NEW options \in [max_turns : Nat, max_bytes : Nat]
    PROVE  CutInto(turns, options, Chunks(turns, options), Len(turns))
<1> DEFINE n == Len(turns)
<1>1. n \in Nat /\ n > 0
  OBVIOUS
<1>. PICK f : /\ f[0] = NoChunks
              /\ \A k \in 1 .. n : f[k] = AddTurn(f[k - 1], turns[k], options)
              /\ Chunks(turns, options) = (IF Lines(f[n]) = 0 THEN f[n] ELSE CloseChunk(f[n])).closed
  BY ChunkSteps
<1> DEFINE T == {k \in 0 .. n : LoopOk(turns, options, f[k], k)}
<1>2. 0 \in T
  <2>1. NoChunks \in Loop /\ NoChunks.seen = 0 /\ NoChunks.start = 0 /\ NoChunks.bytes = 0 /\ NoChunks.closed = <<>>
    BY DEF NoChunks, Loop
  <2>2. CutInto(turns, options, <<>>, 0)
    <3>1. Len(<<>>) = 0 /\ <<>> \in Seq(Nat \X Nat) /\ 0 \in 0 .. Len(turns) /\ 1 .. 0 = {}
      BY <1>1
    <3> QED
      BY <3>1 DEF CutInto
  <2>3. LoopOk(turns, options, NoChunks, 0)
    BY <2>1, <2>2 DEF LoopOk
  <2> QED
    BY <1>1, <2>3
<1>3. ASSUME NEW k \in 0 .. n - 1, k \in T PROVE k + 1 \in T
  <2>1. k + 1 \in 1 .. n /\ k + 1 \in 0 .. n /\ (k + 1) - 1 = k
    BY <1>1
  <2>2. f[k + 1] = AddTurn(f[k], turns[k + 1], options)
    BY <2>1
  <2>3. LoopOk(turns, options, f[k], k)
    BY <1>3
  <2>4. LoopOk(turns, options, f[k + 1], k + 1)
    BY <2>2, <2>3, LoopNext
  <2> QED
    BY <2>1, <2>4
<1>4. LoopOk(turns, options, f[n], n)
  <2>1. \A k \in 0 .. n : k \in T
    <3> HIDE DEF T, n
    <3> QED
      BY <1>1, <1>2, <1>3, UpTo
  <2> HIDE DEF n
  <2> QED
    BY <1>1, <2>1
<1> DEFINE acc == f[n]
<1>5. /\ acc \in Loop /\ acc.seen = n /\ acc.start < n /\ CutInto(turns, options, acc.closed, acc.start)
      /\ Fits(turns, options, acc.start, n) \/ n = acc.start + 1
      /\ Len(acc.closed) > 0 =>
            ~Fits(turns, options, acc.closed[Len(acc.closed)][1], acc.start + 1)
  BY <1>1, <1>4 DEF LoopOk
<1> HIDE DEF acc
<1>6. Lines(acc) # 0
  BY <1>1, <1>5 DEF Lines, Loop
<1>7. Chunks(turns, options) = Append(acc.closed, <<acc.start, n>>)
  <2>1. Chunks(turns, options) = CloseChunk(acc).closed
    BY <1>6 DEF acc
  <2> QED
    BY <1>5, <2>1 DEF CloseChunk
<1>8. n \in 0 .. Len(turns)
  BY <1>1
<1> HIDE DEF n
<1>9. CutInto(turns, options, Append(acc.closed, <<acc.start, n>>), n)
  BY <1>5, <1>8, CutMore
<1> QED
  BY <1>7, <1>9 DEF n

\* The numbers 1, 2, ... n in order.
Counting(n) == [j \in 1 .. n |-> j]

LEMMA CountingMore ==
    ASSUME NEW a \in Nat, NEW m \in Nat
    PROVE  /\ Counting(a) \in Seq(Nat)
           /\ Counting(a) \o [j \in 1 .. m |-> a + j] = Counting(a + m)
<1> DEFINE more == [j \in 1 .. m |-> a + j]
           all == Counting(a) \o more
<1>1. /\ Counting(a) \in Seq(Nat) /\ Len(Counting(a)) = a /\ \A j \in 1 .. a : Counting(a)[j] = j
      /\ Counting(a + m) \in Seq(Nat) /\ Len(Counting(a + m)) = a + m
      /\ \A j \in 1 .. a + m : Counting(a + m)[j] = j
  BY DEF Counting
<1>2. more \in Seq(Nat) /\ Len(more) = m /\ \A j \in 1 .. m : more[j] = a + j
  OBVIOUS
<1> HIDE DEF more
<1>3. /\ all \in Seq(Nat) /\ Len(all) = a + m
      /\ \A j \in 1 .. a + m : all[j] = IF j <= a THEN Counting(a)[j] ELSE more[j - a]
  <2> DEFINE first == Counting(a)
  <2>1. /\ first \o more \in Seq(Nat) /\ Len(first \o more) = Len(first) + Len(more)
        /\ \A j \in 1 .. Len(first) + Len(more) : (first \o more)[j] =
               IF j <= Len(first) THEN first[j] ELSE more[j - Len(first)]
    <3>1. first \in Seq(Nat) /\ more \in Seq(Nat)
      BY <1>1, <1>2
    <3> HIDE DEF first
    <3> QED
      BY <3>1, ConcatProperties
  <2>2. Len(first) = a /\ Len(more) = m
    BY <1>1, <1>2
  <2> HIDE DEF first
  <2>3. first \o more = all
    BY DEF first
  <2> QED
    BY <2>1, <2>2, <2>3 DEF first
<1>4. ASSUME NEW j \in 1 .. a + m PROVE all[j] = j
  <2>1. CASE j <= a
    <3>1. j \in 1 .. a
      BY <2>1
    <3> QED
      BY <1>1, <1>3, <2>1, <3>1
  <2>2. CASE ~(j <= a)
    <3>1. j - a \in 1 .. m /\ a + (j - a) = j
      BY <2>2
    <3>2. all[j] = more[j - a]
      BY <1>3, <2>2
    <3> QED
      BY <1>2, <3>1, <3>2
  <2> QED
    BY <2>1, <2>2
<1> HIDE DEF all
<1>5. all = Counting(a + m)
  BY <1>1, <1>3, <1>4, SeqEqual
<1> QED
  BY <1>1, <1>5 DEF all, more

LEMMA CountingPrefix ==
    ASSUME NEW a \in Nat, NEW n \in Nat, a <= n
    PROVE  IsPrefix(Counting(a), Counting(n)) /\ Len(Counting(a)) = a /\ Len(Counting(n)) = n
<1>1. /\ Len(Counting(a)) = a /\ \A j \in 1 .. a : Counting(a)[j] = j
      /\ Len(Counting(n)) = n /\ \A j \in 1 .. n : Counting(n)[j] = j
  BY DEF Counting
<1>2. \A j \in 1 .. a : j \in 1 .. n /\ j \in Nat
  OBVIOUS
<1>3. SubSeq(Counting(a), 1, a) = SubSeq(Counting(n), 1, a)
  <2>1. /\ \A j \in 1 .. a : Counting(a)[j] \in Nat
        /\ \A j \in 1 .. a : Counting(n)[j] \in Nat
    BY <1>1, <1>2
  <2> DEFINE s == SubSeq(Counting(a), 1, a)
             t == SubSeq(Counting(n), 1, a)
  <2>2. /\ s \in Seq(Nat) /\ Len(s) = IF 1 <= a THEN a - 1 + 1 ELSE 0
        /\ \A j \in 1 .. a - 1 + 1 : s[j] = Counting(a)[1 + j - 1]
    BY <2>1, SubSeqProperties
  <2>3. /\ t \in Seq(Nat) /\ Len(t) = IF 1 <= a THEN a - 1 + 1 ELSE 0
        /\ \A j \in 1 .. a - 1 + 1 : t[j] = Counting(n)[1 + j - 1]
    BY <2>1, SubSeqProperties
  <2> HIDE DEF s, t
  <2>4. Len(s) = a /\ Len(t) = a
    BY <2>2, <2>3
  <2>5. \A j \in 1 .. a : s[j] = t[j]
    <3> SUFFICES ASSUME NEW j \in 1 .. a PROVE s[j] = t[j]
      OBVIOUS
    <3>1. j \in 1 .. a - 1 + 1 /\ 1 + j - 1 = j
      OBVIOUS
    <3> QED
      BY <1>1, <1>2, <2>2, <2>3, <3>1
  <2>6. s = t
    BY <2>2, <2>3, <2>4, <2>5, SeqEqual
  <2> QED
    BY <2>6 DEF s, t
<1> QED
  BY <1>1, <1>3 DEF IsPrefix

\* The turns of chunks that follow each other.
LEMMA TurnsOfCut ==
    ASSUME NEW turns \in Seq(Nat), NEW options, NEW chunks, NEW end,
           CutInto(turns, options, chunks, end)
    PROVE  TurnsIn(chunks) = Counting(end)
<1> DEFINE n == Len(chunks)
           upto == [k \in 0 .. n |-> IF k = 0 THEN 0 ELSE chunks[k][2]]
           part(k) == [j \in 1 .. chunks[k][2] - chunks[k][1] |-> chunks[k][1] + j]
           parts == [k \in DOMAIN chunks |-> part(k)]
<1>1. /\ n \in Nat /\ DOMAIN chunks = 1 .. n /\ end = upto[n]
      /\ \A k \in 1 .. n : chunks[k][1] \in Nat /\ chunks[k][2] \in Nat
  BY DEF CutInto
<1>2. \A k \in 0 .. n : upto[k] \in Nat
  BY <1>1
<1>3. ASSUME NEW k \in 1 .. n
      PROVE  chunks[k][1] = upto[k - 1] /\ chunks[k][2] = upto[k] /\ upto[k - 1] < upto[k]
  <2>1. /\ chunks[k][1] = IF k = 1 THEN 0 ELSE chunks[k - 1][2]
        /\ chunks[k][1] < chunks[k][2]
    BY DEF CutInto
  <2>2. k - 1 \in 0 .. n /\ k \in 0 .. n /\ k # 0 /\ (k - 1 = 0 <=> k = 1)
    BY <1>1
  <2>3. upto[k] = chunks[k][2] /\ upto[k - 1] = IF k = 1 THEN 0 ELSE chunks[k - 1][2]
    BY <2>2
  <2> QED
    BY <2>1, <2>3
<1>4. parts \in Seq(Seq(Nat)) /\ Len(parts) = n
  <2>1. ASSUME NEW k \in 1 .. n PROVE part(k) \in Seq(Nat)
    <3> DEFINE x == chunks[k][1]
               y == chunks[k][2]
    <3>1. x \in Nat /\ y \in Nat /\ x < y
      <4>1. x < y
        BY <1>3
      <4> QED
        BY <1>1, <4>1
    <3> HIDE DEF x, y
    <3>2. y - x \in Nat /\ \A j \in 1 .. y - x : x + j \in Nat
      BY <3>1
    <3>3. [j \in 1 .. y - x |-> x + j] \in Seq(Nat)
      BY <3>2
    <3> QED
      BY <3>3 DEF x, y
  <2> HIDE DEF part
  <2> QED
    BY <1>1, <2>1
<1>5. \A k \in 1 .. n : parts[k] = part(k)
  BY <1>1
<1> HIDE DEF n, upto, parts
<1>. PICK f : /\ f[0] = <<>> /\ FlattenSeq(parts) = f[n]
              /\ \A k \in 1 .. n : f[k] = f[k - 1] \o parts[k]
  BY <1>4, FlattenSteps
<1> DEFINE T == {k \in 0 .. n : f[k] = Counting(upto[k])}
<1>6. 0 \in T
  <2>1. upto[0] = 0 /\ 0 \in 0 .. n
    BY <1>1 DEF upto
  <2>2. Counting(0) = <<>>
    BY DEF Counting
  <2> QED
    BY <2>1, <2>2
<1>7. ASSUME NEW k \in 0 .. n - 1, k \in T PROVE k + 1 \in T
  <2>1. k + 1 \in 1 .. n /\ k + 1 \in 0 .. n /\ (k + 1) - 1 = k /\ k \in 0 .. n
    BY <1>1
  <2> DEFINE a == upto[k]
             b == upto[k + 1]
             m == b - a
  <2>2. a \in Nat /\ b \in Nat /\ a < b /\ chunks[k + 1][1] = a /\ chunks[k + 1][2] = b
    <3> HIDE DEF T
    <3> QED
      BY <1>2, <1>3, <2>1
  <2>3. parts[k + 1] = [j \in 1 .. m |-> a + j]
    BY <1>5, <2>1, <2>2
  <2>4. f[k + 1] = Counting(a) \o [j \in 1 .. m |-> a + j]
    BY <1>7, <2>1, <2>3
  <2> HIDE DEF a, b
  <2>5. m \in Nat /\ a + m = b
    BY <2>2
  <2>6. f[k + 1] = Counting(a + m)
    <3> HIDE DEF m, T
    <3> QED
      BY <2>2, <2>4, <2>5, CountingMore
  <2> QED
    BY <2>1, <2>5, <2>6 DEF b
<1>8. f[n] = Counting(upto[n])
  <2> HIDE DEF T
  <2>1. \A k \in 0 .. n : k \in T
    BY <1>1, <1>6, <1>7, UpTo
  <2> QED
    BY <1>1, <2>1 DEF T
<1>9. TurnsIn(chunks) = FlattenSeq(parts)
  BY DEF TurnsIn, parts
<1> QED
  BY <1>1, <1>8, <1>9

\* The first chunks of a session.
LEMMA PrefixCut ==
    ASSUME NEW turns \in Seq(Nat), NEW options, NEW chunks, CutInto(turns, options, chunks, Len(turns)),
           Len(turns) > 0, NEW kept \in 0 .. Len(chunks)
    PROVE  \E end \in Nat : /\ CutInto(turns, options, SubSeq(chunks, 1, kept), end)
                            /\ end <= Len(turns) /\ (end = Len(turns) <=> kept = Len(chunks))
<1> DEFINE n == Len(chunks)
           end == IF kept = 0 THEN 0 ELSE chunks[kept][2]
           some == SubSeq(chunks, 1, kept)
<1>1. /\ chunks \in Seq(Nat \X Nat) /\ n \in Nat /\ DOMAIN chunks = 1 .. n
      /\ Len(turns) = IF n = 0 THEN 0 ELSE chunks[n][2]
      /\ \A k \in 1 .. n : chunks[k] \in Nat \X Nat
  BY DEF CutInto
<1>2. \A k \in 1 .. n :
          /\ chunks[k][1] = IF k = 1 THEN 0 ELSE chunks[k - 1][2]
          /\ chunks[k][1] < chunks[k][2] /\ chunks[k][2] <= Len(turns)
          /\ k < n => chunks[k][2] < Len(turns)
          /\ Fits(turns, options, chunks[k][1], chunks[k][2]) \/ chunks[k][2] = chunks[k][1] + 1
          /\ k > 1 => ~Fits(turns, options, chunks[k - 1][1], chunks[k][1] + 1)
  BY DEF CutInto
<1>3. kept \in Nat /\ kept <= n /\ \A k \in 1 .. kept : k \in 1 .. n
  BY <1>1
<1>4. /\ some \in Seq(Nat \X Nat) /\ Len(some) = kept /\ \A k \in 1 .. kept : some[k] = chunks[k]
  <2>1. /\ some \in Seq(Nat \X Nat) /\ Len(some) = IF 1 <= kept THEN kept - 1 + 1 ELSE 0
        /\ \A k \in 1 .. kept - 1 + 1 : some[k] = chunks[1 + k - 1]
    BY <1>1, <1>3, SubSeqProperties
  <2>2. \A k \in 1 .. kept : k \in 1 .. kept - 1 + 1 /\ 1 + k - 1 = k
    BY <1>3
  <2> HIDE DEF some
  <2>3. \A k \in 1 .. kept : some[k] = chunks[k]
    BY <2>1, <2>2
  <2> QED
    BY <1>3, <2>1, <2>3
<1> HIDE DEF some, n
<1>5. end \in Nat /\ end <= Len(turns) /\ (end = Len(turns) <=> kept = n)
  <2>1. CASE kept = 0
    BY <1>1, <2>1
  <2>2. CASE kept # 0
    <3>1. kept \in 1 .. n /\ chunks[kept][2] \in Nat
      BY <1>1, <1>3, <2>2
    <3>2. chunks[kept][2] <= Len(turns) /\ (kept < n => chunks[kept][2] < Len(turns))
      BY <1>2, <3>1
    <3>3. kept = n => chunks[kept][2] = Len(turns)
      BY <1>1, <2>2
    <3>4. kept = n \/ kept < n
      BY <1>1, <1>3
    <3> QED
      BY <2>2, <3>1, <3>2, <3>3, <3>4
  <2> QED
    BY <2>1, <2>2
<1>6. ASSUME NEW k \in 1 .. kept PROVE chunks[k][2] <= end /\ (k < kept => chunks[k][2] < end)
  <2> DEFINE T == {i \in 0 .. kept - k : LET j == k + i IN
                       chunks[k][2] <= chunks[j][2] /\ (i > 0 => chunks[k][2] < chunks[j][2])}
  <2>1. k \in Nat /\ k \in 1 .. n /\ chunks[k][2] \in Nat /\ kept - k \in Nat
    BY <1>1, <1>3
  <2>2. 0 \in T
    <3>1. 0 \in 0 .. kept - k /\ k + 0 = k /\ ~(0 > 0) /\ chunks[k][2] <= chunks[k][2]
      BY <2>1
    <3> QED
      BY <3>1
  <2>3. ASSUME NEW i \in 0 .. (kept - k) - 1, i \in T PROVE i + 1 \in T
    <3>1. /\ i + 1 \in 0 .. kept - k /\ k + (i + 1) = (k + i) + 1 /\ k + i \in 1 .. n
          /\ (k + i) + 1 \in 1 .. n /\ (k + i) + 1 # 1 /\ ((k + i) + 1) - 1 = k + i
      BY <1>3, <2>1
    <3>2. chunks[(k + i) + 1][1] = chunks[k + i][2] /\ chunks[(k + i) + 1][1] < chunks[(k + i) + 1][2]
      BY <1>2, <3>1
    <3>3. chunks[k + i][2] \in Nat /\ chunks[(k + i) + 1][2] \in Nat
      BY <1>1, <3>1
    <3>4. chunks[k][2] <= chunks[k + i][2]
      BY <2>3
    <3>5. chunks[k][2] < chunks[k + (i + 1)][2] /\ chunks[k][2] <= chunks[k + (i + 1)][2]
      <4>1. \A x, y, z \in Nat : x <= y /\ y < z => x < z /\ x <= z
        OBVIOUS
      <4> HIDE DEF T
      <4> QED
        BY <2>1, <3>1, <3>2, <3>3, <3>4, <4>1
    <3> QED
      BY <3>1, <3>5
  <2>4. \A i \in 0 .. kept - k : i \in T
    <3> HIDE DEF T
    <3> QED
      BY <2>1, <2>2, <2>3, UpTo
  <2>5. kept - k \in 0 .. kept - k /\ k + (kept - k) = kept /\ (k < kept => kept - k > 0) /\ kept # 0
    BY <1>3, <2>1
  <2>6. kept - k \in T
    BY <2>4, <2>5
  <2>7. chunks[k][2] <= chunks[kept][2] /\ (kept - k > 0 => chunks[k][2] < chunks[kept][2])
    BY <2>5, <2>6
  <2> QED
    BY <2>5, <2>7
<1> HIDE DEF end
<1>7. ASSUME NEW k \in 1 .. kept
      PROVE  /\ some[k][1] = IF k = 1 THEN 0 ELSE some[k - 1][2]
             /\ some[k][1] < some[k][2]
             /\ Fits(turns, options, some[k][1], some[k][2]) \/ some[k][2] = some[k][1] + 1
             /\ k > 1 => ~Fits(turns, options, some[k - 1][1], some[k][1] + 1)
  <2> DEFINE c == chunks[k]
  <2>1. /\ c[1] = IF k = 1 THEN 0 ELSE chunks[k - 1][2]
        /\ c[1] < c[2]
        /\ Fits(turns, options, c[1], c[2]) \/ c[2] = c[1] + 1
        /\ k > 1 => ~Fits(turns, options, chunks[k - 1][1], c[1] + 1)
    BY <1>2, <1>3
  <2>2. k > 1 => k - 1 \in 1 .. kept
    BY <1>3
  <2>3. some[k] = c /\ (k > 1 => some[k - 1] = chunks[k - 1]) /\ (k # 1 => k > 1)
    BY <1>3, <1>4, <2>2
  <2> HIDE DEF c
  <2> QED
    BY <2>1, <2>3
<1>8. end = IF Len(some) = 0 THEN 0 ELSE some[Len(some)][2]
  <2>1. kept # 0 => kept \in 1 .. kept
    BY <1>3
  <2> QED
    BY <1>4, <2>1 DEF end
<1>9. CutInto(turns, options, some, end)
  <2>1. \A k \in 1 .. kept : some[k][2] <= end /\ (k < kept => some[k][2] < end)
    BY <1>4, <1>6
  <2>2. end \in 0 .. Len(turns)
    BY <1>5
  <2> QED
    BY <1>4, <1>7, <1>8, <2>1, <2>2 DEF CutInto
<1> QED
  BY <1>5, <1>9 DEF some, n

\* What a session leaves.
LEMMA SessionKept ==
    ASSUME NEW s \in Sessions, RememberSession(s)
    PROVE  SessionIsWhole'
<1> DEFINE turns == s.turns
           options == s.options
           chunks == ChunksOf[s]
<1>1. /\ turns \in Seq(Nat) /\ options \in [max_turns : Nat, max_bytes : Nat]
      /\ s \in DOMAIN ChunksOf
  BY SessionsAssumption DEF RememberSession
<1>2. Len(turns) \in Nat /\ Len(turns) > 0 /\ chunks = Chunks(turns, options)
  <2>1. ~Rejected(turns, options) /\ chunks = Chunks(turns, options)
    BY <1>1 DEF ChunksOf
  <2>2. turns # <<>>
    BY <2>1 DEF Rejected
  <2> QED
    BY <1>1, <2>1, <2>2, EmptySeq
<1>3. PICK kept \in 0 .. Len(chunks) :
          session' = [of |-> "turns", turns |-> turns, options |-> options,
                      ok |-> kept = Len(chunks), texts |-> SubSeq(chunks, 1, kept)]
  BY DEF RememberSession
<1> HIDE DEF turns, options, chunks
<1>4. CutInto(turns, options, chunks, Len(turns))
  BY <1>1, <1>2, ChunksCut
<1>. PICK end \in Nat : /\ CutInto(turns, options, SubSeq(chunks, 1, kept), end)
                        /\ end <= Len(turns) /\ (end = Len(turns) <=> kept = Len(chunks))
  BY <1>1, <1>2, <1>4, PrefixCut
<1> DEFINE some == SubSeq(chunks, 1, kept)
<1>5. /\ session'.turns = turns /\ session'.options = options /\ session'.texts = some
      /\ session'.ok <=> kept = Len(chunks)
  BY <1>3
<1>6. TurnsIn(some) = Counting(end) /\ [j \in DOMAIN turns |-> j] = Counting(Len(turns))
  <2>1. TurnsIn(some) = Counting(end)
    BY <1>1, TurnsOfCut
  <2>2. DOMAIN turns = 1 .. Len(turns)
    BY <1>1
  <2> QED
    BY <2>1, <2>2 DEF Counting
<1>7. /\ IsPrefix(TurnsIn(some), [j \in DOMAIN turns |-> j]) /\ Len(TurnsIn(some)) = end
  BY <1>2, <1>6, CountingPrefix
<1>8. DOMAIN some = 1 .. Len(some)
  BY DEF CutInto
<1>9. \A k \in 1 .. Len(some) :
          /\ Fits(turns, options, some[k][1], some[k][2]) \/ some[k][2] = some[k][1] + 1
          /\ k > 1 => ~Fits(turns, options, some[k - 1][1], some[k][1] + 1)
  BY DEF CutInto
<1> HIDE DEF some
<1> QED
  BY <1>5, <1>7, <1>8, <1>9 DEF SessionIsWhole

-----------------------------------------------------------------------------
(* Sections.                                                               *)

Section == [head : Nat, lines : Seq(Nat)]

\* The state of the loop over the lines of a file.
Reading == [closed : Seq(Section), head : Nat, body : Seq(Nat)]

\* What the end of a section makes of it.
Content(acc) == IF acc.body = <<>> /\ acc.head # 0 THEN <<acc.head>> ELSE acc.body

LEMMA CloseIs ==
    ASSUME NEW acc \in Reading, NEW new, new = CloseSection(acc).closed
    PROVE  /\ Content(acc) \in Seq(Nat) /\ new \in Seq(Section)
           /\ Content(acc) = <<>> => new = acc.closed
           /\ Content(acc) # <<>> =>
                 new = Append(acc.closed, [head |-> acc.head, lines |-> Content(acc)])
<1>1. acc.closed \in Seq(Section) /\ acc.head \in Nat /\ acc.body \in Seq(Nat)
  BY DEF Reading
<1>2. Content(acc) \in Seq(Nat)
  <2>1. <<acc.head>> \in Seq(Nat)
    BY <1>1
  <2> QED
    BY <1>1, <2>1 DEF Content
<1>3. CloseSection(acc).closed = IF Content(acc) = <<>> THEN acc.closed
                                 ELSE Append(acc.closed, [head |-> acc.head, lines |-> Content(acc)])
  BY DEF CloseSection, Content
<1>4. [head |-> acc.head, lines |-> Content(acc)] \in Section
  BY <1>1, <1>2 DEF Section
<1>5. Append(acc.closed, [head |-> acc.head, lines |-> Content(acc)]) \in Seq(Section)
  BY <1>1, <1>4, AppendProperties
<1> QED
  BY <1>1, <1>2, <1>3, <1>5

LEMMA AddLineTypes ==
    ASSUME NEW acc \in Reading, NEW line \in Nat, NEW kind \in LineKinds
    PROVE  AddMarkdownLine(acc, line, kind) \in Reading
<1>1. acc.closed \in Seq(Section) /\ acc.head \in Nat /\ acc.body \in Seq(Nat)
  BY DEF Reading
<1>2. CASE kind = "head"
  <2>. PICK closed : closed = CloseSection(acc).closed
    OBVIOUS
  <2>1. closed \in Seq(Section) /\ <<>> \in Seq(Nat)
    <3>1. closed \in Seq(Section)
      BY CloseIs
    <3> QED
      BY <3>1
  <2>2. AddMarkdownLine(acc, line, kind) = [closed |-> closed, head |-> line, body |-> <<>>]
    BY <1>2 DEF AddMarkdownLine
  <2> QED
    BY <2>1, <2>2 DEF Reading
<1>3. CASE kind = "text"
  <2>1. Append(acc.body, line) \in Seq(Nat)
    BY <1>1, AppendProperties
  <2>2. AddMarkdownLine(acc, line, kind) = [closed |-> acc.closed, head |-> acc.head, body |-> Append(acc.body, line)]
    BY <1>3 DEF AddMarkdownLine
  <2> QED
    BY <1>1, <2>1, <2>2 DEF Reading
<1>4. CASE kind = "blank"
  BY <1>4 DEF AddMarkdownLine
<1> QED
  BY <1>2, <1>3, <1>4 DEF LineKinds

\* The sections of a file, line by line.
LEMMA SectionSteps ==
    ASSUME NEW file \in Seq(LineKinds)
    PROVE  \E f : /\ f[0] = NoSections
                  /\ \A k \in 1 .. Len(file) : f[k] = AddMarkdownLine(f[k - 1], k, file[k])
                  /\ Sections(file) = CloseSection(f[Len(file)]).closed
<1> DEFINE n == Len(file)
           U == Reading
           base == NoSections
           numbers == [i \in DOMAIN file |-> i]
           step(acc, i) == AddMarkdownLine(acc, i, file[i])
           G == [p \in U \X (1 .. n) |-> step(p[1], numbers[p[2]])]
           Solves(h) == h = [s \in SUBSET (1 .. n) |->
                                IF s = {} THEN base ELSE step(h[s \ {Max(s)}], numbers[Max(s)])]
           iter == CHOOSE h : Solves(h)
<1>1. /\ n \in Nat /\ DOMAIN file = 1 .. n /\ \A i \in 1 .. n : file[i] \in LineKinds
      /\ DOMAIN numbers = 1 .. n /\ \A i \in 1 .. n : numbers[i] = i
  OBVIOUS
<1> HIDE DEF numbers
<1>2. StepIn(G, U, n) /\ base \in U
  <2>1. ASSUME NEW p \in U \X (1 .. n) PROVE step(p[1], numbers[p[2]]) \in U
    <3>1. p[1] \in U /\ p[2] \in 1 .. n
      OBVIOUS
    <3>2. numbers[p[2]] = p[2] /\ p[2] \in Nat /\ file[p[2]] \in LineKinds
      BY <1>1, <3>1
    <3> HIDE DEF U, n
    <3>3. AddMarkdownLine(p[1], p[2], file[p[2]]) \in U
      BY <3>1, <3>2, AddLineTypes DEF U
    <3> QED
      BY <3>2, <3>3
  <2>2. base \in U
    BY DEF NoSections, Reading
  <2> HIDE DEF step
  <2> QED
    BY <2>1, <2>2 DEF StepIn
<1>. PICK f : FoldOf(f, U, base, n, G)
  <2> HIDE DEF U, G, n, base
  <2> QED
    BY <1>1, <1>2, FoldExists
<1>3. /\ f \in [SUBSET (1 .. n) -> U]
      /\ f = [s \in SUBSET (1 .. n) |-> IF s = {} THEN base ELSE G[<<f[s \ {Max(s)}], Max(s)>>]]
  BY DEF FoldOf
<1>4. ASSUME NEW s \in SUBSET (1 .. n), s # {}
      PROVE  G[<<f[s \ {Max(s)}], Max(s)>>] = step(f[s \ {Max(s)}], numbers[Max(s)])
  <2>1. Max(s) \in 1 .. n
    <3> HIDE DEF n
    <3> QED
      BY <1>1, <1>4, HasLargest
  <2>2. s \ {Max(s)} \in SUBSET (1 .. n)
    OBVIOUS
  <2> HIDE DEF U, step
  <2>3. <<f[s \ {Max(s)}], Max(s)>> \in U \X (1 .. n)
    BY <1>3, <2>1, <2>2
  <2> QED
    BY <2>3
<1>5. Solves(f)
  <2> HIDE DEF G, n, U, base, step
  <2> QED
    BY <1>3, <1>4
<1>6. Solves(iter)
  <2> HIDE DEF Solves
  <2> QED
    BY <1>5
<1> DEFINE all == FoldLeft(LAMBDA acc, i : AddMarkdownLine(acc, i, file[i]), NoSections,
                           [i \in DOMAIN file |-> i])
<1>7. all = iter[1 .. n]
  BY <1>1 DEF FoldLeft, MapThenFoldSet, numbers
<1>8. Sections(file) = CloseSection(all).closed
  BY DEF Sections
<1> HIDE DEF iter, all, base
<1> DEFINE g == [k \in 0 .. n |-> iter[1 .. k]]
<1>9. g[0] = base /\ g[n] = all
  <2>1. 1 .. 0 = {} /\ {} \in SUBSET (1 .. n) /\ 0 \in 0 .. n /\ n \in 0 .. n
    BY <1>1
  <2> HIDE DEF n
  <2> QED
    BY <1>6, <1>7, <2>1
<1>10. ASSUME NEW k \in 1 .. n PROVE g[k] = AddMarkdownLine(g[k - 1], k, file[k])
  <2> DEFINE w == 1 .. k
  <2>1. k \in Nat \ {0} /\ k \in 0 .. n /\ k - 1 \in 0 .. n /\ w \in SUBSET (1 .. n)
    BY <1>1
  <2>2. w # {} /\ Max(w) = k /\ w \ {k} = 1 .. k - 1
    BY <2>1, FirstNumbers
  <2> HIDE DEF w, n, step
  <2>3. iter[w] = step(iter[w \ {Max(w)}], numbers[Max(w)])
    BY <1>6, <2>1, <2>2
  <2>4. iter[w] = step(iter[1 .. k - 1], k)
    BY <1>1, <2>2, <2>3
  <2> QED
    BY <2>1, <2>4 DEF w, step
<1> HIDE DEF g
<1> QED
  BY <1>8, <1>9, <1>10 DEF base

\* The sections of the first m lines of a file: each has lines of text in
\* their order, or its heading, and what is above a line is its last heading;
\* no line of text and no heading is left out.
SectionOk(file, s, m) ==
    /\ s.head \in 0 .. m /\ (s.head # 0 => file[s.head] = "head")
    /\ s.lines # <<>>
    /\ \A i, j \in DOMAIN s.lines : i < j => s.lines[i] < s.lines[j]
    /\ \A i \in ToSet(s.lines) :
          /\ i \in 1 .. m
          /\ file[i] = "text" \/ (i = s.head /\ s.lines = <<i>>)
          /\ s.head <= i /\ \A h \in s.head + 1 .. i : file[h] # "head"

Before(s, r) ==
    s.head < r.head /\ \A i \in ToSet(s.lines), j \in ToSet(r.lines) : i < j

Covers(file, sections, m) ==
    \A i \in 1 .. m :
       /\ file[i] = "text" => \E a \in DOMAIN sections : i \in ToSet(sections[a].lines)
       /\ file[i] = "head" => \E a \in DOMAIN sections : sections[a].head = i

Listed(file, sections, m) ==
    /\ sections \in Seq(Section)
    /\ \A a \in DOMAIN sections : SectionOk(file, sections[a], m)
    /\ \A a, b \in DOMAIN sections : a < b => Before(sections[a], sections[b])
    /\ Covers(file, sections, m)

\* The lines of a section that is still open after k lines.
BodyOk(file, head, body, k) ==
    /\ \A i, j \in DOMAIN body : i < j => body[i] < body[j]
    /\ \A i \in ToSet(body) : i \in head + 1 .. k /\ file[i] = "text"
    /\ \A i \in head + 1 .. k : file[i] = "text" => i \in ToSet(body)
    /\ \A i \in head + 1 .. k : file[i] # "head"

ReadOk(file, acc, k) ==
    /\ acc \in Reading /\ acc.head \in 0 .. k
    /\ acc.head = 0 => acc.closed = <<>>
    /\ acc.head # 0 => file[acc.head] = "head" /\ Listed(file, acc.closed, acc.head - 1)
    /\ BodyOk(file, acc.head, acc.body, k)

\* The section that is open ends well.
LEMMA CloseListed ==
    ASSUME NEW file, NEW k \in Nat, NEW acc, ReadOk(file, acc, k)
    PROVE  Listed(file, CloseSection(acc).closed, k)
<1>. PICK new : new = CloseSection(acc).closed
  OBVIOUS
<1>. PICK head : head = acc.head
  OBVIOUS
<1>. PICK body : body = acc.body
  OBVIOUS
<1>. PICK closed : closed = acc.closed
  OBVIOUS
<1> DEFINE content == Content(acc)
<1>1. /\ acc \in Reading /\ head \in 0 .. k
      /\ head = 0 => closed = <<>>
      /\ head # 0 => file[head] = "head" /\ Listed(file, closed, head - 1)
      /\ BodyOk(file, head, body, k)
  BY DEF ReadOk
<1>2. closed \in Seq(Section) /\ head \in Nat /\ body \in Seq(Nat)
  BY <1>1 DEF Reading
<1>3. /\ content \in Seq(Nat) /\ new \in Seq(Section)
      /\ content = <<>> => new = closed
      /\ content # <<>> => new = Append(closed, [head |-> head, lines |-> content])
  BY <1>1, CloseIs
<1>4. content = IF body = <<>> /\ head # 0 THEN <<head>> ELSE body
  BY DEF Content
<1> HIDE DEF content
<1>5. CASE content = <<>>
  <2>1. head = 0 /\ body = <<>> /\ new = <<>>
    BY <1>1, <1>3, <1>4, <1>5
  <2>2. Covers(file, <<>>, k)
    <3>1. ToSet(body) = {}
      BY <2>1 DEF ToSet
    <3>2. \A i \in 1 .. k : file[i] # "text" /\ file[i] # "head"
      BY <1>1, <2>1, <3>1 DEF BodyOk
    <3> QED
      BY <3>2 DEF Covers
  <2>3. Listed(file, <<>>, k)
    BY <1>3, <2>1, <2>2 DEF Listed
  <2> QED
    BY <2>1, <2>3
<1>6. CASE content # <<>>
  <2>. PICK n : n = Len(closed)
    OBVIOUS
  <2>. PICK s : s = [head |-> head, lines |-> content]
    OBVIOUS
  <2>1. s.head = head /\ s.lines = content /\ s \in Section
    BY <1>2, <1>3 DEF Section
  <2>2. /\ n \in Nat /\ DOMAIN new = 1 .. n + 1 /\ new[n + 1] = s /\ DOMAIN closed = 1 .. n
        /\ \A a \in 1 .. n : new[a] = closed[a]
    <3>1. n \in Nat /\ DOMAIN closed = 1 .. n /\ new = Append(closed, s)
      BY <1>2, <1>3, <1>6
    <3>2. /\ new \in Seq(Section) /\ Len(new) = n + 1 /\ new[n + 1] = s
          /\ \A a \in 1 .. n : new[a] = closed[a]
      BY <1>2, <2>1, <3>1, AppendProperties
    <3> QED
      BY <3>1, <3>2
  <2>3. \A i \in ToSet(content) :
           /\ i \in 1 .. k /\ head <= i /\ \A h \in head + 1 .. i : file[h] # "head"
           /\ file[i] = "text" \/ (i = head /\ content = <<i>>)
    <3>1. CASE body = <<>> /\ head # 0
      <4>1. content = <<head>> /\ ToSet(content) = {head}
        BY <1>4, <3>1 DEF ToSet
      <4>2. head \in 1 .. k /\ head <= head /\ head + 1 .. head = {}
        BY <1>1, <1>2, <3>1
      <4> QED
        BY <4>1, <4>2
    <3>2. CASE ~(body = <<>> /\ head # 0)
      <4>1. content = body
        BY <1>4, <3>2
      <4>2. \A i \in ToSet(body) : i \in head + 1 .. k /\ file[i] = "text"
        BY <1>1 DEF BodyOk
      <4>3. \A h \in head + 1 .. k : file[h] # "head"
        BY <1>1 DEF BodyOk
      <4>4. \A i \in head + 1 .. k : i \in 1 .. k /\ head <= i /\ \A h \in head + 1 .. i : h \in head + 1 .. k
        BY <1>1, <1>2
      <4> QED
        BY <4>1, <4>2, <4>3, <4>4
    <3> QED
      BY <3>1, <3>2
  <2>4. \A i, j \in DOMAIN content : i < j => content[i] < content[j]
    <3>1. CASE body = <<>> /\ head # 0
      <4>1. content = <<head>>
        BY <1>4, <3>1
      <4>2. DOMAIN content = 1 .. 1
        BY <4>1
      <4> QED
        BY <4>2
    <3>2. CASE ~(body = <<>> /\ head # 0)
      BY <1>1, <1>4, <3>2 DEF BodyOk
    <3> QED
      BY <3>1, <3>2
  <2>5. SectionOk(file, s, k)
    BY <1>1, <1>6, <2>1, <2>3, <2>4 DEF SectionOk
  <2>6. ASSUME NEW a \in 1 .. n
        PROVE  SectionOk(file, closed[a], k) /\ Before(closed[a], s)
    <3>1. head # 0
      BY <1>1, <2>2
    <3>. PICK c : c = closed[a]
      OBVIOUS
    <3>2. SectionOk(file, c, head - 1)
      BY <1>1, <2>2, <3>1 DEF Listed
    <3>3. head - 1 \in Nat /\ head - 1 < k /\ head - 1 < head /\ head \in Nat
      BY <1>1, <1>2, <3>1
    <3>4. \A i \in 0 .. head - 1 : i \in 0 .. k /\ i < head /\ i \in Nat
      BY <3>3
    <3>5. \A i \in 1 .. head - 1 : i \in 1 .. k /\ i < head /\ i \in Nat
      BY <3>3
    <3>6. SectionOk(file, c, k)
      BY <3>2, <3>4, <3>5 DEF SectionOk
    <3>7. c.head < head /\ \A i \in ToSet(c.lines) : i < head /\ i \in Nat
      BY <3>2, <3>4, <3>5 DEF SectionOk
    <3>8. \A i \in ToSet(c.lines), j \in ToSet(content) : i < j
      <4>1. \A j \in ToSet(content) : j \in Nat /\ head <= j
        BY <2>3
      <4>2. \A x, y, z \in Nat : x < y /\ y <= z => x < z
        OBVIOUS
      <4> QED
        BY <3>3, <3>7, <4>1, <4>2
    <3> QED
      BY <2>1, <3>6, <3>7, <3>8 DEF Before
  <2>7. \A a \in DOMAIN new : SectionOk(file, new[a], k)
    <3>1. \A a \in 1 .. n + 1 : a \in 1 .. n \/ a = n + 1
      BY <2>2
    <3> QED
      BY <2>2, <2>5, <2>6, <3>1
  <2>8. ASSUME NEW a \in DOMAIN new, NEW b \in DOMAIN new, a < b PROVE Before(new[a], new[b])
    <3>1. a \in 1 .. n /\ (b \in 1 .. n \/ b = n + 1)
      BY <2>2, <2>8
    <3>2. CASE b = n + 1
      BY <2>2, <2>6, <3>1, <3>2
    <3>3. CASE b \in 1 .. n
      <4>1. head # 0
        BY <1>1, <2>2, <3>1
      <4>2. Before(closed[a], closed[b])
        BY <1>1, <2>2, <2>8, <3>1, <3>3, <4>1 DEF Listed
      <4> QED
        BY <2>2, <3>1, <3>3, <4>2
    <3> QED
      BY <3>1, <3>2, <3>3
  <2>9. Covers(file, new, k)
    <3> SUFFICES ASSUME NEW i \in 1 .. k
                 PROVE  /\ file[i] = "text" => \E a \in DOMAIN new : i \in ToSet(new[a].lines)
                        /\ file[i] = "head" => \E a \in DOMAIN new : new[a].head = i
      BY DEF Covers
    <3>1. n + 1 \in DOMAIN new /\ \A a \in 1 .. n : a \in DOMAIN new
      BY <2>2
    <3>2. CASE i < head
      <4>1. head # 0 /\ i \in 1 .. head - 1
        BY <1>2, <3>2
      <4>2. Covers(file, closed, head - 1)
        BY <1>1, <4>1 DEF Listed
      <4>3. /\ file[i] = "text" => \E a \in 1 .. n : i \in ToSet(closed[a].lines)
            /\ file[i] = "head" => \E a \in 1 .. n : closed[a].head = i
        BY <2>2, <4>1, <4>2 DEF Covers
      <4> QED
        BY <2>2, <3>1, <4>3
    <3>3. CASE i = head
      <4>1. head # 0 /\ file[i] = "head"
        BY <1>1, <3>3
      <4> QED
        BY <2>1, <2>2, <3>1, <3>3, <4>1
    <3>4. CASE i > head
      <4>1. i \in head + 1 .. k
        BY <1>2, <3>4
      <4>2. file[i] # "head" /\ (file[i] = "text" => i \in ToSet(body))
        BY <1>1, <4>1 DEF BodyOk
      <4>3. ToSet(body) \subseteq ToSet(content)
        <5>1. body = <<>> => ToSet(body) = {}
          BY DEF ToSet
        <5> QED
          BY <1>4, <5>1
      <4> QED
        BY <2>1, <2>2, <3>1, <4>2, <4>3
    <3> QED
      BY <1>2, <3>2, <3>3, <3>4
  <2>10. Listed(file, new, k)
    BY <1>3, <2>7, <2>8, <2>9 DEF Listed
  <2> QED
    BY <2>10
<1> QED
  BY <1>5, <1>6

\* One more line.
LEMMA ReadNext ==
    ASSUME NEW file \in Seq(LineKinds), NEW k \in 0 .. Len(file) - 1,
           NEW acc, ReadOk(file, acc, k)
    PROVE  ReadOk(file, AddMarkdownLine(acc, k + 1, file[k + 1]), k + 1)
<1>. PICK line : line = k + 1
  OBVIOUS
<1>. PICK kind : kind = file[line]
  OBVIOUS
<1>. PICK new : new = AddMarkdownLine(acc, line, kind)
  OBVIOUS
<1>. PICK head : head = acc.head
  OBVIOUS
<1>. PICK body : body = acc.body
  OBVIOUS
<1>1. k \in Nat /\ line \in Nat /\ line = k + 1 /\ kind \in LineKinds /\ line # 0 /\ line - 1 = k
  <2>1. k + 1 \in 1 .. Len(file)
    OBVIOUS
  <2> QED
    BY <2>1
<1>2. /\ acc \in Reading /\ head \in 0 .. k
      /\ head = 0 => acc.closed = <<>>
      /\ head # 0 => file[head] = "head" /\ Listed(file, acc.closed, head - 1)
      /\ BodyOk(file, head, body, k)
  BY DEF ReadOk
<1>3. new \in Reading /\ body \in Seq(Nat) /\ head \in Nat
  BY <1>1, <1>2, AddLineTypes DEF Reading
<1>4. head \in 0 .. line /\ \A i \in head + 1 .. line : i \in head + 1 .. k \/ i = line
  BY <1>1, <1>2
<1>5. CASE kind = "head"
  <2>1. new.closed = CloseSection(acc).closed /\ new.head = line /\ new.body = <<>>
    BY <1>5 DEF AddMarkdownLine
  <2>2. Listed(file, new.closed, line - 1)
    BY <1>1, <2>1, CloseListed
  <2>3. BodyOk(file, line, <<>>, line)
    <3>1. line + 1 .. line = {} /\ DOMAIN <<>> = {} /\ ToSet(<<>>) = {}
      BY <1>1 DEF ToSet
    <3> QED
      BY <3>1 DEF BodyOk
  <2>4. line \in 0 .. line
    BY <1>1
  <2> QED
    BY <1>1, <1>3, <1>5, <2>1, <2>2, <2>3, <2>4 DEF ReadOk
<1>6. CASE kind = "text"
  <2>1. new.closed = acc.closed /\ new.head = head /\ new.body = Append(body, line)
    BY <1>6 DEF AddMarkdownLine
  <2>. PICK more : more = Append(body, line)
    OBVIOUS
  <2>. PICK m : m = Len(body)
    OBVIOUS
  <2>2. /\ m \in Nat /\ DOMAIN body = 1 .. m /\ DOMAIN more = 1 .. m + 1 /\ more[m + 1] = line
        /\ \A i \in 1 .. m : more[i] = body[i]
    <3>1. m \in Nat /\ DOMAIN body = 1 .. m
      BY <1>3
    <3>2. /\ more \in Seq(Nat) /\ Len(more) = m + 1 /\ more[m + 1] = line
          /\ \A i \in 1 .. m : more[i] = body[i]
      BY <1>1, <1>3, <3>1, AppendProperties
    <3> QED
      BY <3>1, <3>2
  <2>3. \A i \in 1 .. m + 1 : i \in 1 .. m \/ i = m + 1
    BY <2>2
  <2>4. ToSet(more) = ToSet(body) \cup {line}
    <3>1. m + 1 \in 1 .. m + 1 /\ \A i \in 1 .. m : i \in 1 .. m + 1
      BY <2>2
    <3> QED
      BY <2>2, <2>3, <3>1 DEF ToSet
  <2>5. \A i \in ToSet(body) : i \in head + 1 .. k /\ file[i] = "text"
    BY <1>2 DEF BodyOk
  <2>6. \A i \in head + 1 .. k : i < line /\ i \in head + 1 .. line
    BY <1>1, <1>2
  <2>7. ASSUME NEW i \in DOMAIN more, NEW j \in DOMAIN more, i < j PROVE more[i] < more[j]
    <3>1. i \in 1 .. m /\ (j \in 1 .. m \/ j = m + 1)
      BY <2>2, <2>7
    <3>2. CASE j \in 1 .. m
      <4>1. body[i] < body[j]
        BY <1>2, <2>2, <2>7, <3>1, <3>2 DEF BodyOk
      <4> QED
        BY <2>2, <3>1, <3>2, <4>1
    <3>3. CASE j = m + 1
      <4>1. body[i] \in ToSet(body)
        BY <2>2, <3>1 DEF ToSet
      <4>2. body[i] < line
        BY <2>5, <2>6, <4>1
      <4> QED
        BY <2>2, <3>1, <3>3, <4>2
    <3> QED
      BY <3>1, <3>2, <3>3
  <2>8. line \in head + 1 .. line
    BY <1>1, <1>2
  <2>9. \A i \in ToSet(more) : i \in head + 1 .. line /\ file[i] = "text"
    BY <1>6, <2>4, <2>5, <2>6, <2>8
  <2>10. \A i \in head + 1 .. line : (file[i] = "text" => i \in ToSet(more)) /\ file[i] # "head"
    <3>1. \A i \in head + 1 .. k : (file[i] = "text" => i \in ToSet(body)) /\ file[i] # "head"
      BY <1>2 DEF BodyOk
    <3> QED
      BY <1>4, <1>6, <2>4, <3>1
  <2>11. BodyOk(file, head, more, line)
    BY <2>7, <2>9, <2>10 DEF BodyOk
  <2> QED
    BY <1>1, <1>2, <1>3, <1>4, <2>1, <2>11 DEF ReadOk
<1>7. CASE kind = "blank"
  <2>1. new = acc
    BY <1>7 DEF AddMarkdownLine
  <2>2. BodyOk(file, head, body, line)
    <3>1. \A i \in head + 1 .. k : i \in head + 1 .. line
      BY <1>1, <1>2
    <3>2. file[line] # "text" /\ file[line] # "head"
      BY <1>7
    <3> QED
      BY <1>2, <1>4, <3>1, <3>2 DEF BodyOk
  <2> QED
    BY <1>1, <1>2, <1>4, <2>1, <2>2 DEF ReadOk
<1> QED
  BY <1>1, <1>5, <1>6, <1>7 DEF LineKinds

LEMMA SectionsListed ==
    ASSUME NEW file \in Seq(LineKinds)
    PROVE  Listed(file, Sections(file), Len(file))
<1> DEFINE n == Len(file)
<1>1. n \in Nat
  OBVIOUS
<1>. PICK f : /\ f[0] = NoSections
              /\ \A k \in 1 .. n : f[k] = AddMarkdownLine(f[k - 1], k, file[k])
              /\ Sections(file) = CloseSection(f[n]).closed
  BY SectionSteps
<1> DEFINE T == {k \in 0 .. n : ReadOk(file, f[k], k)}
<1>2. 0 \in T
  <2>1. NoSections \in Reading /\ NoSections.head = 0 /\ NoSections.closed = <<>> /\ NoSections.body = <<>>
    BY DEF NoSections, Reading
  <2>2. BodyOk(file, 0, <<>>, 0)
    <3>1. 0 + 1 .. 0 = {} /\ DOMAIN <<>> = {} /\ ToSet(<<>>) = {}
      BY DEF ToSet
    <3> QED
      BY <3>1 DEF BodyOk
  <2>3. ReadOk(file, NoSections, 0)
    BY <2>1, <2>2 DEF ReadOk
  <2> QED
    BY <1>1, <2>3
<1>3. ASSUME NEW k \in 0 .. n - 1, k \in T PROVE k + 1 \in T
  <2>1. k + 1 \in 1 .. n /\ k + 1 \in 0 .. n /\ (k + 1) - 1 = k
    BY <1>1
  <2>2. f[k + 1] = AddMarkdownLine(f[k], k + 1, file[k + 1])
    BY <2>1
  <2>3. ReadOk(file, f[k], k)
    BY <1>3
  <2>4. ReadOk(file, f[k + 1], k + 1)
    BY <2>2, <2>3, ReadNext
  <2> QED
    BY <2>1, <2>4
<1>4. ReadOk(file, f[n], n)
  <2>1. \A k \in 0 .. n : k \in T
    <3> HIDE DEF T, n
    <3> QED
      BY <1>1, <1>2, <1>3, UpTo
  <2> HIDE DEF n
  <2> QED
    BY <1>1, <2>1
<1> HIDE DEF n
<1>5. Listed(file, CloseSection(f[n]).closed, n)
  BY <1>1, <1>4, CloseListed
<1> QED
  BY <1>5 DEF n

\* The files of an import.
LEMMA FilesOf ==
    ASSUME NEW i \in Imports, NEW files, files = MarkdownFiles(i.entries)
    PROVE  /\ files \in Seq(Seq(LineKinds))
           /\ \A f \in DOMAIN files : Listed(files[f], Sections(files[f]), Len(files[f]))
<1> DEFINE entries == i.entries
           parts == [e \in DOMAIN entries |->
                        IF entries[e].type = "markdown" THEN <<entries[e].lines>> ELSE <<>>]
<1>1. entries \in Seq([type : {"markdown", "symlink", "other"}, lines : Seq(LineKinds)])
  BY ImportsAssumption
<1>2. parts \in Seq(Seq(Seq(LineKinds)))
  <2>1. ASSUME NEW e \in DOMAIN entries
        PROVE  (IF entries[e].type = "markdown" THEN <<entries[e].lines>> ELSE <<>>) \in Seq(Seq(LineKinds))
    <3>1. entries[e].lines \in Seq(LineKinds)
      <4> DEFINE R == [type : {"markdown", "symlink", "other"}, lines : Seq(LineKinds)]
      <4>1. entries \in Seq(R)
        BY <1>1
      <4> HIDE DEF entries, R
      <4>2. entries[e] \in R
        BY <4>1
      <4> QED
        BY <4>2 DEF R
    <3>2. <<entries[e].lines>> \in Seq(Seq(LineKinds)) /\ <<>> \in Seq(Seq(LineKinds))
      BY <3>1
    <3> QED
      BY <3>2
  <2>2. DOMAIN entries = 1 .. Len(entries) /\ Len(entries) \in Nat
    BY <1>1
  <2> HIDE DEF entries
  <2> QED
    BY <2>1, <2>2
<1>3. files = FlattenSeq(parts)
  BY DEF MarkdownFiles
<1> HIDE DEF parts
<1>4. files \in Seq(Seq(LineKinds))
  BY <1>2, <1>3, FlattenPlaces
<1>5. ASSUME NEW f \in DOMAIN files PROVE Listed(files[f], Sections(files[f]), Len(files[f]))
  <2>1. files[f] \in Seq(LineKinds)
    BY <1>4
  <2> QED
    BY <2>1, SectionsListed
<1> QED
  BY <1>4, <1>5

\* Where the texts of an import come from: of text x the file row[x], and the
\* section col[x] of it; every section is a text, in the order of the files.
Sourced(files, texts, row, col) ==
    /\ texts \in Seq(Nat \X Section)
    /\ \A x \in DOMAIN texts :
          /\ row[x] \in DOMAIN files /\ col[x] \in DOMAIN Sections(files[row[x]])
          /\ texts[x] = <<row[x], Sections(files[row[x]])[col[x]]>>
    /\ \A f \in DOMAIN files : \A k \in DOMAIN Sections(files[f]) :
          \E x \in DOMAIN texts : row[x] = f /\ col[x] = k
    /\ \A x, y \in DOMAIN texts : x < y => row[x] < row[y] \/ (row[x] = row[y] /\ col[x] < col[y])

LEMMA TextsSourced ==
    ASSUME NEW i \in Imports, NEW files, files = MarkdownFiles(i.entries)
    PROVE  \E row, col : Sourced(files, SectionsOf[i], row, col)
<1> DEFINE list(f) == Sections(files[f])
           part(f) == [k \in DOMAIN list(f) |-> <<f, list(f)[k]>>]
           parts == [f \in DOMAIN files |-> part(f)]
           n == Len(files)
           D == Nat \X Section
<1>. PICK texts : texts = SectionsOf[i]
  OBVIOUS
<1>1. n \in Nat /\ DOMAIN files = 1 .. n
  BY FilesOf
<1>2. \A f \in 1 .. n : list(f) \in Seq(Section)
  BY <1>1, FilesOf DEF Listed
<1> HIDE DEF list, n
<1>3. ASSUME NEW f \in 1 .. n
      PROVE  /\ part(f) \in Seq(D) /\ Len(part(f)) = Len(list(f)) /\ DOMAIN list(f) = 1 .. Len(list(f))
             /\ \A k \in DOMAIN list(f) : part(f)[k] = <<f, list(f)[k]>>
  <2>1. list(f) \in Seq(Section) /\ DOMAIN list(f) = 1 .. Len(list(f)) /\ Len(list(f)) \in Nat /\ f \in Nat
    BY <1>1, <1>2
  <2>2. \A k \in 1 .. Len(list(f)) : <<f, list(f)[k]>> \in D
    BY <2>1
  <2> HIDE DEF D
  <2>3. part(f) \in Seq(D) /\ Len(part(f)) = Len(list(f))
    BY <2>1, <2>2
  <2> QED
    BY <2>1, <2>3
<1> HIDE DEF part, D
<1>4. /\ parts \in Seq(Seq(D)) /\ Len(parts) = n
      /\ \A f \in 1 .. n : parts[f] = part(f)
  BY <1>1, <1>3
<1>5. texts = FlattenSeq(parts)
  BY DEF SectionsOf, parts, part, list
<1> HIDE DEF parts
<1>6. texts \in Seq(D) /\ \E row, col : Placed(texts, row, col, parts, n)
  BY <1>4, <1>5, FlattenPlaces
<1>. PICK row, col : Placed(texts, row, col, parts, n)
  BY <1>6
<1>7. DOMAIN texts = 1 .. Len(texts)
  BY <1>6
<1>8. ASSUME NEW x \in DOMAIN texts
      PROVE  /\ row[x] \in DOMAIN files /\ col[x] \in DOMAIN list(row[x])
             /\ texts[x] = <<row[x], list(row[x])[col[x]]>>
  <2>1. /\ row[x] \in 1 .. n /\ col[x] \in 1 .. Len(parts[row[x]])
        /\ texts[x] = parts[row[x]][col[x]]
    BY <1>7 DEF Placed
  <2>2. /\ col[x] \in DOMAIN list(row[x])
        /\ part(row[x])[col[x]] = <<row[x], list(row[x])[col[x]]>>
    BY <1>3, <1>4, <2>1
  <2> QED
    BY <1>1, <1>4, <2>1, <2>2
<1>9. ASSUME NEW f \in DOMAIN files, NEW k \in DOMAIN list(f)
      PROVE  \E x \in DOMAIN texts : row[x] = f /\ col[x] = k
  <2>1. f \in 1 .. n /\ k \in 1 .. Len(parts[f])
    BY <1>1, <1>3, <1>4
  <2>2. \A g \in 1 .. n : \A j \in 1 .. Len(parts[g]) : \E x \in 1 .. Len(texts) : row[x] = g /\ col[x] = j
    BY DEF Placed
  <2> QED
    BY <1>7, <2>1, <2>2
<1>10. \A x, y \in DOMAIN texts : x < y => row[x] < row[y] \/ (row[x] = row[y] /\ col[x] < col[y])
  BY <1>7 DEF Placed
<1>11. Sourced(files, texts, row, col)
  BY <1>6, <1>8, <1>9, <1>10 DEF Sourced, list, D
<1> QED
  BY <1>11

\* One text, as one section of its file.
LEMMA TextOk ==
    ASSUME NEW files, NEW texts, NEW row, NEW col, Sourced(files, texts, row, col),
           \A f \in DOMAIN files : Listed(files[f], Sections(files[f]), Len(files[f])) /\ Len(files[f]) \in Nat
                                   /\ DOMAIN files[f] = 1 .. Len(files[f]),
           NEW x \in DOMAIN texts
    PROVE  /\ texts[x][1] = row[x] /\ row[x] \in DOMAIN files /\ row[x] \in Nat
           /\ texts[x][2] = Sections(files[row[x]])[col[x]]
           /\ SectionOk(files[row[x]], texts[x][2], Len(files[row[x]]))
           /\ texts[x][2] \in Section
<1> DEFINE f == row[x]
           k == col[x]
           s == Sections(files[f])[k]
<1>1. /\ f \in DOMAIN files /\ k \in DOMAIN Sections(files[f]) /\ texts[x] = <<f, s>>
      /\ texts[x] \in Nat \X Section
  BY DEF Sourced
<1>2. SectionOk(files[f], s, Len(files[f]))
  BY <1>1 DEF Listed
<1> HIDE DEF f, s, k
<1>3. texts[x][1] = f /\ texts[x][2] = s /\ f \in Nat /\ s \in Section
  BY <1>1
<1> QED
  BY <1>1, <1>2, <1>3 DEF f, s, k

\* Two texts, in their order.
LEMMA TextsInOrder ==
    ASSUME NEW files, NEW texts, NEW row, NEW col, Sourced(files, texts, row, col),
           \A f \in DOMAIN files : Listed(files[f], Sections(files[f]), Len(files[f])) /\ Len(files[f]) \in Nat
                                   /\ DOMAIN files[f] = 1 .. Len(files[f]),
           NEW x \in DOMAIN texts, NEW y \in DOMAIN texts, x < y
    PROVE  /\ Earlier(Heading(texts[x]), Heading(texts[y]))
           /\ \A p \in Said(texts[x]), q \in Said(texts[y]) : Earlier(p, q)
<1>1. texts[x][1] = row[x] /\ texts[x][2] = Sections(files[row[x]])[col[x]]
  BY TextOk
<1>2. texts[y][1] = row[y] /\ texts[y][2] = Sections(files[row[y]])[col[y]]
  BY TextOk
<1>3. row[x] < row[y] \/ (row[x] = row[y] /\ col[x] < col[y])
  BY DEF Sourced
<1>4. /\ \A p \in Said(texts[x]) : p[1] = row[x] /\ p[2] \in ToSet(texts[x][2].lines)
      /\ \A p \in Said(texts[y]) : p[1] = row[y] /\ p[2] \in ToSet(texts[y][2].lines)
      /\ Heading(texts[x])[1] = row[x] /\ Heading(texts[x])[2] = texts[x][2].head
      /\ Heading(texts[y])[1] = row[y] /\ Heading(texts[y])[2] = texts[y][2].head
  BY <1>1, <1>2 DEF Said, Heading
<1>5. CASE row[x] < row[y]
  BY <1>4, <1>5 DEF Earlier
<1>6. CASE row[x] = row[y] /\ col[x] < col[y]
  <2>1. /\ row[x] \in DOMAIN files /\ col[x] \in DOMAIN Sections(files[row[x]])
        /\ col[y] \in DOMAIN Sections(files[row[x]])
    BY <1>6 DEF Sourced
  <2>2. Before(texts[x][2], texts[y][2])
    BY <1>1, <1>2, <1>6, <2>1 DEF Listed
  <2> QED
    BY <1>4, <1>6, <2>2 DEF Earlier, Before
<1> QED
  BY <1>3, <1>5, <1>6

\* Every line of text and every heading is in a text.
LEMMA TextsCover ==
    ASSUME NEW files, NEW texts, NEW row, NEW col, Sourced(files, texts, row, col),
           \A f \in DOMAIN files : Listed(files[f], Sections(files[f]), Len(files[f])) /\ Len(files[f]) \in Nat
                                   /\ DOMAIN files[f] = 1 .. Len(files[f])
    PROVE  /\ \A p \in LinesOf(files, "text") : \E x \in DOMAIN texts : p \in Said(texts[x])
           /\ \A p \in LinesOf(files, "head") : \E x \in DOMAIN texts : p = Heading(texts[x])
<1>1. ASSUME NEW kind, NEW p \in LinesOf(files, kind)
      PROVE  /\ p = <<p[1], p[2]>> /\ p[1] \in DOMAIN files /\ p[2] \in 1 .. Len(files[p[1]])
             /\ files[p[1]][p[2]] = kind
             /\ Covers(files[p[1]], Sections(files[p[1]]), Len(files[p[1]]))
  <2>1. p \in UNION {{f} \X DOMAIN files[f] : f \in DOMAIN files} /\ files[p[1]][p[2]] = kind
    BY <1>1 DEF LinesOf
  <2>2. PICK f \in DOMAIN files : p \in {f} \X DOMAIN files[f]
    BY <2>1
  <2>3. p = <<p[1], p[2]>> /\ p[1] = f /\ p[2] \in DOMAIN files[f]
    BY <2>2
  <2> QED
    BY <2>1, <2>3 DEF Listed
<1>2. ASSUME NEW p \in LinesOf(files, "text") PROVE \E x \in DOMAIN texts : p \in Said(texts[x])
  <2>. PICK f : f = p[1]
    OBVIOUS
  <2>. PICK i : i = p[2]
    OBVIOUS
  <2>1. p = <<f, i>> /\ f \in DOMAIN files /\ i \in 1 .. Len(files[f]) /\ files[f][i] = "text"
        /\ Covers(files[f], Sections(files[f]), Len(files[f]))
    BY <1>1
  <2>2. PICK k \in DOMAIN Sections(files[f]) : i \in ToSet(Sections(files[f])[k].lines)
    BY <2>1 DEF Covers
  <2>3. PICK x \in DOMAIN texts : row[x] = f /\ col[x] = k
    BY <2>1 DEF Sourced
  <2>4. texts[x][1] = f /\ texts[x][2] = Sections(files[f])[k]
    BY <2>3, TextOk
  <2> QED
    BY <2>1, <2>2, <2>4 DEF Said
<1>3. ASSUME NEW p \in LinesOf(files, "head") PROVE \E x \in DOMAIN texts : p = Heading(texts[x])
  <2>. PICK f : f = p[1]
    OBVIOUS
  <2>. PICK i : i = p[2]
    OBVIOUS
  <2>1. p = <<f, i>> /\ f \in DOMAIN files /\ i \in 1 .. Len(files[f]) /\ files[f][i] = "head"
        /\ Covers(files[f], Sections(files[f]), Len(files[f]))
    BY <1>1
  <2>2. PICK k \in DOMAIN Sections(files[f]) : Sections(files[f])[k].head = i
    BY <2>1 DEF Covers
  <2>3. PICK x \in DOMAIN texts : row[x] = f /\ col[x] = k
    BY <2>1 DEF Sourced
  <2>4. texts[x][1] = f /\ texts[x][2] = Sections(files[f])[k]
    BY <2>3, TextOk
  <2> QED
    BY <2>1, <2>2, <2>4 DEF Heading
<1> QED
  BY <1>2, <1>3

\* Of two places at most one is earlier than the other.
LEMMA EarlierOnce ==
    ASSUME NEW p, NEW q, p[1] \in Nat, p[2] \in Nat, q[1] \in Nat, q[2] \in Nat,
           Earlier(p, q)
    PROVE  ~Earlier(q, p)
BY DEF Earlier

\* What an import leaves.
LEMMA ImportKept ==
    ASSUME NEW i \in Imports, ImportMarkdown(i)
    PROVE  ImportIsWhole'
<1>. PICK files : files = MarkdownFiles(i.entries)
  OBVIOUS
<1>. PICK all : all = SectionsOf[i]
  OBVIOUS
<1>1. PICK kept \in 0 .. Len(all) :
          session' = [of |-> "files", files |-> files, ok |-> kept = Len(all),
                      texts |-> SubSeq(all, 1, kept)]
  BY DEF ImportMarkdown
<1>. PICK texts : texts = SubSeq(all, 1, kept)
  OBVIOUS
<1>2. /\ session'.files = files /\ session'.texts = texts /\ (session'.ok <=> kept = Len(all))
      /\ session'.of = "files"
  BY <1>1
<1>3. /\ files \in Seq(Seq(LineKinds))
      /\ \A f \in DOMAIN files : Listed(files[f], Sections(files[f]), Len(files[f]))
  BY FilesOf
<1>4. \A f \in DOMAIN files : /\ Listed(files[f], Sections(files[f]), Len(files[f]))
                              /\ Len(files[f]) \in Nat /\ DOMAIN files[f] = 1 .. Len(files[f])
  <2>1. \A f \in DOMAIN files : files[f] \in Seq(LineKinds)
    BY <1>3
  <2> QED
    BY <1>3, <2>1
<1>. PICK row, col : Sourced(files, all, row, col)
  BY TextsSourced
<1>5. /\ all \in Seq(Nat \X Section) /\ Len(all) \in Nat /\ kept \in Nat /\ kept <= Len(all)
      /\ DOMAIN all = 1 .. Len(all)
  <2>1. all \in Seq(Nat \X Section)
    BY DEF Sourced
  <2> QED
    BY <2>1
<1>6. /\ DOMAIN texts = 1 .. kept /\ \A x \in 1 .. kept : texts[x] = all[x] /\ x \in DOMAIN all
  <2>1. \A x \in 1 .. kept : x \in DOMAIN all /\ all[x] \in Nat \X Section
    BY <1>5
  <2>2. /\ texts \in Seq(Nat \X Section) /\ Len(texts) = IF 1 <= kept THEN kept - 1 + 1 ELSE 0
        /\ \A x \in 1 .. kept - 1 + 1 : texts[x] = all[1 + x - 1]
    BY <1>5, <2>1, SubSeqProperties
  <2>3. Len(texts) = kept /\ DOMAIN texts = 1 .. Len(texts)
    BY <1>5, <2>2
  <2>4. \A x \in 1 .. kept : x \in 1 .. kept - 1 + 1 /\ 1 + x - 1 = x
    BY <1>5
  <2> QED
    BY <2>1, <2>2, <2>3, <2>4
<1>7. /\ \A p \in LinesOf(files, "text") : \E x \in DOMAIN all : p \in Said(all[x])
      /\ \A p \in LinesOf(files, "head") : \E x \in DOMAIN all : p = Heading(all[x])
  BY <1>4, TextsCover
<1>8. \A x, y \in DOMAIN all : x < y =>
          /\ Earlier(Heading(all[x]), Heading(all[y]))
          /\ \A p \in Said(all[x]), q \in Said(all[y]) : Earlier(p, q)
  BY <1>4, TextsInOrder
<1>9. \A x \in DOMAIN all :
          /\ all[x][1] = row[x] /\ row[x] \in DOMAIN files /\ row[x] \in Nat
          /\ SectionOk(files[row[x]], all[x][2], Len(files[row[x]])) /\ all[x][2] \in Section
  BY <1>4, TextOk
<1>10. \A x \in DOMAIN all : /\ Heading(all[x])[1] \in Nat /\ Heading(all[x])[2] \in Nat
                             /\ \A p \in Said(all[x]) : p[1] \in Nat /\ p[2] \in Nat
  <2> SUFFICES ASSUME NEW x \in DOMAIN all
               PROVE  /\ Heading(all[x])[1] \in Nat /\ Heading(all[x])[2] \in Nat
                      /\ \A p \in Said(all[x]) : p[1] \in Nat /\ p[2] \in Nat
    OBVIOUS
  <2>1. all[x][1] \in Nat /\ all[x][2].head \in Nat
    BY <1>9 DEF Section
  <2>2. \A j \in ToSet(all[x][2].lines) : j \in Nat
    <3>. PICK s : s = all[x][2]
      OBVIOUS
    <3>1. SectionOk(files[row[x]], s, Len(files[row[x]]))
      BY <1>9
    <3>2. \A j \in ToSet(s.lines) : j \in 1 .. Len(files[row[x]])
      BY <3>1 DEF SectionOk
    <3> QED
      BY <3>2
  <2> QED
    BY <2>1, <2>2 DEF Heading, Said
<1> DEFINE said  == AllSaid(texts)
           heads == Headings(texts)
<1>11. /\ \A q \in said : \E y \in 1 .. kept : q \in Said(all[y])
       /\ \A y \in 1 .. kept : Said(all[y]) \subseteq said /\ Heading(all[y]) \in heads
       /\ \A q \in heads : \E y \in 1 .. kept : q = Heading(all[y])
  BY <1>6 DEF AllSaid, Headings
<1> HIDE DEF said, heads
<1>12. \A x, y : x \in DOMAIN all /\ y \in 1 .. kept /\ x \notin 1 .. kept =>
             /\ Earlier(Heading(all[y]), Heading(all[x]))
             /\ \A p \in Said(all[y]), q \in Said(all[x]) : Earlier(p, q)
  <2> SUFFICES ASSUME NEW x \in DOMAIN all, NEW y \in 1 .. kept, x \notin 1 .. kept
               PROVE  y \in DOMAIN all /\ y < x
    BY <1>8
  <2> QED
    BY <1>5
<1>13. Beginning(said, LinesOf(files, "text"))
  <2> SUFFICES ASSUME NEW p \in LinesOf(files, "text"), NEW q \in said, Earlier(p, q), p \notin said
               PROVE  FALSE
    BY DEF Beginning
  <2>1. PICK x \in DOMAIN all : p \in Said(all[x])
    BY <1>7
  <2>2. PICK y \in 1 .. kept : q \in Said(all[y])
    BY <1>11
  <2>3. x \notin 1 .. kept /\ y \in DOMAIN all
    BY <1>6, <1>11, <2>1
  <2>4. Earlier(q, p)
    BY <1>12, <2>1, <2>2, <2>3
  <2> QED
    BY <1>10, <2>1, <2>2, <2>3, <2>4, EarlierOnce
<1>14. Beginning(heads, LinesOf(files, "head"))
  <2> SUFFICES ASSUME NEW p \in LinesOf(files, "head"), NEW q \in heads, Earlier(p, q), p \notin heads
               PROVE  FALSE
    BY DEF Beginning
  <2>1. PICK x \in DOMAIN all : p = Heading(all[x])
    BY <1>7
  <2>2. PICK y \in 1 .. kept : q = Heading(all[y])
    BY <1>11
  <2>3. x \notin 1 .. kept /\ y \in DOMAIN all
    BY <1>6, <1>11, <2>1
  <2>4. Earlier(q, p)
    BY <1>12, <2>1, <2>2, <2>3
  <2> QED
    BY <1>10, <2>1, <2>2, <2>3, <2>4, EarlierOnce
<1>15. kept = Len(all) => LinesOf(files, "text") \subseteq said /\ LinesOf(files, "head") \subseteq heads
  BY <1>5, <1>7, <1>11
<1>16. ASSUME NEW x \in 1 .. kept PROVE IsSection(files, texts[x])
  <2>. PICK f : f = texts[x][1]
    OBVIOUS
  <2>. PICK s : s = texts[x][2]
    OBVIOUS
  <2>1. f \in DOMAIN files /\ SectionOk(files[f], s, Len(files[f])) /\ s \in Section
    BY <1>6, <1>9
  <2>2. DOMAIN files[f] = 1 .. Len(files[f]) /\ Len(files[f]) \in Nat
    BY <1>4, <2>1
  <2>3. ASSUME NEW l \in 1 .. Len(files[f]) PROVE <<f, l>> \in LinesOf(files, files[f][l])
    BY <2>1, <2>2 DEF LinesOf
  <2>4. s.head = 0 \/ <<f, s.head>> \in LinesOf(files, "head")
    <3>1. s.head \in 0 .. Len(files[f]) /\ (s.head # 0 => files[f][s.head] = "head")
      BY <2>1 DEF SectionOk
    <3>2. s.head # 0 => s.head \in 1 .. Len(files[f])
      BY <2>2, <3>1
    <3> QED
      BY <2>3, <3>1, <3>2
  <2>5. \A l \in ToSet(s.lines) :
            /\ <<f, l>> \in LinesOf(files, "text") \/ (l = s.head /\ s.lines = <<l>>)
            /\ s.head <= l /\ \A h \in s.head + 1 .. l : files[f][h] # "head"
    <3> SUFFICES ASSUME NEW l \in ToSet(s.lines)
                 PROVE /\ <<f, l>> \in LinesOf(files, "text") \/ (l = s.head /\ s.lines = <<l>>)
                       /\ s.head <= l /\ \A h \in s.head + 1 .. l : files[f][h] # "head"
      OBVIOUS
    <3>1. /\ l \in 1 .. Len(files[f])
          /\ files[f][l] = "text" \/ (l = s.head /\ s.lines = <<l>>)
          /\ s.head <= l /\ \A h \in s.head + 1 .. l : files[f][h] # "head"
      BY <2>1 DEF SectionOk
    <3> QED
      BY <2>3, <3>1
  <2>6. s.lines # <<>> /\ \A j, l \in DOMAIN s.lines : j < l => s.lines[j] < s.lines[l]
    BY <2>1 DEF SectionOk
  <2> QED
    BY <2>4, <2>5, <2>6 DEF IsSection, Heading
<1>17. InOrder(texts)
  BY <1>6, <1>8 DEF InOrder
<1> QED
  BY <1>2, <1>6, <1>13, <1>14, <1>15, <1>16, <1>17 DEF ImportIsWhole, said, heads

-----------------------------------------------------------------------------
(* Sessions and imports are stored whole.                                  *)

\* A session that is remembered is stored whole, in order and in chunks as large
\* as its limits allow, an import section by section with every line of text
\* and every heading; what a failed call leaves is a beginning.
THEOREM IngestedStaysWhole == Spec => []IngestedWhole
<1>1. Init => IngestedWhole
  BY DEF Init, NoSession, IngestedWhole, SessionIsWhole, ImportIsWhole
<1>2. IngestedWhole /\ [Next]_vars => IngestedWhole'
  <2> SUFFICES ASSUME IngestedWhole, [Next]_vars PROVE IngestedWhole'
    OBVIOUS
  <2>1. session' = NoSession => IngestedWhole'
    BY DEF NoSession, IngestedWhole, SessionIsWhole, ImportIsWhole
  <2>2. ASSUME NEW r \in Requests, Remember(r) PROVE IngestedWhole'
    BY <2>1, <2>2 DEF Remember
  <2>3. ASSUME NEW s \in Sessions, RememberSession(s) PROVE IngestedWhole'
    <3>1. SessionIsWhole'
      BY <2>3, SessionKept
    <3>2. session'.of = "turns"
      BY <2>3 DEF RememberSession
    <3>3. ImportIsWhole'
      BY <3>2 DEF ImportIsWhole
    <3> QED
      BY <3>1, <3>3 DEF IngestedWhole
  <2>4. ASSUME NEW i \in Imports, ImportMarkdown(i) PROVE IngestedWhole'
    <3>1. ImportIsWhole'
      BY <2>4, ImportKept
    <3>2. session'.of = "files"
      BY <2>4 DEF ImportMarkdown
    <3>3. SessionIsWhole'
      BY <3>2 DEF SessionIsWhole
    <3> QED
      BY <3>1, <3>3 DEF IngestedWhole
  <2>5. ASSUME NEW old, NEW r, Supersede(old, r) PROVE IngestedWhole'
    BY <2>1, <2>5 DEF Supersede
  <2>6. ASSUME NEW c, NEW status, SetStatus(c, status) PROVE IngestedWhole'
    BY <2>1, <2>6 DEF SetStatus
  <2>7. ASSUME NEW cutoff, Compact(cutoff) PROVE IngestedWhole'
    BY <2>1, <2>7 DEF Compact
  <2>8. CASE UNCHANGED vars
    BY <2>8 DEF vars, IngestedWhole, SessionIsWhole, ImportIsWhole
  <2> QED
    BY <2>2, <2>3, <2>4, <2>5, <2>6, <2>7, <2>8 DEF Next
<1> QED
  BY <1>1, <1>2, PTL DEF Spec
=============================================================================
