------------------------- MODULE WorkflowEditorProofs -------------------------
(***************************************************************************)
(* Proofs about WorkflowEditor, for any rows, edits, clients and slips:    *)
(* its types, one draft for a version, drafts that stay apart, and, without*)
(* a slip, that no edit is lost, that a published version is what its      *)
(* publisher saw, and that it does not change.                             *)
(*                                                                         *)
(* The invariants build on each other, and each holds as long as the slips *)
(* that break it stay away: TypeInv; Shape, how rows, list, requests and   *)
(* selection are placed, which no slip disturbs; DraftInv, what upserts of *)
(* one slot know of each other; FitInv, how canvas, save, publication and  *)
(* rows of one slot are ordered; KeptInv, where an edit is kept.           *)
(*                                                                         *)
(* The first part says what every action leaves in every field, and the    *)
(* steps are then sorted into those that matter to FitInv and KeptInv      *)
(* (TrackedStep), so that no lemma after it opens an action again.         *)
(***************************************************************************)
EXTENDS WorkflowEditor, FiniteSetTheorems, WellFoundedInduction, TLAPS

USE EditorAssumption, SlipAssumption
-----------------------------------------------------------------------------
(* The first and the newest row of a set.                                  *)
LEMMA LeastRow ==
    ASSUME NEW S, S \subseteq Nat, S # {}
    PROVE  \E n \in S : \A m \in S : n <= m
  <1>1. PICK n \in S : \A m \in S : ~ (<<m, n>> \in OpToRel(<, Nat))
    BY NatLessThanWellFounded, WFMin
  <1>2. \A m \in S : ~ (m < n)
    BY <1>1 DEF OpToRel
  <1> QED
    BY <1>2

LEMMA FirstIsOne == ASSUME NEW S, S \subseteq Rows, S # {} PROVE First(S) \in S
  <1>1. \E r \in S : \A q \in S : r <= q
    BY LeastRow
  <1> QED
    BY <1>1 DEF First

(* A finite set of numbers has a bound: otherwise there is a shortest      *)
(* beginning of an enumeration of it that has none.                        *)
LEMMA FiniteIsBounded ==
    ASSUME NEW S, S \subseteq Nat, IsFiniteSet(S)
    PROVE  \E m \in Nat : \A s \in S : s <= m
  <1>n. PICK n \in Nat : n = Cardinality(S) /\ ExistsBijection(1 .. n, S)
    BY FS_CardinalityType
  <1>1. PICK f : f \in [1 .. n -> S] /\ \A s \in S : \E i \in 1 .. n : f[i] = s
    <2>1. \E f : f \in Bijection(1 .. n, S)
      BY <1>n DEF ExistsBijection
    <2> QED
      BY <2>1 DEF Bijection, Surjection, Injection, IsInjective
  <1>0. \A i \in 1 .. n : f[i] \in Nat
    BY <1>1
  <1> DEFINE Bound(i) == \E m \in Nat : \A j \in 1 .. i : f[j] <= m
             B == {i \in Nat : i <= n /\ ~Bound(i)}
  <1>2. ASSUME B # {} PROVE FALSE
    <2>0. PICK i \in B : \A j \in B : i <= j
      <3>1. B \subseteq Nat
        OBVIOUS
      <3> HIDE DEF B
      <3> QED
        BY <1>2, <3>1, LeastRow
    <2>1. i \in Nat /\ i <= n /\ ~Bound(i) /\ \A j \in Nat : j <= n /\ ~Bound(j) => i <= j
      BY <2>0
    <2>2. i # 0
      <3>1. Bound(0)
        OBVIOUS
      <3> QED
        BY <2>1, <3>1
    <2>3. i - 1 \in Nat /\ Bound(i - 1)
      <3> HIDE DEF Bound, B
      <3>1. i - 1 \in Nat /\ i - 1 <= n /\ ~(i <= i - 1)
        BY <2>1, <2>2
      <3> QED
        BY <2>1, <3>1
    <2>4. PICK m \in Nat : \A j \in 1 .. i - 1 : f[j] <= m
      BY <2>3
    <2>5. f[i] \in Nat /\ i \in Nat
      <3> HIDE DEF Bound, B
      <3>1. i \in 1 .. n
        BY <2>1, <2>2
      <3> QED
        BY <1>0, <3>1
    <2>6. PICK b \in Nat : b >= m /\ b >= f[i]
      BY <2>5
    <2>7. \A j \in 1 .. i : f[j] <= b
      <3> SUFFICES ASSUME NEW j \in 1 .. i PROVE f[j] <= b
        OBVIOUS
      <3>1. f[j] \in Nat
        <4> HIDE DEF Bound, B
        <4>1. j \in 1 .. n
          BY <2>1
        <4> QED
          BY <1>0, <4>1
      <3>2. CASE j = i
        BY <2>6, <3>2
      <3>3. CASE j # i
        <4>1. j \in 1 .. i - 1
          BY <2>5, <3>3
        <4> QED
          BY <2>4, <2>6, <3>1, <4>1
      <3> QED
        BY <3>2, <3>3
    <2> QED
      BY <2>1, <2>7
  <1>3. Bound(n)
    BY <1>2
  <1> QED
    BY <1>1, <1>3

LEMMA NewestIsOne == ASSUME NEW S, S \subseteq Rows, S # {} PROVE Newest(S) \in S
  <1>1. S \subseteq Nat /\ IsFiniteSet(S)
    BY FS_Subset
  <1> DEFINE U == {m \in Nat : \A s \in S : s <= m}
  <1>2. U # {}
    BY <1>1, FiniteIsBounded
  <1>3. PICK m \in U : \A k \in U : m <= k
    BY <1>2, LeastRow
  <1>4. m \in S
    <2> SUFFICES ASSUME m \notin S PROVE FALSE
      OBVIOUS
    <2>1. PICK s \in S : TRUE
      OBVIOUS
    <2>2. m # 0 /\ m \in Nat
      BY <1>1, <1>3, <2>1
    <2>3. \A t \in S : t <= m - 1
      BY <1>1, <1>3, <2>2
    <2>4. m - 1 \in U
      BY <2>2, <2>3
    <2> QED
      BY <1>3, <2>2, <2>4
  <1>5. \E r \in S : \A q \in S : q <= r
    BY <1>3, <1>4
  <1> QED
    BY <1>5 DEF Newest

-----------------------------------------------------------------------------
(* Types.                                                                  *)
Ui == [sel : Slots, snap : BOOLEAN, tab : {"graph", "history"},
       doc : SUBSET Contents, dirty : BOOLEAN, base : Slots,
       timer : BOOLEAN, error : BOOLEAN, list : [Rows -> Row]]
Requests == {"save", "open"}
Request == [pc : {"idle", "sent", "found", "stored"}, to : Slots,
            def : SUBSET Contents, found : SUBSET Rows]
Publication == [pc : {"idle", "saving", "sent", "stored"}, from : Slots,
                def : SUBSET Contents, as : Slots]

(* A request that is stored knows the row it is stored in, and a           *)
(* publication the version it made.                                        *)
StoredSomewhere ==
    /\ \A k \in Requests : req[k].pc = "stored" => req[k].found # {}
    /\ pub.pc = "stored" => pub.as \in Rows

TypeInv == TypeOK /\ StoredSomewhere

LEMMA EditorTypes ==
    TypeOK <=> /\ row \in [Rows -> Row]
               /\ ui \in Ui
               /\ req \in [Requests -> Request]
               /\ pub \in Publication
               /\ made \in [Edits -> Slots \cup {NoSlot}]
               /\ gone \subseteq Edits
               /\ slips \subseteq Slips
  BY DEF TypeOK, Ui, Requests, Request, Publication

LEMMA EditorTypesAfter ==
    /\ row' \in [Rows -> Row]
    /\ ui' \in Ui
    /\ req' \in [Requests -> Request]
    /\ pub' \in Publication
    /\ made' \in [Edits -> Slots \cup {NoSlot}]
    /\ gone' \subseteq Edits
    /\ slips' \subseteq Slips
    => TypeOK'
  BY DEF TypeOK, Ui, Requests, Request, Publication

LEMMA RowsAreRows ==
    ASSUME NEW rows \in [Rows -> Row], NEW s
    PROVE  /\ DraftsOf(rows, s) \subseteq Rows
           /\ Named(rows) \subseteq Rows
           /\ \A r \in Rows : rows[r] \in Row
           /\ \A r \in Rows : rows[r].def \subseteq Contents
  BY DEF DraftsOf, Named, Row

(* What the editor derives from its list.                                  *)
LEMMA BaseIsOfList ==
    ASSUME NEW u \in Ui
    PROVE  /\ ActiveDraft(u) \subseteq Rows
           /\ Base(u) \subseteq Rows
           /\ ServerDef(u) \subseteq Contents
           /\ BaseKey(u) \in Slots
  <1>0. u.list \in [Rows -> Row]
    BY DEF Ui
  <1>1. ActiveDraft(u) \subseteq Rows /\ Named(u.list) \subseteq Rows /\ DraftsOf(u.list, Root) \subseteq Rows
    BY <1>0, RowsAreRows DEF ActiveDraft
  <1>2. Base(u) \subseteq Rows
    BY <1>1, NewestIsOne DEF Base
  <1>3. ServerDef(u) \subseteq Contents
    <2>1. \A r \in Rows : u.list[r].def \subseteq Contents
      BY <1>0, RowsAreRows
    <2> QED
      BY <1>1, <1>2, <2>1 DEF ServerDef
  <1>4. BaseKey(u) \in Slots
    <2>1. CASE ActiveDraft(u) # {}
      BY <1>1, <2>1, FirstIsOne DEF BaseKey, Slots
    <2>2. CASE ActiveDraft(u) = {} /\ Base(u) # {}
      BY <1>2, <2>2, FirstIsOne DEF BaseKey, Slots
    <2>3. CASE ActiveDraft(u) = {} /\ Base(u) = {}
      BY <2>3 DEF BaseKey, Slots
    <2> QED
      BY <2>1, <2>2, <2>3
  <1> QED
    BY <1>1, <1>2, <1>3, <1>4

LEMMA SetGraphMakes ==
    ASSUME NEW u \in Ui, NEW def \in SUBSET Contents
    PROVE  /\ SetGraph(u, def) \in Ui
           /\ SetGraph(u, def).doc = def \cup {Seed}
           /\ SetGraph(u, def).dirty = (Seed \notin def)
           /\ SetGraph(u, def).sel = u.sel
           /\ SetGraph(u, def).snap = u.snap
           /\ SetGraph(u, def).tab = u.tab
           /\ SetGraph(u, def).base = u.base
           /\ SetGraph(u, def).timer = u.timer
           /\ SetGraph(u, def).error = u.error
           /\ SetGraph(u, def).list = u.list
  BY DEF SetGraph, Ui, Contents

(* The canvas is loaded when it has no unsaved edits and its base is not   *)
(* the one of the list any more.                                           *)
Loads(u) == ~u.dirty /\ u.base # BaseKey(u)

LEMMA LoadedMakes ==
    ASSUME NEW u \in Ui
    PROVE  /\ Loaded(u) \in Ui
           /\ Loaded(u).sel = u.sel
           /\ Loaded(u).snap = u.snap
           /\ Loaded(u).tab = u.tab
           /\ Loaded(u).timer = u.timer
           /\ Loaded(u).error = u.error
           /\ Loaded(u).list = u.list
           /\ ~Loads(u) => Loaded(u) = u
           /\ Loads(u) => /\ Loaded(u).doc = ServerDef(u) \cup {Seed}
                          /\ Loaded(u).dirty = (Seed \notin ServerDef(u))
                          /\ Loaded(u).base = BaseKey(u)
  <1>1. PICK k \in Slots, def \in SUBSET Contents : k = BaseKey(u) /\ def = ServerDef(u)
    BY BaseIsOfList
  <1>2. PICK w : w = [u EXCEPT !.base = k]
    OBVIOUS
  <1>3. w \in Ui /\ w.base = k /\ w.sel = u.sel /\ w.snap = u.snap /\ w.tab = u.tab
        /\ w.timer = u.timer /\ w.error = u.error /\ w.list = u.list
    BY <1>2 DEF Ui
  <1>4. Loaded(u) = IF u.dirty \/ u.base = k THEN u ELSE SetGraph(w, def)
    BY <1>1, <1>2 DEF Loaded, Preserved
  <1>5. CASE ~Loads(u)
    BY <1>1, <1>4, <1>5 DEF Loads
  <1>6. CASE Loads(u)
    <2>1. Loaded(u) = SetGraph(w, def)
      BY <1>1, <1>4, <1>6 DEF Loads
    <2> QED
      BY <1>1, <1>3, <1>6, <2>1, SetGraphMakes
  <1> QED
    BY <1>5, <1>6

(* A render.                                                               *)
InEdit(u) == u.tab = "graph" /\ ~u.snap

LEMMA RenderMakes ==
    ASSUME NEW u \in Ui, Render(u)
    PROVE  /\ ui' \in Ui
           /\ ui'.sel = u.sel
           /\ ui'.snap = u.snap
           /\ ui'.tab = u.tab
           /\ ui'.error = u.error
           /\ ui'.list = u.list
           /\ ~Loads(u) => ui'.doc = u.doc /\ ui'.dirty = u.dirty /\ ui'.base = u.base
           /\ Loads(u) => /\ ui'.doc = ServerDef(u) \cup {Seed}
                          /\ ui'.dirty = (Seed \notin ServerDef(u))
                          /\ ui'.base = BaseKey(u)
           /\ ui'.timer => \/ ui'.dirty /\ InEdit(ui')
                           \/ u.timer /\ ui'.dirty = ui.dirty /\ Mode(ui') = Mode(ui)
  <1>1. PICK v \in Ui : v = Loaded(u)
    BY LoadedMakes
  <1>2. /\ v.sel = u.sel /\ v.snap = u.snap /\ v.tab = u.tab /\ v.timer = u.timer
        /\ v.error = u.error /\ v.list = u.list
        /\ ~Loads(u) => v = u
        /\ Loads(u) => /\ v.doc = ServerDef(u) \cup {Seed}
                       /\ v.dirty = (Seed \notin ServerDef(u))
                       /\ v.base = BaseKey(u)
    BY <1>1, LoadedMakes
  <1>3. CASE AutosaveDeps(v) = AutosaveDeps(ui)
    <2>1. ui' = v
      BY <1>1, <1>3 DEF Render
    <2> QED
      BY <1>2, <1>3, <2>1 DEF AutosaveDeps
  <1>4. CASE AutosaveDeps(v) # AutosaveDeps(ui)
    <2>1. ui' = [v EXCEPT !.timer = v.dirty /\ Mode(v) = "edit"]
      BY <1>1, <1>4 DEF Render
    <2>2. /\ ui' \in Ui /\ ui'.sel = v.sel /\ ui'.snap = v.snap /\ ui'.tab = v.tab
          /\ ui'.doc = v.doc /\ ui'.dirty = v.dirty /\ ui'.base = v.base
          /\ ui'.error = v.error /\ ui'.list = v.list
          /\ ui'.timer = (v.dirty /\ Mode(v) = "edit")
      BY <2>1 DEF Ui
    <2>3. Mode(v) = "edit" => InEdit(ui')
      BY <2>2 DEF Mode, InEdit
    <2> QED
      BY <1>2, <2>2, <2>3
  <1> QED
    BY <1>3, <1>4

-----------------------------------------------------------------------------
(* What is derived from the list depends on the selection, the snapshot    *)
(* and the list only.                                                      *)
LEMMA DerivedAlike ==
    ASSUME NEW u, NEW w, u.sel = w.sel, u.snap = w.snap, u.list = w.list
    PROVE  /\ ActiveDraft(u) = ActiveDraft(w)
           /\ Base(u) = Base(w)
           /\ ServerDef(u) = ServerDef(w)
           /\ BaseKey(u) = BaseKey(w)
  <1>1. ActiveDraft(u) = ActiveDraft(w)
    BY DEF ActiveDraft
  <1>2. Base(u) = Base(w)
    BY DEF Base
  <1> QED
    BY <1>1, <1>2 DEF ServerDef, BaseKey

LEMMA LoadDefinitionMakes ==
    ASSUME NEW u \in Ui, NEW s \in Slots, NEW def \in SUBSET Contents,
           NEW base \in Slots
    PROVE  /\ LoadDefinition(u, s, def, base) \in Ui
           /\ LoadDefinition(u, s, def, base).sel = s
           /\ LoadDefinition(u, s, def, base).snap = u.snap
           /\ LoadDefinition(u, s, def, base).tab = u.tab
           /\ LoadDefinition(u, s, def, base).doc = def \cup {Seed}
           /\ LoadDefinition(u, s, def, base).dirty = (Seed \notin def)
           /\ LoadDefinition(u, s, def, base).base = base
           /\ LoadDefinition(u, s, def, base).timer = u.timer
           /\ ~LoadDefinition(u, s, def, base).error
           /\ LoadDefinition(u, s, def, base).list = u.list
  <1>1. PICK w : w = SetGraph(u, def)
    OBVIOUS
  <1>2. /\ w \in Ui /\ w.doc = def \cup {Seed} /\ w.dirty = (Seed \notin def)
        /\ w.snap = u.snap /\ w.tab = u.tab /\ w.timer = u.timer /\ w.list = u.list
    BY <1>1, SetGraphMakes
  <1>3. LoadDefinition(u, s, def, base) = [w EXCEPT !.sel = s, !.base = base, !.error = FALSE]
    BY <1>1 DEF LoadDefinition
  <1> QED
    BY <1>2, <1>3 DEF Ui

LEMMA PageMakes ==
    ASSUME NEW rows \in [Rows -> Row], NEW s \in Slots, NEW snap \in BOOLEAN,
           NEW p, p = Page(rows, s, snap)
    PROVE  /\ p \in Ui
           /\ p.sel = s
           /\ (p.snap <=> snap)
           /\ p.tab = "graph"
           /\ p.doc = ServerDef(p) \cup {Seed}
           /\ p.dirty = (Seed \notin ServerDef(p))
           /\ p.base = BaseKey(p)
           /\ p.timer => p.dirty /\ InEdit(p)
           /\ ~p.error
           /\ p.list = rows
  <1>1. PICK u : u = [sel |-> s, snap |-> snap, tab |-> "graph", doc |-> {},
              dirty |-> FALSE, base |-> Root, timer |-> FALSE,
              error |-> FALSE, list |-> rows]
    OBVIOUS
  <1>2. u \in Ui /\ u.sel = s /\ (u.snap <=> snap) /\ u.list = rows /\ u.tab = "graph"
        /\ ~u.timer /\ ~u.error
    BY <1>1 DEF Ui, Slots
  <1>3. PICK k \in Slots, def \in SUBSET Contents : k = BaseKey(u) /\ def = ServerDef(u)
    BY <1>2, BaseIsOfList
  <1>4. PICK w : w = [u EXCEPT !.base = k]
    OBVIOUS
  <1>5. w \in Ui /\ w.base = k /\ w.sel = s /\ (w.snap <=> snap) /\ w.tab = "graph"
        /\ ~w.timer /\ ~w.error /\ w.list = rows
    BY <1>2, <1>4 DEF Ui
  <1>6. PICK v : v = SetGraph(w, def)
    OBVIOUS
  <1>7. v \in Ui /\ v.base = k /\ v.sel = s /\ (v.snap <=> snap) /\ v.tab = "graph"
        /\ ~v.timer /\ ~v.error /\ v.list = rows
        /\ v.doc = def \cup {Seed} /\ v.dirty = (Seed \notin def)
    BY <1>5, <1>6, SetGraphMakes
  <1>8. p = [v EXCEPT !.timer = v.dirty /\ Mode(v) = "edit"]
    BY <1>1, <1>3, <1>4, <1>6 DEF Page
  <1>9. /\ p \in Ui /\ p.base = k /\ p.sel = s /\ (p.snap <=> snap) /\ p.tab = "graph"
        /\ p.timer = (v.dirty /\ Mode(v) = "edit") /\ ~p.error /\ p.list = rows
        /\ p.doc = def \cup {Seed} /\ p.dirty = (Seed \notin def)
    BY <1>7, <1>8 DEF Ui
  <1>10. BaseKey(p) = k /\ ServerDef(p) = def
    <2>1. (p.snap <=> u.snap) /\ p.snap \in BOOLEAN /\ u.snap \in BOOLEAN
      BY <1>2, <1>9 DEF Ui
    <2>2. p.snap = u.snap /\ p.sel = u.sel /\ p.list = u.list
      BY <1>2, <1>9, <2>1
    <2> QED
      BY <1>3, <2>2, DerivedAlike
  <1>11. p.timer => p.dirty /\ InEdit(p)
    BY <1>7, <1>9 DEF Mode, InEdit
  <1> QED
    BY <1>9, <1>10, <1>11

LEMMA ShownIsDef == ASSUME NEW u \in Ui PROVE Shown(u) \in SUBSET Contents
  BY BaseIsOfList DEF Shown, Ui

-----------------------------------------------------------------------------
LEMMA InitType == Init => TypeInv
  <1> SUFFICES ASSUME Init PROVE TypeInv
    OBVIOUS
  <1>1. PICK n \in {{}, {First(Rows)}} :
          row = [r \in Rows |-> IF r \in n THEN [st |-> "named", parent |-> Root,
                                                 def |-> {Seed}] ELSE NoRow]
    BY DEF Init
  <1>2. row \in [Rows -> Row]
    <2>1. [st |-> "named", parent |-> Root, def |-> {Seed}] \in Row
      BY DEF Row, Slots, Contents
    <2>2. NoRow \in Row
      BY DEF Row, Slots, NoRow
    <2> QED
      BY <1>1, <2>1, <2>2
  <1>3. (IF Named(row) = {} THEN Root ELSE First(Rows)) \in Slots
    <2>1. CASE Named(row) = {}
      BY <2>1 DEF Slots
    <2>2. CASE Named(row) # {}
      <3>1. Rows # {}
        BY <2>2 DEF Named
      <3> QED
        BY <2>2, <3>1, FirstIsOne DEF Slots
    <2> QED
      BY <2>1, <2>2
  <1>4. ui \in Ui
    <2>1. ui = Page(row, IF Named(row) = {} THEN Root ELSE First(Rows), FALSE)
      BY DEF Init
    <2> QED
      BY <1>2, <1>3, <2>1, PageMakes
  <1>5. req \in [Requests -> Request]
    <2>1. NoReq \in Request
      BY DEF Request, NoReq, Slots
    <2>2. req = [k \in Requests |-> NoReq]
      BY DEF Init, Requests
    <2> QED
      BY <2>1, <2>2
  <1>6. pub \in Publication
    BY DEF Init, Publication, NoPub, Slots
  <1>7. made \in [Edits -> Slots \cup {NoSlot}] /\ gone \subseteq Edits /\ slips \subseteq Slips
    BY DEF Init
  <1>8. StoredSomewhere
    <2>1. req = [k \in Requests |-> NoReq] /\ pub = NoPub
      BY DEF Init, Requests
    <2> QED
      BY <2>1 DEF StoredSomewhere, NoReq, NoPub
  <1> QED
    BY <1>2, <1>4, <1>5, <1>6, <1>7, <1>8, EditorTypes DEF TypeInv

-----------------------------------------------------------------------------
(* The steps of the editor: what each action leaves in the fields of the   *)
(* editor's state, with the render that is part of it.                     *)
TimerFine == ui.timer => ui.dirty /\ InEdit(ui)

(* The canvas shows what the list says.                                    *)
Reloaded ==
    /\ ui.doc = ServerDef(ui) \cup {Seed}
    /\ ui.dirty = (Seed \notin ServerDef(ui))
    /\ ui.base = BaseKey(ui)

LEMMA Rendering ==
    ASSUME ui \in Ui, NEW u \in Ui, u.timer = ui.timer, Render(u)
    PROVE  /\ ui' \in Ui
           /\ ui'.sel = u.sel /\ ui'.snap = u.snap /\ ui'.tab = u.tab
           /\ ui'.error = u.error /\ ui'.list = u.list
           /\ \/ /\ ui'.doc = u.doc /\ ui'.dirty = u.dirty /\ ui'.base = u.base
                 /\ u.dirty \/ u.base = BaseKey(ui')
              \/ ~u.dirty /\ u.base # BaseKey(ui') /\ Reloaded'
           /\ TimerFine => TimerFine'
  <1>1. /\ ui' \in Ui
        /\ ui'.sel = u.sel /\ ui'.snap = u.snap /\ ui'.tab = u.tab
        /\ ui'.error = u.error /\ ui'.list = u.list
        /\ ~Loads(u) => ui'.doc = u.doc /\ ui'.dirty = u.dirty /\ ui'.base = u.base
        /\ Loads(u) => /\ ui'.doc = ServerDef(u) \cup {Seed}
                       /\ ui'.dirty = (Seed \notin ServerDef(u))
                       /\ ui'.base = BaseKey(u)
        /\ ui'.timer => \/ ui'.dirty /\ InEdit(ui')
                        \/ u.timer /\ ui'.dirty = ui.dirty /\ Mode(ui') = Mode(ui)
    BY RenderMakes
  <1>2. BaseKey(ui') = BaseKey(u) /\ ServerDef(ui') = ServerDef(u)
    <2>1. PICK w : w = ui'
      OBVIOUS
    <2>2. BaseKey(w) = BaseKey(u) /\ ServerDef(w) = ServerDef(u)
      BY <1>1, <2>1, DerivedAlike
    <2> QED
      BY <2>1, <2>2
  <1>3. \/ /\ ui'.doc = u.doc /\ ui'.dirty = u.dirty /\ ui'.base = u.base
           /\ u.dirty \/ u.base = BaseKey(ui')
        \/ ~u.dirty /\ u.base # BaseKey(ui') /\ Reloaded'
    <2>1. CASE Loads(u)
      BY <1>1, <1>2, <2>1 DEF Loads, Reloaded
    <2>2. CASE ~Loads(u)
      BY <1>1, <1>2, <2>2 DEF Loads, Ui
    <2> QED
      BY <2>1, <2>2
  <1>4. TimerFine => TimerFine'
    BY <1>1 DEF TimerFine, Mode, InEdit
  <1> QED
    BY <1>1, <1>3, <1>4

LEMMA EditSteps ==
    ASSUME TypeInv, NEW e \in Edits, Edit(e)
    PROVE  /\ e \notin Others /\ InEdit(ui) /\ made[e] = NoSlot
           /\ made' = [made EXCEPT ![e] = ui.sel]
           /\ ui' \in Ui
           /\ ui'.sel = ui.sel /\ ui'.snap = ui.snap /\ ui'.tab = ui.tab
           /\ ui'.error = ui.error /\ ui'.list = ui.list
           /\ ui'.doc = ui.doc \cup {e} /\ ui'.dirty /\ ui'.base = ui.base
           /\ TimerFine => TimerFine'
           /\ Slip(Working \cup When("edit while busy", Busy /\ ~Opening))
           /\ UNCHANGED <<row, req, pub, gone>>
  <1>0. ui \in Ui
    BY EditorTypes DEF TypeInv
  <1>1. PICK u : u = [ui EXCEPT !.doc = @ \cup {e}, !.dirty = TRUE]
    OBVIOUS
  <1>2. /\ u \in Ui /\ u.timer = ui.timer /\ u.sel = ui.sel /\ u.snap = ui.snap
        /\ u.tab = ui.tab /\ u.error = ui.error /\ u.list = ui.list
        /\ u.doc = ui.doc \cup {e} /\ u.dirty /\ u.base = ui.base
    BY <1>0, <1>1 DEF Ui, Contents
  <1>3. Render(u)
    BY <1>1 DEF Edit
  <1>4. /\ ui' \in Ui
        /\ ui'.sel = ui.sel /\ ui'.snap = ui.snap /\ ui'.tab = ui.tab
        /\ ui'.error = ui.error /\ ui'.list = ui.list
        /\ ui'.doc = ui.doc \cup {e} /\ ui'.dirty /\ ui'.base = ui.base
        /\ TimerFine => TimerFine'
    BY <1>0, <1>2, <1>3, Rendering
  <1>5. InEdit(ui)
    BY DEF Edit, Mode, InEdit
  <1> QED
    BY <1>4, <1>5 DEF Edit

(* A save is sent, with what is shown.                                     *)
SaveIsSent ==
    /\ req' \in [Requests -> Request]
    /\ ~Saving
    /\ req'["open"] = req["open"]
    /\ req'["save"].pc = "sent" /\ req'["save"].to = ui.sel
    /\ req'["save"].def = Shown(ui) /\ req'["save"].found = {}

LEMMA StartSaveMakes ==
    ASSUME TypeInv, StartSave, ~Saving PROVE SaveIsSent
  <1>0. ui \in Ui /\ req \in [Requests -> Request]
    BY EditorTypes DEF TypeInv
  <1>1. PICK def \in SUBSET Contents : def = Shown(ui)
    BY <1>0, ShownIsDef
  <1>2. PICK q : q = [pc |-> "sent", to |-> ui.sel, def |-> def, found |-> {}]
    OBVIOUS
  <1>3. q \in Request /\ q.pc = "sent" /\ q.to = ui.sel /\ q.def = def /\ q.found = {}
    BY <1>0, <1>2 DEF Request, Ui
  <1>4. req' = [req EXCEPT !["save"] = q]
    BY <1>1, <1>2 DEF StartSave, SaveSlot
  <1>5. req' \in [Requests -> Request] /\ req'["open"] = req["open"] /\ req'["save"] = q
    BY <1>0, <1>3, <1>4 DEF Requests
  <1> QED
    BY <1>1, <1>3, <1>5 DEF SaveIsSent

LEMMA AutosaveSteps ==
    ASSUME TypeInv, AutosaveFires
    PROVE  /\ ui.timer
           /\ \/ Saving /\ req' = req /\ ui'.error = ui.error
              \/ SaveIsSent /\ ~ui'.error
           /\ ui' \in Ui
           /\ ui'.sel = ui.sel /\ ui'.snap = ui.snap /\ ui'.tab = ui.tab
           /\ ui'.list = ui.list
           /\ ui'.doc = ui.doc /\ ui'.dirty = ui.dirty /\ ui'.base = ui.base
           /\ ~ui'.timer
           /\ UNCHANGED <<row, pub, made, gone, slips>>
  <1>0. ui \in Ui
    BY EditorTypes DEF TypeInv
  <1>1. \/ Saving /\ req' = req
        \/ ~Saving /\ StartSave
    BY DEF AutosaveFires
  <1>2. /\ ui' = [ui EXCEPT !.timer = FALSE, !.error = Saving /\ @]
    BY DEF AutosaveFires
  <1>2a. PICK b \in BOOLEAN : b = (Saving /\ ui.error)
    OBVIOUS
  <1>2b. ui' = [ui EXCEPT !.timer = FALSE, !.error = b]
    BY <1>0, <1>2, <1>2a DEF Ui
  <1>3. /\ ui' \in Ui
        /\ ui'.sel = ui.sel /\ ui'.snap = ui.snap /\ ui'.tab = ui.tab
        /\ ui'.list = ui.list
        /\ ui'.doc = ui.doc /\ ui'.dirty = ui.dirty /\ ui'.base = ui.base
        /\ ~ui'.timer /\ (ui'.error <=> b)
    BY <1>0, <1>2b DEF Ui
  <1>4. ui.error \in BOOLEAN
    BY <1>0 DEF Ui
  <1>5. CASE Saving /\ req' = req
    BY <1>2a, <1>3, <1>4, <1>5 DEF AutosaveFires
  <1>6. CASE ~Saving /\ StartSave
    BY <1>2a, <1>3, <1>4, <1>6, StartSaveMakes DEF AutosaveFires
  <1> QED
    BY <1>1, <1>5, <1>6

LEMMA RetrySteps ==
    ASSUME TypeInv, RetrySave
    PROVE  /\ ui.error /\ InEdit(ui) /\ NeedsSave(ui)
           /\ SaveIsSent
           /\ ui' \in Ui
           /\ ui'.sel = ui.sel /\ ui'.snap = ui.snap /\ ui'.tab = ui.tab
           /\ ui'.list = ui.list /\ ui'.timer = ui.timer
           /\ ui'.doc = ui.doc /\ ui'.dirty = ui.dirty /\ ui'.base = ui.base
           /\ ~ui'.error
           /\ Slip(Working)
           /\ UNCHANGED <<row, pub, made, gone>>
  <1>0. ui \in Ui
    BY EditorTypes DEF TypeInv
  <1>1. SaveIsSent
    BY StartSaveMakes DEF RetrySave
  <1>2. ui' = [ui EXCEPT !.error = FALSE]
    BY DEF RetrySave
  <1>3. InEdit(ui)
    BY DEF RetrySave, Mode, InEdit
  <1> QED
    BY <1>0, <1>1, <1>2, <1>3 DEF RetrySave, Ui

LEMMA SaveAnsweredSteps ==
    ASSUME TypeInv, SaveAnswered
    PROVE  /\ req["save"].pc = "stored"
           /\ req' \in [Requests -> Request]
           /\ req'["save"] = NoReq /\ req'["open"] = req["open"]
           /\ ui' \in Ui
           /\ ui'.sel = ui.sel /\ ui'.snap = ui.snap /\ ui'.tab = ui.tab
           /\ ui'.error = ui.error /\ ui'.list = ui.list
           /\ \/ /\ ui'.doc = ui.doc /\ ~ui'.dirty /\ ui'.base = ui.base
                 /\ ui.base = BaseKey(ui')
              \/ ui.base # BaseKey(ui') /\ Reloaded'
           /\ TimerFine => TimerFine'
           /\ pub' = IF pub.pc = "saving" THEN [pub EXCEPT !.pc = "sent"] ELSE pub
           /\ UNCHANGED <<row, made, gone, slips>>
  <1>0. ui \in Ui /\ req \in [Requests -> Request]
    BY EditorTypes DEF TypeInv
  <1>1. PICK u : u = [ui EXCEPT !.dirty = FALSE]
    OBVIOUS
  <1>2. /\ u \in Ui /\ u.timer = ui.timer /\ u.sel = ui.sel /\ u.snap = ui.snap
        /\ u.tab = ui.tab /\ u.error = ui.error /\ u.list = ui.list
        /\ u.doc = ui.doc /\ ~u.dirty /\ u.base = ui.base
    BY <1>0, <1>1 DEF Ui
  <1>3. Render(u)
    BY <1>1 DEF SaveAnswered
  <1>4. /\ ui' \in Ui
        /\ ui'.sel = ui.sel /\ ui'.snap = ui.snap /\ ui'.tab = ui.tab
        /\ ui'.error = ui.error /\ ui'.list = ui.list
        /\ \/ /\ ui'.doc = ui.doc /\ ~ui'.dirty /\ ui'.base = ui.base
              /\ ui.base = BaseKey(ui')
           \/ ui.base # BaseKey(ui') /\ Reloaded'
        /\ TimerFine => TimerFine'
    BY <1>0, <1>2, <1>3, Rendering
  <1>5. req' = [req EXCEPT !["save"] = NoReq]
    BY DEF SaveAnswered
  <1>6. NoReq \in Request
    BY DEF NoReq, Request, Slots
  <1>7. req' \in [Requests -> Request] /\ req'["save"] = NoReq /\ req'["open"] = req["open"]
    BY <1>0, <1>5, <1>6 DEF Requests
  <1> QED
    BY <1>4, <1>7 DEF SaveAnswered

-----------------------------------------------------------------------------
(* The list is fetched again, a tab is opened, an item of the history is   *)
(* selected, shown or edited.                                              *)

LEMMA RefetchSteps ==
    ASSUME TypeInv, Refetch
    PROVE  /\ ui' \in Ui
           /\ ui'.sel = ui.sel /\ ui'.snap = ui.snap /\ ui'.tab = ui.tab
           /\ ui'.error = ui.error /\ ui'.list = row
           /\ \/ /\ ui'.doc = ui.doc /\ ui'.dirty = ui.dirty /\ ui'.base = ui.base
                 /\ ui.dirty \/ ui.base = BaseKey(ui')
              \/ ~ui.dirty /\ ui.base # BaseKey(ui') /\ Reloaded'
           /\ TimerFine => TimerFine'
           /\ UNCHANGED <<row, req, pub, made, gone, slips>>
  <1>0. ui \in Ui /\ row \in [Rows -> Row]
    BY EditorTypes DEF TypeInv
  <1>1. PICK u : u = [ui EXCEPT !.list = row]
    OBVIOUS
  <1>2. /\ u \in Ui /\ u.timer = ui.timer /\ u.sel = ui.sel /\ u.snap = ui.snap
        /\ u.tab = ui.tab /\ u.error = ui.error /\ u.list = row
        /\ u.doc = ui.doc /\ u.dirty = ui.dirty /\ u.base = ui.base
    BY <1>0, <1>1 DEF Ui
  <1>3. Render(u)
    BY <1>1 DEF Refetch
  <1>4. /\ ui' \in Ui
        /\ ui'.sel = ui.sel /\ ui'.snap = ui.snap /\ ui'.tab = ui.tab
        /\ ui'.error = ui.error /\ ui'.list = row
        /\ \/ /\ ui'.doc = ui.doc /\ ui'.dirty = ui.dirty /\ ui'.base = ui.base
              /\ ui.dirty \/ ui.base = BaseKey(ui')
           \/ ~ui.dirty /\ ui.base # BaseKey(ui') /\ Reloaded'
        /\ TimerFine => TimerFine'
    BY <1>0, <1>2, <1>3, Rendering
  <1> QED
    BY <1>4 DEF Refetch

LEMMA OpenTabSteps ==
    ASSUME TypeInv, NEW t \in {"graph", "history"}, OpenTab(t)
    PROVE  /\ ui.tab # t
           /\ ui' \in Ui
           /\ ui'.sel = ui.sel /\ ui'.snap = ui.snap /\ ui'.tab = t
           /\ ui'.error = ui.error /\ ui'.list = ui.list
           /\ \/ /\ ui'.doc = ui.doc /\ ui'.dirty = ui.dirty /\ ui'.base = ui.base
                 /\ ui.dirty \/ ui.base = BaseKey(ui')
              \/ ~ui.dirty /\ ui.base # BaseKey(ui') /\ Reloaded'
           /\ TimerFine => TimerFine'
           /\ UNCHANGED <<row, req, pub, made, gone, slips>>
  <1>0. ui \in Ui
    BY EditorTypes DEF TypeInv
  <1>1. PICK u : u = [ui EXCEPT !.tab = t]
    OBVIOUS
  <1>2. /\ u \in Ui /\ u.timer = ui.timer /\ u.sel = ui.sel /\ u.snap = ui.snap
        /\ u.tab = t /\ u.error = ui.error /\ u.list = ui.list
        /\ u.doc = ui.doc /\ u.dirty = ui.dirty /\ u.base = ui.base
    BY <1>0, <1>1 DEF Ui
  <1>3. Render(u)
    BY <1>1 DEF OpenTab
  <1>4. /\ ui' \in Ui
        /\ ui'.sel = ui.sel /\ ui'.snap = ui.snap /\ ui'.tab = t
        /\ ui'.error = ui.error /\ ui'.list = ui.list
        /\ \/ /\ ui'.doc = ui.doc /\ ui'.dirty = ui.dirty /\ ui'.base = ui.base
              /\ ui.dirty \/ ui.base = BaseKey(ui')
           \/ ~ui.dirty /\ ui.base # BaseKey(ui') /\ Reloaded'
        /\ TimerFine => TimerFine'
    BY <1>0, <1>2, <1>3, Rendering
  <1> QED
    BY <1>4 DEF OpenTab

(* An item of the history is selected.                                     *)
Selects(s, snap) ==
    /\ ui.tab = "history"
    /\ ui' \in Ui
    /\ ui'.sel = s /\ (ui'.snap <=> snap) /\ ui'.tab = ui.tab
    /\ ui'.error = ui.error /\ ui'.list = ui.list
    /\ \/ /\ ui'.doc = ui.doc /\ ui'.dirty = ui.dirty /\ ui'.base = ui.base
          /\ ui.dirty \/ ui.base = BaseKey(ui')
       \/ ~ui.dirty /\ ui.base # BaseKey(ui') /\ Reloaded'
    /\ TimerFine => TimerFine'
    /\ UNCHANGED <<row, pub, made, gone>>

LEMMA Selecting ==
    ASSUME TypeInv, NEW s \in Slots, NEW snap \in BOOLEAN,
           InHistory([ui EXCEPT !.sel = s, !.snap = snap])
    PROVE  Selects(s, snap)
  <1>0. ui \in Ui
    BY EditorTypes DEF TypeInv
  <1>1. PICK u : u = [ui EXCEPT !.sel = s, !.snap = snap]
    OBVIOUS
  <1>2. /\ u \in Ui /\ u.timer = ui.timer /\ u.sel = s /\ (u.snap <=> snap)
        /\ u.tab = ui.tab /\ u.error = ui.error /\ u.list = ui.list
        /\ u.doc = ui.doc /\ u.dirty = ui.dirty /\ u.base = ui.base
    BY <1>0, <1>1 DEF Ui
  <1>3. Render(u)
    BY <1>1 DEF InHistory
  <1>4. /\ ui' \in Ui
        /\ ui'.sel = s /\ (ui'.snap <=> snap) /\ ui'.tab = ui.tab
        /\ ui'.error = ui.error /\ ui'.list = ui.list
        /\ \/ /\ ui'.doc = ui.doc /\ ui'.dirty = ui.dirty /\ ui'.base = ui.base
              /\ ui.dirty \/ ui.base = BaseKey(ui')
           \/ ~ui.dirty /\ ui.base # BaseKey(ui') /\ Reloaded'
        /\ TimerFine => TimerFine'
    BY <1>0, <1>2, <1>3, Rendering
  <1> QED
    BY <1>4 DEF InHistory, Selects

LEMMA SelectVersionSteps ==
    ASSUME TypeInv, NEW v \in Rows, SelectVersion(v)
    PROVE  v \in Named(ui.list) /\ Selects(v, TRUE) /\ Slip(Switching) /\ req' = req
  <1>1. v \in Slots
    BY DEF Slots
  <1>2. InHistory([ui EXCEPT !.sel = v, !.snap = TRUE])
    BY DEF SelectVersion
  <1> QED
    BY <1>1, <1>2, Selecting DEF SelectVersion

LEMMA SelectDraftSteps ==
    ASSUME TypeInv, NEW s \in Slots, SelectDraft(s)
    PROVE  /\ DraftsOf(ui.list, s) # {} /\ (s = Root => ui.sel = Root)
           /\ Selects(s, FALSE) /\ Slip(Switching) /\ req' = req
  <1>2. InHistory([ui EXCEPT !.sel = s, !.snap = FALSE])
    BY DEF SelectDraft
  <1> QED
    BY <1>2, Selecting DEF SelectDraft

(* A definition is put on the canvas, as loadDefinition does.              *)
Puts(s, snap, t, def, base) ==
    /\ ui' \in Ui
    /\ ui'.sel = s /\ (ui'.snap <=> snap) /\ ui'.tab = t
    /\ ~ui'.error /\ ui'.list = ui.list
    /\ \/ /\ ui'.doc = def \cup {Seed} /\ ui'.dirty = (Seed \notin def) /\ ui'.base = base
          /\ Seed \notin def \/ base = BaseKey(ui')
       \/ Seed \in def /\ base # BaseKey(ui') /\ Reloaded'
    /\ TimerFine => TimerFine'

LEMMA Putting ==
    ASSUME TypeInv, NEW s \in Slots, NEW def \in SUBSET Contents, NEW base \in Slots,
           NEW snap \in BOOLEAN, NEW t \in {"graph", "history"},
           Render([LoadDefinition(ui, s, def, base) EXCEPT !.snap = snap, !.tab = t])
    PROVE  Puts(s, snap, t, def, base)
  <1>0. ui \in Ui
    BY EditorTypes DEF TypeInv
  <1>1. PICK w : w = LoadDefinition(ui, s, def, base)
    OBVIOUS
  <1>2. /\ w \in Ui /\ w.timer = ui.timer /\ w.sel = s
        /\ ~w.error /\ w.list = ui.list
        /\ w.doc = def \cup {Seed} /\ w.dirty = (Seed \notin def) /\ w.base = base
    BY <1>0, <1>1, LoadDefinitionMakes
  <1>3. PICK u : u = [w EXCEPT !.snap = snap, !.tab = t]
    OBVIOUS
  <1>4. /\ u \in Ui /\ u.timer = ui.timer /\ u.sel = s /\ (u.snap <=> snap) /\ u.tab = t
        /\ ~u.error /\ u.list = ui.list
        /\ u.doc = def \cup {Seed} /\ u.dirty = (Seed \notin def) /\ u.base = base
    BY <1>2, <1>3 DEF Ui
  <1>5. Render(u)
    BY <1>1, <1>3
  <1>6. /\ ui' \in Ui
        /\ ui'.sel = u.sel /\ ui'.snap = u.snap /\ ui'.tab = u.tab
        /\ ui'.error = u.error /\ ui'.list = u.list
        /\ \/ /\ ui'.doc = u.doc /\ ui'.dirty = u.dirty /\ ui'.base = u.base
              /\ u.dirty \/ u.base = BaseKey(ui')
           \/ ~u.dirty /\ u.base # BaseKey(ui') /\ Reloaded'
        /\ TimerFine => TimerFine'
    BY <1>0, <1>4, <1>5, Rendering
  <1>7. \/ /\ ui'.doc = def \cup {Seed} /\ ui'.dirty = (Seed \notin def) /\ ui'.base = base
           /\ Seed \notin def \/ base = BaseKey(ui')
        \/ Seed \in def /\ base # BaseKey(ui') /\ Reloaded'
    BY <1>4, <1>6
  <1> QED
    BY <1>4, <1>6, <1>7 DEF Puts

LEMMA ViewVersionSteps ==
    ASSUME TypeInv, ViewVersion
    PROVE  /\ ui.sel \in Named(ui.list)
           /\ Puts(ui.sel, TRUE, "graph", ui.list[ui.sel].def, ui.sel)
           /\ ui.snap \/ ActiveDraft(ui) = {}
           /\ Slip(Switching)
           /\ UNCHANGED <<row, req, pub, made, gone>>
  <1>0. ui \in Ui
    BY EditorTypes DEF TypeInv
  <1>1. ui.sel \in Named(ui.list)
    BY DEF ViewVersion
  <1>2. ui.sel \in Rows /\ ui.sel \in Slots /\ ui.list[ui.sel].def \in SUBSET Contents
    BY <1>0, <1>1 DEF Named, Slots, Ui, Row
  <1>3. Render([LoadDefinition(ui, ui.sel, ui.list[ui.sel].def, ui.sel)
                    EXCEPT !.snap = TRUE, !.tab = "graph"])
    BY DEF ViewVersion, InHistory
  <1>4. Puts(ui.sel, TRUE, "graph", ui.list[ui.sel].def, ui.sel)
    BY <1>2, <1>3, Putting
  <1> QED
    BY <1>1, <1>4 DEF ViewVersion, InHistory

LEMMA OpenVersionSteps ==
    ASSUME TypeInv, OpenVersion
    PROVE  /\ ui.sel \in Named(ui.list) /\ ~Opening /\ ui.tab = "history"
           /\ UNCHANGED <<row, pub, made, gone>>
           /\ \/ /\ ActiveDraft(ui) # {}
                 /\ First(ActiveDraft(ui)) \in ActiveDraft(ui)
                 /\ Puts(ui.sel, FALSE, "graph",
                         ui.list[First(ActiveDraft(ui))].def,
                         First(ActiveDraft(ui)))
                 /\ Slip(Switching) /\ req' = req
              \/ /\ ActiveDraft(ui) = {}
                 /\ Selects(ui.sel, FALSE)
                 /\ Slip(Switching \cup When("outdated list", DraftsOf(row, ui.sel) # {}))
                 /\ req' \in [Requests -> Request]
                 /\ req'["save"] = req["save"]
                 /\ req'["open"].pc = "sent" /\ req'["open"].to = ui.sel
                 /\ req'["open"].def = ui.list[ui.sel].def
                 /\ req'["open"].found = {}
  <1>0. ui \in Ui /\ req \in [Requests -> Request]
    BY EditorTypes DEF TypeInv
  <1>1. ui.sel \in Named(ui.list) /\ ~Opening
    BY DEF OpenVersion
  <1>2. ui.sel \in Rows /\ ui.sel \in Slots /\ ui.list[ui.sel].def \in SUBSET Contents
    BY <1>0, <1>1 DEF Named, Slots, Ui, Row
  <1>3. CASE ActiveDraft(ui) # {}
    <2>1. PICK d : d = First(ActiveDraft(ui))
      OBVIOUS
    <2>2. d \in ActiveDraft(ui) /\ d \in Rows
      BY <1>0, <1>3, <2>1, FirstIsOne, BaseIsOfList
    <2>3. d \in Slots /\ ui.list[d].def \in SUBSET Contents
      BY <1>0, <2>2 DEF Slots, Ui, Row
    <2>4. InHistory([LoadDefinition(ui, ui.sel, ui.list[d].def, d)
                        EXCEPT !.snap = FALSE, !.tab = "graph"])
          /\ Slip(Switching) /\ req' = req
      BY <1>3, <2>1 DEF OpenVersion
    <2>5. Puts(ui.sel, FALSE, "graph", ui.list[d].def, d)
      BY <1>2, <2>3, <2>4, Putting DEF InHistory
    <2> QED
      BY <1>1, <1>3, <2>1, <2>2, <2>4, <2>5 DEF InHistory
  <1>4. CASE ActiveDraft(ui) = {}
    <2>1. /\ InHistory([ui EXCEPT !.snap = FALSE])
          /\ Slip(Switching \cup When("outdated list", DraftsOf(row, ui.sel) # {}))
          /\ req' = [req EXCEPT !["open"] = [pc |-> "sent", to |-> ui.sel,
                               def |-> ui.list[ui.sel].def, found |-> {}]]
      BY <1>4 DEF OpenVersion
    <2>2. [ui EXCEPT !.snap = FALSE] = [ui EXCEPT !.sel = ui.sel, !.snap = FALSE]
      BY <1>0 DEF Ui
    <2>3. Selects(ui.sel, FALSE)
      <3>1. InHistory([ui EXCEPT !.sel = ui.sel, !.snap = FALSE])
        BY <2>1, <2>2
      <3> QED
        BY <1>2, <3>1, Selecting
    <2>4. PICK q : q = [pc |-> "sent", to |-> ui.sel, def |-> ui.list[ui.sel].def, found |-> {}]
      OBVIOUS
    <2>5. q \in Request /\ q.pc = "sent" /\ q.to = ui.sel /\ q.def = ui.list[ui.sel].def
          /\ q.found = {}
      BY <1>2, <2>4 DEF Request
    <2>6. req' \in [Requests -> Request] /\ req'["save"] = req["save"] /\ req'["open"] = q
      BY <1>0, <2>1, <2>4, <2>5 DEF Requests
    <2> QED
      BY <1>1, <1>4, <2>1, <2>3, <2>5, <2>6 DEF Selects
  <1> QED
    BY <1>3, <1>4

-----------------------------------------------------------------------------
(* Answers, reloading and publishing.                                      *)

LEMMA OpenAnsweredSteps ==
    ASSUME TypeInv, OpenAnswered
    PROVE  /\ req["open"].pc = "stored"
           /\ First(req["open"].found) \in req["open"].found
           /\ Puts(req["open"].to, ui.snap, "graph", req["open"].def,
                   First(req["open"].found))
           /\ Slip(When("switch while dirty", ui.dirty))
           /\ req' \in [Requests -> Request]
           /\ req'["open"] = NoReq /\ req'["save"] = req["save"]
           /\ UNCHANGED <<row, pub, made, gone>>
  <1>0. ui \in Ui /\ req \in [Requests -> Request]
    BY EditorTypes DEF TypeInv
  <1>1. PICK q : q = req["open"]
    OBVIOUS
  <1>2. q \in Request /\ q.pc = "stored" /\ q.found # {}
    BY <1>0, <1>1 DEF OpenAnswered, Requests, TypeInv, StoredSomewhere
  <1>3. PICK d : d = First(q.found)
    OBVIOUS
  <1>4. d \in q.found /\ d \in Rows
    BY <1>2, <1>3, FirstIsOne DEF Request
  <1>5. Render([LoadDefinition(ui, q.to, q.def, d) EXCEPT !.tab = "graph"])
    BY <1>1, <1>3 DEF OpenAnswered
  <1>6. [LoadDefinition(ui, q.to, q.def, d) EXCEPT !.tab = "graph"]
        = [LoadDefinition(ui, q.to, q.def, d) EXCEPT !.snap = ui.snap, !.tab = "graph"]
    <2>0. PICK s \in Slots, def \in SUBSET Contents : s = q.to /\ def = q.def
      BY <1>2 DEF Request
    <2>1. PICK w : w = LoadDefinition(ui, s, def, d)
      OBVIOUS
    <2>2. w \in Ui /\ w.snap = ui.snap
      <3>1. d \in Slots
        BY <1>4 DEF Slots
      <3> QED
        BY <1>0, <2>1, <3>1, LoadDefinitionMakes
    <2>3. [w EXCEPT !.tab = "graph"] = [w EXCEPT !.snap = ui.snap, !.tab = "graph"]
      BY <2>2 DEF Ui
    <2> QED
      BY <2>0, <2>1, <2>3
  <1>7. Puts(q.to, ui.snap, "graph", q.def, d)
    <2>1. Render([LoadDefinition(ui, q.to, q.def, d) EXCEPT !.snap = ui.snap, !.tab = "graph"])
      BY <1>5, <1>6
    <2>2. q.to \in Slots /\ q.def \in SUBSET Contents /\ d \in Slots /\ ui.snap \in BOOLEAN
      BY <1>0, <1>2, <1>4 DEF Request, Slots, Ui
    <2> QED
      BY <2>1, <2>2, Putting
  <1>8. req' = [req EXCEPT !["open"] = NoReq]
    BY DEF OpenAnswered
  <1>9. NoReq \in Request
    BY DEF NoReq, Request, Slots
  <1>10. req' \in [Requests -> Request] /\ req'["open"] = NoReq /\ req'["save"] = req["save"]
    BY <1>0, <1>8, <1>9 DEF Requests
  <1> QED
    BY <1>1, <1>2, <1>3, <1>4, <1>7, <1>10 DEF OpenAnswered

LEMMA PromoteAnsweredSteps ==
    ASSUME TypeInv, PromoteAnswered
    PROVE  /\ pub.pc = "stored" /\ pub.as \in Rows
           /\ Puts(pub.as, TRUE, "history", row[pub.as].def, pub.as)
           /\ pub' = NoPub
           /\ UNCHANGED <<row, req, made, gone, slips>>
  <1>0. row \in [Rows -> Row]
    BY EditorTypes DEF TypeInv
  <1>1. pub.pc = "stored" /\ pub.as \in Rows
    BY DEF PromoteAnswered, TypeInv, StoredSomewhere
  <1>2. pub.as \in Slots /\ row[pub.as].def \in SUBSET Contents
    BY <1>0, <1>1 DEF Slots, Row
  <1>3. Render([LoadDefinition(ui, pub.as, row[pub.as].def, pub.as)
                 EXCEPT !.snap = TRUE, !.tab = "history"])
    BY DEF PromoteAnswered
  <1>4. Puts(pub.as, TRUE, "history", row[pub.as].def, pub.as)
    BY <1>2, <1>3, Putting
  <1> QED
    BY <1>1, <1>4 DEF PromoteAnswered

LEMMA ReloadSteps ==
    ASSUME TypeInv, Reload
    PROVE  /\ ~Busy
           /\ ui' \in Ui
           /\ \/ ui.sel = Root /\ ui'.sel \in Named(row) /\ ~ui'.snap
              \/ ui'.sel = ui.sel /\ (ui'.snap <=> (ui.snap /\ ui.sel # Root))
           /\ ui'.tab = "graph" /\ ~ui'.error /\ ui'.list = row
           /\ Reloaded'
           /\ TimerFine'
           /\ gone' = IF ui.dirty THEN gone \cup (ui.doc \cap Edits) ELSE gone
           /\ UNCHANGED <<row, req, pub, made, slips>>
  <1>0. ui \in Ui /\ row \in [Rows -> Row]
    BY EditorTypes DEF TypeInv
  <1>1. CASE \E v \in Named(row) : ui.sel = Root /\ ui' = Page(row, v, FALSE)
    <2>1. PICK v \in Named(row) : ui.sel = Root /\ ui' = Page(row, v, FALSE)
      BY <1>1
    <2>2. v \in Slots
      BY <2>1 DEF Named, Slots
    <2>2a. PICK b \in BOOLEAN : b = FALSE
      OBVIOUS
    <2>3. PICK p : p = ui' /\ p = Page(row, v, b)
      BY <2>1, <2>2a
    <2>4. /\ p \in Ui /\ p.sel = v /\ (p.snap <=> b) /\ p.tab = "graph"
          /\ p.doc = ServerDef(p) \cup {Seed} /\ p.dirty = (Seed \notin ServerDef(p))
          /\ p.base = BaseKey(p) /\ (p.timer => p.dirty /\ InEdit(p))
          /\ ~p.error /\ p.list = row
      BY <1>0, <2>2, <2>3, PageMakes
    <2>5. Reloaded' /\ TimerFine'
      BY <2>3, <2>4 DEF Reloaded, TimerFine
    <2> QED
      BY <2>1, <2>2a, <2>3, <2>4, <2>5 DEF Reload
  <1>2. CASE ui' = Page(row, ui.sel, ui.snap /\ ui.sel # Root)
    <2>1. PICK b \in BOOLEAN : b = (ui.snap /\ ui.sel # Root)
      OBVIOUS
    <2>2. PICK s \in Slots : s = ui.sel
      BY <1>0 DEF Ui
    <2>3. PICK p : p = ui' /\ p = Page(row, s, b)
      BY <1>2, <2>1, <2>2
    <2>4. /\ p \in Ui /\ p.sel = s /\ (p.snap <=> b) /\ p.tab = "graph"
          /\ p.doc = ServerDef(p) \cup {Seed} /\ p.dirty = (Seed \notin ServerDef(p))
          /\ p.base = BaseKey(p) /\ (p.timer => p.dirty /\ InEdit(p))
          /\ ~p.error /\ p.list = row
      BY <1>0, <2>2, <2>3, PageMakes
    <2>5. Reloaded' /\ TimerFine'
      BY <2>3, <2>4 DEF Reloaded, TimerFine
    <2> QED
      BY <2>1, <2>2, <2>3, <2>4, <2>5 DEF Reload
  <1> QED
    BY <1>1, <1>2 DEF Reload

LEMMA PublishSteps ==
    ASSUME TypeInv, Publish
    PROVE  /\ PublishOffered(ui) /\ pub.pc = "idle"
           /\ pub' \in Publication
           /\ pub'.from = ui.sel /\ pub'.def = Shown(ui) /\ pub'.as = Root
           /\ \/ /\ Saving \/ ~NeedsSave(ui)
                 /\ pub'.pc = "sent" /\ UNCHANGED <<req, ui>>
              \/ /\ NeedsSave(ui) /\ SaveIsSent
                 /\ pub'.pc = "saving"
                 /\ ui' \in Ui
                 /\ ui'.sel = ui.sel /\ ui'.snap = ui.snap /\ ui'.tab = ui.tab
                 /\ ui'.list = ui.list /\ ui'.timer = ui.timer
                 /\ ui'.doc = ui.doc /\ ui'.dirty = ui.dirty /\ ui'.base = ui.base
                 /\ ~ui'.error
           /\ Slip(Working \cup When("publish while saving", Saving)
                     \cup When("switch while dirty", ui.dirty /\ Mode(ui) = "view"))
           /\ UNCHANGED <<row, made, gone>>
  <1>0. ui \in Ui
    BY EditorTypes DEF TypeInv
  <1>1. PICK def \in SUBSET Contents : def = Shown(ui)
    BY <1>0, ShownIsDef
  <1>2. PICK pc \in {"saving", "sent"} :
          /\ pub' = [pc |-> pc, from |-> ui.sel, def |-> def, as |-> Root]
          /\ \/ pc = "sent" /\ (Saving \/ ~NeedsSave(ui)) /\ UNCHANGED <<req, ui>>
             \/ pc = "saving" /\ ~Saving /\ NeedsSave(ui) /\ StartSave
                /\ ui' = [ui EXCEPT !.error = FALSE]
    BY <1>1 DEF Publish
  <1>3. pub' \in Publication /\ pub'.pc = pc /\ pub'.from = ui.sel /\ pub'.def = def /\ pub'.as = Root
    BY <1>0, <1>2 DEF Publication, Ui, Slots
  <1>4. CASE pc = "sent" /\ (Saving \/ ~NeedsSave(ui)) /\ UNCHANGED <<req, ui>>
    BY <1>1, <1>3, <1>4 DEF Publish
  <1>5. CASE pc = "saving" /\ ~Saving /\ NeedsSave(ui) /\ StartSave
                /\ ui' = [ui EXCEPT !.error = FALSE]
    <2>1. SaveIsSent
      BY <1>5, StartSaveMakes
    <2>2. /\ ui' \in Ui
          /\ ui'.sel = ui.sel /\ ui'.snap = ui.snap /\ ui'.tab = ui.tab
          /\ ui'.list = ui.list /\ ui'.timer = ui.timer
          /\ ui'.doc = ui.doc /\ ui'.dirty = ui.dirty /\ ui'.base = ui.base
          /\ ~ui'.error
      BY <1>0, <1>5 DEF Ui
    <2> QED
      BY <1>1, <1>3, <1>5, <2>1, <2>2 DEF Publish
  <1> QED
    BY <1>2, <1>4, <1>5

LEMMA SaveFailsSteps ==
    ASSUME TypeInv, SaveFails
    PROVE  /\ Saving
           /\ req' \in [Requests -> Request]
           /\ req'["save"] = NoReq /\ req'["open"] = req["open"]
           /\ ui' \in Ui
           /\ ui'.sel = ui.sel /\ ui'.snap = ui.snap /\ ui'.tab = ui.tab
           /\ ui'.list = ui.list /\ ui'.timer = ui.timer
           /\ ui'.doc = ui.doc /\ ui'.dirty = ui.dirty /\ ui'.base = ui.base
           /\ ui'.error
           /\ pub' = IF pub.pc = "saving" THEN NoPub ELSE pub
           /\ UNCHANGED <<row, made, gone, slips>>
  <1>0. ui \in Ui /\ req \in [Requests -> Request]
    BY EditorTypes DEF TypeInv
  <1>1. req' = [req EXCEPT !["save"] = NoReq] /\ ui' = [ui EXCEPT !.error = TRUE]
    BY DEF SaveFails
  <1>2. NoReq \in Request
    BY DEF NoReq, Request, Slots
  <1>3. req' \in [Requests -> Request] /\ req'["save"] = NoReq /\ req'["open"] = req["open"]
    BY <1>0, <1>1, <1>2 DEF Requests
  <1> QED
    BY <1>0, <1>1, <1>3 DEF SaveFails, Ui

LEMMA OpenFailsSteps ==
    ASSUME TypeInv, OpenFails
    PROVE  /\ Opening
           /\ req' \in [Requests -> Request]
           /\ req'["open"] = NoReq /\ req'["save"] = req["save"]
           /\ UNCHANGED <<row, ui, pub, made, gone, slips>>
  <1>0. req \in [Requests -> Request]
    BY EditorTypes DEF TypeInv
  <1>1. req' = [req EXCEPT !["open"] = NoReq]
    BY DEF OpenFails
  <1>2. NoReq \in Request
    BY DEF NoReq, Request, Slots
  <1>3. req' \in [Requests -> Request] /\ req'["open"] = NoReq /\ req'["save"] = req["save"]
    BY <1>0, <1>1, <1>2 DEF Requests
  <1> QED
    BY <1>3 DEF OpenFails, Opening

-----------------------------------------------------------------------------
(* The steps of the backend: the row that is written, and the others.      *)
OthersSame(r) == \A q \in Rows : q # r => row'[q] = row[q]
RowInserted(r, s, def) ==
    /\ r \in Rows /\ row[r].st = "free"
    /\ row' \in [Rows -> Row] /\ OthersSame(r)
    /\ row'[r].st = "draft" /\ row'[r].parent = s /\ row'[r].def = def
RowSaved(r, def) ==
    /\ r \in Rows
    /\ row' \in [Rows -> Row] /\ OthersSame(r)
    /\ row'[r].st = row[r].st /\ row'[r].parent = row[r].parent /\ row'[r].def = def
RowNamed(r) ==
    /\ r \in Rows
    /\ row' \in [Rows -> Row] /\ OthersSame(r)
    /\ row'[r].st = "named" /\ row'[r].parent = row[r].parent /\ row'[r].def = row[r].def

LEMMA Inserting ==
    ASSUME TypeInv, NEW r, r \in Rows, row[r].st = "free", NEW s \in Slots, NEW def \in SUBSET Contents,
           row' = [row EXCEPT ![r] = [st |-> "draft", parent |-> s, def |-> def]]
    PROVE  RowInserted(r, s, def)
  <1>0. row \in [Rows -> Row]
    BY EditorTypes DEF TypeInv
  <1>1. PICK w : w = [st |-> "draft", parent |-> s, def |-> def]
    OBVIOUS
  <1>2. w \in Row /\ w.st = "draft" /\ w.parent = s /\ w.def = def
    BY <1>1 DEF Row
  <1>3. row' = [row EXCEPT ![r] = w]
    BY <1>1
  <1>4. row' \in [Rows -> Row] /\ row'[r] = w /\ \A q \in Rows : q # r => row'[q] = row[q]
    BY <1>0, <1>2, <1>3
  <1> QED
    BY <1>2, <1>4 DEF RowInserted, OthersSame

LEMMA Rewriting ==
    ASSUME TypeInv, NEW r, r \in Rows, NEW def \in SUBSET Contents,
           row' = [row EXCEPT ![r].def = def]
    PROVE  RowSaved(r, def)
  <1>0. row \in [Rows -> Row]
    BY EditorTypes DEF TypeInv
  <1>1. PICK w : w = [row[r] EXCEPT !.def = def]
    OBVIOUS
  <1>2. w \in Row /\ w.st = row[r].st /\ w.parent = row[r].parent /\ w.def = def
    BY <1>0, <1>1 DEF Row
  <1>3. row' = [row EXCEPT ![r] = w]
    BY <1>1
  <1>4. row' \in [Rows -> Row] /\ row'[r] = w /\ \A q \in Rows : q # r => row'[q] = row[q]
    BY <1>0, <1>2, <1>3
  <1> QED
    BY <1>2, <1>4 DEF RowSaved, OthersSame

LEMMA Naming ==
    ASSUME TypeInv, NEW r, r \in Rows, row' = [row EXCEPT ![r].st = "named"]
    PROVE  RowNamed(r)
  <1>0. row \in [Rows -> Row]
    BY EditorTypes DEF TypeInv
  <1>1. PICK w : w = [row[r] EXCEPT !.st = "named"]
    OBVIOUS
  <1>2. w \in Row /\ w.st = "named" /\ w.parent = row[r].parent /\ w.def = row[r].def
    BY <1>0, <1>1 DEF Row
  <1>3. row' = [row EXCEPT ![r] = w]
    BY <1>1
  <1>4. row' \in [Rows -> Row] /\ row'[r] = w /\ \A q \in Rows : q # r => row'[q] = row[q]
    BY <1>0, <1>2, <1>3
  <1> QED
    BY <1>2, <1>4 DEF RowNamed, OthersSame

LEMMA AtMostOne ==
    ASSUME NEW S, S \subseteq Rows
    PROVE  Cardinality(S) <= 1 <=> \A q, r \in S : q = r
  <1>0. IsFiniteSet(S)
    BY FS_Subset
  <1>1. ASSUME Cardinality(S) <= 1 PROVE \A q, r \in S : q = r
    <2>1. Cardinality(S) \in Nat
      BY <1>0, FS_CardinalityType
    <2>2. CASE Cardinality(S) = 0
      BY <1>0, <2>2, FS_EmptySet
    <2>3. CASE Cardinality(S) = 1
      <3>1. \E x : S = {x}
        BY <1>0, <2>3, FS_Singleton
      <3> QED
        BY <3>1
    <2> QED
      BY <1>1, <2>1, <2>2, <2>3
  <1>2. ASSUME \A q, r \in S : q = r PROVE Cardinality(S) <= 1
    <2>1. CASE S = {}
      BY <2>1, FS_EmptySet
    <2>2. CASE S # {}
      <3>1. PICK x \in S : TRUE
        BY <2>2
      <3>2. S = {x}
        BY <1>2, <3>1
      <3> QED
        BY <3>2, FS_Singleton
    <2> QED
      BY <2>1, <2>2
  <1> QED
    BY <1>1, <1>2

LEMMA FindSteps ==
    ASSUME TypeInv, NEW k \in Requests, FindDraft(k)
    PROVE  /\ req[k].pc = "sent"
           /\ \A q, r \in DraftsOf(row, req[k].to) : q = r
           /\ req' \in [Requests -> Request]
           /\ \A j \in Requests : j # k => req'[j] = req[j]
           /\ req'[k].pc = "found" /\ req'[k].to = req[k].to
           /\ req'[k].def = req[k].def /\ req'[k].found = DraftsOf(row, req[k].to)
           /\ UNCHANGED <<row, ui, pub, made, gone, slips>>
  <1>0. row \in [Rows -> Row] /\ req \in [Requests -> Request]
    BY EditorTypes DEF TypeInv
  <1>1. PICK D \in SUBSET Rows : D = DraftsOf(row, req[k].to)
    BY DEF DraftsOf
  <1>2. Cardinality(D) <= 1 /\ req' = [req EXCEPT ![k].pc = "found", ![k].found = D]
    BY <1>1 DEF FindDraft
  <1>3. \A q, r \in D : q = r
    BY <1>2, AtMostOne
  <1>4. PICK w : w = [req[k] EXCEPT !.pc = "found", !.found = D]
    OBVIOUS
  <1>5. w \in Request /\ w.pc = "found" /\ w.to = req[k].to /\ w.def = req[k].def /\ w.found = D
    BY <1>0, <1>4 DEF Request
  <1>6. req' = [req EXCEPT ![k] = w]
    BY <1>0, <1>2, <1>4
  <1>7. req' \in [Requests -> Request] /\ req'[k] = w /\ \A j \in Requests : j # k => req'[j] = req[j]
    BY <1>0, <1>5, <1>6
  <1> QED
    BY <1>1, <1>3, <1>5, <1>7 DEF FindDraft

LEMMA WriteSteps ==
    ASSUME TypeInv, NEW k \in Requests, WriteDraft(k)
    PROVE  /\ req[k].pc = "found"
           /\ req' \in [Requests -> Request]
           /\ \A j \in Requests : j # k => req'[j] = req[j]
           /\ req'[k].pc = "stored" /\ req'[k].to = req[k].to
           /\ req'[k].def = req[k].def
           /\ \/ /\ req[k].found = {}
                 /\ \E r \in Rows : /\ RowInserted(r, req[k].to, req[k].def)
                                    /\ req'[k].found = {r}
              \/ \E r \in req[k].found :
                    /\ RowSaved(r, req[k].def)
                    /\ req'[k].found = req[k].found
                    /\ r = First(req[k].found)
           /\ UNCHANGED <<ui, pub, made, gone, slips>>
  <1>0. row \in [Rows -> Row] /\ req \in [Requests -> Request]
    BY EditorTypes DEF TypeInv
  <1>1. PICK q \in Request : q = req[k]
    BY <1>0
  <1>2. PICK s \in Slots, def \in SUBSET Contents, D \in SUBSET Rows :
          s = q.to /\ def = q.def /\ D = q.found
    BY DEF Request
  <1>3. CASE D = {} /\ Free # {} /\ row' = [row EXCEPT ![First(Free)] =
                         [st |-> "draft", parent |-> q.to, def |-> q.def]]
             /\ req' = [req EXCEPT ![k].pc = "stored", ![k].found = {First(Free)}]
    <2>1. PICK r : r = First(Free)
      OBVIOUS
    <2>2. r \in Free
      BY <1>3, <2>1, FirstIsOne DEF Free
    <2>3. r \in Rows /\ row[r].st = "free"
      BY <2>2 DEF Free
    <2>4. row' = [row EXCEPT ![r] = [st |-> "draft", parent |-> s, def |-> def]]
      BY <1>2, <1>3, <2>1
    <2>5. RowInserted(r, s, def)
      BY <2>3, <2>4, Inserting
    <2>6. PICK w : w = [req[k] EXCEPT !.pc = "stored", !.found = {r}]
      OBVIOUS
    <2>7. w \in Request /\ w.pc = "stored" /\ w.to = s /\ w.def = def /\ w.found = {r}
      BY <1>1, <1>2, <2>3, <2>6 DEF Request
    <2>8. req' = [req EXCEPT ![k] = w]
      BY <1>0, <1>3, <2>1, <2>6
    <2>9. req' \in [Requests -> Request] /\ req'[k] = w /\ \A j \in Requests : j # k => req'[j] = req[j]
      BY <1>0, <2>7, <2>8
    <2> QED
      BY <1>1, <1>2, <1>3, <2>3, <2>5, <2>7, <2>9 DEF WriteDraft
  <1>4. CASE D # {} /\ row' = [row EXCEPT ![First(D)].def = q.def]
             /\ req' = [req EXCEPT ![k].pc = "stored"]
    <2>1. PICK r : r = First(D)
      OBVIOUS
    <2>2. r \in D /\ r \in Rows
      BY <1>4, <2>1, FirstIsOne
    <2>4. row' = [row EXCEPT ![r].def = def]
      BY <1>2, <1>4, <2>1
    <2>5. RowSaved(r, def)
      BY <2>2, <2>4, Rewriting
    <2>6. PICK w : w = [req[k] EXCEPT !.pc = "stored"]
      OBVIOUS
    <2>7. w \in Request /\ w.pc = "stored" /\ w.to = s /\ w.def = def /\ w.found = D
      BY <1>1, <1>2, <2>6 DEF Request
    <2>8. req' = [req EXCEPT ![k] = w]
      BY <1>0, <1>4, <2>6
    <2>9. req' \in [Requests -> Request] /\ req'[k] = w /\ \A j \in Requests : j # k => req'[j] = req[j]
      BY <1>0, <2>7, <2>8
    <2> QED
      BY <1>1, <1>2, <1>4, <2>1, <2>2, <2>5, <2>7, <2>9 DEF WriteDraft
  <1> QED
    BY <1>1, <1>2, <1>3, <1>4 DEF WriteDraft, Inserts

StartOf(s) == IF s = Root THEN {Seed} ELSE row[s].def

LEMMA OtherSteps ==
    ASSUME TypeInv, NEW e \in Edits, NEW s \in Slots, OtherSaves(s, e)
    PROVE  /\ e \in Others /\ made[e] = NoSlot
           /\ s \in Named(row) \cup {Root}
           /\ made' = [made EXCEPT ![e] = s]
           /\ gone' = gone \cup {e}
           /\ \A q, r \in DraftsOf(row, s) : q = r
           /\ \/ /\ DraftsOf(row, s) = {}
                 /\ \E r \in Rows : RowInserted(r, s, StartOf(s) \cup {e})
              \/ \E r \in DraftsOf(row, s) : \E def \in {StartOf(s), row[r].def} :
                    RowSaved(r, def \cup {e})
           /\ Slip(When("another client",
                  \/ s \in {ui.sel, pub.from}
                  \/ \E k \in {"save", "open"} : req[k].pc # "idle" /\ req[k].to = s
                  \/ \E r \in Rows : ~(row[r].def \subseteq row'[r].def)))
           /\ UNCHANGED <<ui, req, pub>>
  <1>0. row \in [Rows -> Row]
    BY EditorTypes DEF TypeInv
  <1>1. PICK D \in SUBSET Rows : D = DraftsOf(row, s)
    BY DEF DraftsOf
  <1>2. /\ s \in Named(row) \cup {Root} /\ Cardinality(D) <= 1
    BY <1>1 DEF OtherSaves
  <1>3. \A q, r \in D : q = r
    BY <1>2, AtMostOne
  <1>4. PICK start \in SUBSET Contents : start = StartOf(s)
    <2>1. CASE s = Root
      BY <2>1 DEF StartOf, Contents
    <2>2. CASE s # Root
      BY <1>0, <2>2 DEF StartOf, Slots, Row
    <2> QED
      BY <2>1, <2>2
  <1>5. e \in Contents
    BY DEF Contents
  <1>6. CASE D = {} /\ Free # {} /\ row' = [row EXCEPT ![First(Free)] =
                       [st |-> "draft", parent |-> s, def |-> start \cup {e}]]
    <2>1. PICK r : r = First(Free)
      OBVIOUS
    <2>2. r \in Free
      BY <1>6, <2>1, FirstIsOne DEF Free
    <2>3. r \in Rows /\ row[r].st = "free"
      BY <2>2 DEF Free
    <2>4. PICK def \in SUBSET Contents : def = start \cup {e}
      BY <1>5
    <2>5. row' = [row EXCEPT ![r] = [st |-> "draft", parent |-> s, def |-> def]]
      BY <1>6, <2>1, <2>4
    <2>6. RowInserted(r, s, def)
      BY <2>3, <2>5, Inserting
    <2> QED
      BY <1>1, <1>2, <1>3, <1>4, <1>6, <2>3, <2>4, <2>6 DEF OtherSaves
  <1>7. ASSUME D # {}, \E def \in {start, CurrentDef(s)} : row' = [row EXCEPT ![First(D)].def = def \cup {e}]
        PROVE \E r \in D : \E def \in {start, row[r].def} : RowSaved(r, def \cup {e})
    <2>1. PICK r : r = First(D)
      OBVIOUS
    <2>2. r \in D /\ r \in Rows
      BY <1>7, <2>1, FirstIsOne
    <2>3. CurrentDef(s) = row[r].def
      BY <1>1, <1>7, <2>1 DEF CurrentDef
    <2>4. PICK def \in {start, row[r].def} : row' = [row EXCEPT ![r].def = def \cup {e}]
      BY <1>7, <2>1, <2>3
    <2>5. row[r].def \in SUBSET Contents
      BY <1>0, <2>2 DEF Row
    <2>6. PICK d \in SUBSET Contents : d = def \cup {e}
      BY <1>5, <2>4, <2>5
    <2>7. RowSaved(r, d)
      BY <2>2, <2>4, <2>6, Rewriting
    <2> QED
      BY <2>2, <2>4, <2>6, <2>7
  <1>8. \/ D = {} /\ Free # {} /\ row' = [row EXCEPT ![First(Free)] =
                       [st |-> "draft", parent |-> s, def |-> start \cup {e}]]
        \/ D # {} /\ \E def \in {start, CurrentDef(s)} : row' = [row EXCEPT ![First(D)].def = def \cup {e}]
    BY <1>1, <1>4 DEF OtherSaves, StartOf
  <1>9. CASE D # {} /\ \E r \in D : \E def \in {start, row[r].def} : RowSaved(r, def \cup {e})
    BY <1>1, <1>2, <1>3, <1>4, <1>9 DEF OtherSaves
  <1> QED
    BY <1>6, <1>7, <1>8, <1>9

LEMMA PromoteSteps ==
    ASSUME TypeInv, Promote
    PROVE  /\ pub.pc = "sent"
           /\ pub.from = Root => \A q \in Named(row) : row[q].parent # Root
           /\ pub' \in Publication
           /\ pub'.pc = "stored" /\ pub'.from = pub.from /\ pub'.def = pub.def
           /\ \E r \in DraftsOf(row, pub.from) :
                 /\ \A q \in DraftsOf(row, pub.from) : q = r
                 /\ RowNamed(r) /\ pub'.as = r
           /\ UNCHANGED <<ui, req, made, gone, slips>>
  <1>0. row \in [Rows -> Row] /\ pub \in Publication
    BY EditorTypes DEF TypeInv
  <1>1. PICK D \in SUBSET Rows : D = DraftsOf(row, pub.from)
    BY DEF DraftsOf
  <1>2. /\ Cardinality(D) = 1
        /\ row' = [row EXCEPT ![First(D)].st = "named"]
        /\ pub' = [pub EXCEPT !.pc = "stored", !.as = First(D)]
    BY <1>1 DEF Promote
  <1>3. \A q, r \in D : q = r
    BY <1>2, AtMostOne
  <1>4. D # {}
    BY <1>2, FS_EmptySet
  <1>5. PICK r : r = First(D)
    OBVIOUS
  <1>6. r \in D /\ r \in Rows /\ r \in Slots
    BY <1>4, <1>5, FirstIsOne DEF Slots
  <1>7. row' = [row EXCEPT ![r].st = "named"] /\ pub' = [pub EXCEPT !.pc = "stored", !.as = r]
    BY <1>2, <1>5
  <1>8. RowNamed(r)
    BY <1>6, <1>7, Naming
  <1>9. pub' \in Publication /\ pub'.pc = "stored" /\ pub'.from = pub.from /\ pub'.def = pub.def /\ pub'.as = r
    BY <1>0, <1>6, <1>7 DEF Publication
  <1> QED
    BY <1>1, <1>3, <1>6, <1>8, <1>9 DEF Promote

-----------------------------------------------------------------------------
(* The steps of the system, one case each.                                 *)
LEMMA NextCases ==
    ASSUME [Next]_vars
    PROVE  \/ \E e \in Edits : Edit(e)
           \/ \E e \in Edits : \E s \in Slots : OtherSaves(s, e)
           \/ AutosaveFires
           \/ RetrySave
           \/ SaveFails
           \/ SaveAnswered
           \/ \E k \in Requests : FindDraft(k)
           \/ \E k \in Requests : WriteDraft(k)
           \/ OpenFails
           \/ OpenAnswered
           \/ PromoteFails
           \/ PromoteAnswered
           \/ Promote
           \/ Refetch
           \/ Reload
           \/ \E t \in {"graph", "history"} : OpenTab(t)
           \/ \E v \in Rows : SelectVersion(v)
           \/ \E s \in Slots : SelectDraft(s)
           \/ ViewVersion
           \/ OpenVersion
           \/ Publish
           \/ UNCHANGED vars
  <1>1. "save" \in Requests /\ "open" \in Requests
    BY DEF Requests
  <1> QED
    BY <1>1 DEF Next, Save, Open, Promotion

(* What a save that fails or is answered does to a publication.            *)
LEMMA PublicationMoves ==
    ASSUME TypeInv, \/ pub' = IF pub.pc = "saving" THEN NoPub ELSE pub
                    \/ pub' = IF pub.pc = "saving" THEN [pub EXCEPT !.pc = "sent"] ELSE pub
                    \/ pub' = NoPub
    PROVE  /\ pub' \in Publication
           /\ pub'.pc # "idle" => pub'.from = pub.from /\ pub'.def = pub.def /\ pub'.as = pub.as
           /\ pub'.pc \in {pub.pc, "idle", "sent"}
           /\ pub'.pc = "sent" => pub.pc \in {"saving", "sent"}
           /\ pub'.pc # "idle" => pub.pc # "idle"
  <1>1. pub \in Publication
    BY EditorTypes DEF TypeInv
  <1>2. NoPub \in Publication /\ NoPub.pc = "idle"
    BY DEF NoPub, Publication, Slots
  <1>3. ASSUME pub.pc = "saving", pub' = [pub EXCEPT !.pc = "sent"]
        PROVE /\ pub' \in Publication /\ pub'.pc = "sent" /\ pub'.from = pub.from
              /\ pub'.def = pub.def /\ pub'.as = pub.as
    BY <1>1, <1>3 DEF Publication
  <1> QED
    BY <1>1, <1>2, <1>3

LEMMA Slipping == ASSUME NEW S, Slip(S) PROVE S \subseteq Slips /\ slips' = slips \cup S
  BY DEF Slip

LEMMA SlipsGrow ==
    ASSUME TypeInv, [Next]_vars PROVE slips \subseteq slips' /\ slips' \subseteq Slips
  <1>0. slips \subseteq Slips
    BY EditorTypes DEF TypeInv
  <1>1. slips' = slips \/ \E S : Slip(S)
    <2>1. ASSUME NEW e \in Edits, Edit(e) PROVE \E S : Slip(S)
      BY <2>1 DEF Edit
    <2>2. ASSUME NEW e \in Edits, NEW s \in Slots, OtherSaves(s, e) PROVE \E S : Slip(S)
      BY <2>2 DEF OtherSaves
    <2>3. ASSUME RetrySave \/ ViewVersion \/ OpenVersion \/ OpenAnswered \/ Publish
                 \/ (\E v \in Rows : SelectVersion(v)) \/ (\E s \in Slots : SelectDraft(s))
          PROVE \E S : Slip(S)
      BY <2>3 DEF RetrySave, ViewVersion, OpenVersion, OpenAnswered, Publish, SelectVersion, SelectDraft
    <2>4. ASSUME \/ AutosaveFires \/ SaveFails \/ SaveAnswered
                 \/ (\E k \in Requests : FindDraft(k)) \/ (\E k \in Requests : WriteDraft(k))
                 \/ OpenFails \/ PromoteFails \/ PromoteAnswered \/ Promote \/ Refetch \/ Reload
                 \/ (\E t \in {"graph", "history"} : OpenTab(t)) \/ UNCHANGED vars
          PROVE slips' = slips
      BY <2>4 DEF AutosaveFires, SaveFails, SaveAnswered, FindDraft, WriteDraft, OpenFails,
           PromoteFails, PromoteAnswered, Promote, Refetch, Reload, OpenTab, vars
    <2> QED
      BY NextCases, <2>1, <2>2, <2>3, <2>4
  <1>2. CASE slips' = slips
    BY <1>0, <1>2
  <1>3. CASE \E S : Slip(S)
    BY <1>0, <1>3, Slipping
  <1> QED
    BY <1>1, <1>2, <1>3

(* Every step keeps the types.                                             *)
LEMMA TypeNext ==
    ASSUME TypeInv, [Next]_vars PROVE TypeInv'
  <1>0. /\ row \in [Rows -> Row] /\ ui \in Ui /\ req \in [Requests -> Request]
        /\ pub \in Publication /\ made \in [Edits -> Slots \cup {NoSlot}] /\ gone \subseteq Edits
    BY EditorTypes DEF TypeInv
  <1>s. slips' \subseteq Slips
    BY SlipsGrow
  <1>h. StoredSomewhere
    BY DEF TypeInv
  <1> DEFINE Typed == /\ row' \in [Rows -> Row] /\ ui' \in Ui /\ req' \in [Requests -> Request]
                      /\ pub' \in Publication /\ made' \in [Edits -> Slots \cup {NoSlot}]
                      /\ gone' \subseteq Edits /\ StoredSomewhere'
  <1>q. SUFFICES Typed
    BY <1>s, EditorTypesAfter DEF TypeInv
  <1>n. NoReq.pc = "idle" /\ "save" \in Requests /\ "open" \in Requests
    BY DEF NoReq, Requests
  <1>r. Requests = {"save", "open"}
    BY DEF Requests
  <1>1. ASSUME NEW e \in Edits, Edit(e) PROVE Typed
    <2>1. /\ ui' \in Ui /\ made' = [made EXCEPT ![e] = ui.sel]
          /\ UNCHANGED <<row, req, pub, gone>>
      BY <1>1, EditSteps
    <2>2. made' \in [Edits -> Slots \cup {NoSlot}]
      <3>1. ui.sel \in Slots
        BY <1>0 DEF Ui
      <3> QED
        BY <1>0, <2>1, <3>1
    <2> QED
      BY <1>0, <1>h, <2>1, <2>2 DEF StoredSomewhere
  <1>2. ASSUME NEW e \in Edits, NEW s \in Slots, OtherSaves(s, e) PROVE Typed
    <2>1. /\ made' = [made EXCEPT ![e] = s] /\ gone' = gone \cup {e}
          /\ UNCHANGED <<ui, req, pub>>
      BY <1>2 DEF OtherSaves
    <2>2. row' \in [Rows -> Row]
      BY <1>2, OtherSteps DEF RowInserted, RowSaved
    <2> QED
      BY <1>0, <1>h, <2>1, <2>2 DEF StoredSomewhere
  <1>3. ASSUME AutosaveFires PROVE Typed
    BY <1>0, <1>h, <1>n, <1>r, <1>3, AutosaveSteps DEF SaveIsSent, StoredSomewhere
  <1>4. ASSUME RetrySave PROVE Typed
    BY <1>0, <1>h, <1>n, <1>r, <1>4, RetrySteps DEF SaveIsSent, StoredSomewhere
  <1>5. ASSUME SaveFails PROVE Typed
    <2>1. /\ req' \in [Requests -> Request] /\ req'["save"] = NoReq /\ req'["open"] = req["open"]
          /\ ui' \in Ui /\ pub' = IF pub.pc = "saving" THEN NoPub ELSE pub
          /\ UNCHANGED <<row, made, gone>>
      BY <1>5, SaveFailsSteps
    <2>2. pub' \in Publication /\ (pub'.pc = "stored" => pub.pc = "stored" /\ pub'.as = pub.as)
      BY <2>1, PublicationMoves
    <2> QED
      BY <1>0, <1>h, <1>n, <1>r, <2>1, <2>2 DEF StoredSomewhere
  <1>6. ASSUME SaveAnswered PROVE Typed
    <2>1. /\ req' \in [Requests -> Request] /\ req'["save"] = NoReq /\ req'["open"] = req["open"]
          /\ ui' \in Ui /\ pub' = IF pub.pc = "saving" THEN [pub EXCEPT !.pc = "sent"] ELSE pub
          /\ UNCHANGED <<row, made, gone>>
      BY <1>6, SaveAnsweredSteps
    <2>2. pub' \in Publication /\ (pub'.pc = "stored" => pub.pc = "stored" /\ pub'.as = pub.as)
      BY <2>1, PublicationMoves
    <2> QED
      BY <1>0, <1>h, <1>n, <1>r, <2>1, <2>2 DEF StoredSomewhere
  <1>7. ASSUME NEW k \in Requests, FindDraft(k) PROVE Typed
    <2>1. /\ req' \in [Requests -> Request] /\ req'[k].pc = "found"
          /\ \A j \in Requests : j # k => req'[j] = req[j]
          /\ UNCHANGED <<row, ui, pub, made, gone>>
      BY <1>7, FindSteps
    <2> QED
      BY <1>0, <1>h, <2>1 DEF StoredSomewhere
  <1>8. ASSUME NEW k \in Requests, WriteDraft(k) PROVE Typed
    <2>1. /\ req' \in [Requests -> Request] /\ req'[k].found # {}
          /\ \A j \in Requests : j # k => req'[j] = req[j]
          /\ row' \in [Rows -> Row]
          /\ UNCHANGED <<ui, pub, made, gone>>
      BY <1>8, WriteSteps DEF RowInserted, RowSaved
    <2> QED
      BY <1>0, <1>h, <2>1 DEF StoredSomewhere
  <1>9. ASSUME OpenFails PROVE Typed
    BY <1>0, <1>h, <1>n, <1>r, <1>9, OpenFailsSteps DEF StoredSomewhere
  <1>10. ASSUME OpenAnswered PROVE Typed
    BY <1>0, <1>h, <1>n, <1>r, <1>10, OpenAnsweredSteps DEF StoredSomewhere, Puts
  <1>11. ASSUME PromoteFails PROVE Typed
    <2>1. pub' \in Publication /\ (pub'.pc = "stored" => pub.pc = "stored" /\ pub'.as = pub.as)
      BY <1>11, PublicationMoves DEF PromoteFails
    <2> QED
      BY <1>0, <1>h, <1>11, <2>1 DEF PromoteFails, StoredSomewhere
  <1>12. ASSUME PromoteAnswered PROVE Typed
    <2>1. NoPub \in Publication /\ NoPub.pc # "stored"
      BY DEF NoPub, Publication, Slots
    <2> QED
      BY <1>0, <1>h, <1>12, <2>1, PromoteAnsweredSteps DEF StoredSomewhere, Puts
  <1>13. ASSUME Promote PROVE Typed
    <2>1. /\ pub' \in Publication /\ row' \in [Rows -> Row] /\ pub'.as \in Rows
          /\ UNCHANGED <<ui, req, made, gone, slips>>
      BY <1>13, PromoteSteps DEF RowNamed
    <2> QED
      BY <1>0, <1>h, <2>1 DEF StoredSomewhere
  <1>14. ASSUME Refetch PROVE Typed
    BY <1>0, <1>h, <1>14, RefetchSteps DEF StoredSomewhere
  <1>15. ASSUME Reload PROVE Typed
    BY <1>0, <1>h, <1>15, ReloadSteps DEF StoredSomewhere
  <1>16. ASSUME NEW t \in {"graph", "history"}, OpenTab(t) PROVE Typed
    BY <1>0, <1>h, <1>16, OpenTabSteps DEF StoredSomewhere
  <1>17. ASSUME NEW v \in Rows, SelectVersion(v) PROVE Typed
    BY <1>0, <1>h, <1>17, SelectVersionSteps DEF StoredSomewhere, Selects
  <1>18. ASSUME NEW s \in Slots, SelectDraft(s) PROVE Typed
    BY <1>0, <1>h, <1>18, SelectDraftSteps DEF StoredSomewhere, Selects
  <1>19. ASSUME ViewVersion PROVE Typed
    BY <1>0, <1>h, <1>19, ViewVersionSteps DEF StoredSomewhere, Puts
  <1>20. ASSUME OpenVersion PROVE Typed
    <2>1. /\ ui' \in Ui /\ UNCHANGED <<row, pub, made, gone>>
          /\ \/ req' = req
             \/ req' \in [Requests -> Request] /\ req'["save"] = req["save"] /\ req'["open"].pc = "sent"
      BY <1>20, OpenVersionSteps DEF Puts, Selects
    <2> QED
      BY <1>0, <1>h, <1>r, <2>1 DEF StoredSomewhere
  <1>21. ASSUME Publish PROVE Typed
    <2>1. /\ ui' \in Ui /\ UNCHANGED <<row, made, gone>>
          /\ pub' \in Publication /\ pub'.pc # "stored"
          /\ \/ req' = req
             \/ req' \in [Requests -> Request] /\ req'["open"] = req["open"] /\ req'["save"].pc = "sent"
      BY <1>0, <1>21, PublishSteps DEF SaveIsSent
    <2> QED
      BY <1>0, <1>h, <1>r, <2>1 DEF StoredSomewhere
  <1>22. ASSUME UNCHANGED vars PROVE Typed
    BY <1>0, <1>h, <1>22 DEF vars, StoredSomewhere
  <1> QED
    BY NextCases, <1>1, <1>2, <1>3, <1>4, <1>5, <1>6, <1>7, <1>8, <1>9, <1>10, <1>11,
       <1>12, <1>13, <1>14, <1>15, <1>16, <1>17, <1>18, <1>19, <1>20, <1>21, <1>22

LEMMA TypesHold == Spec => []TypeInv
  BY InitType, TypeNext, PTL DEF Spec

(* The editor, its requests and the rows keep to the values the code gives *)
(* them, whatever slips happen.                                            *)
THEOREM TypeCorrect == Spec => []TypeOK
  BY TypesHold, PTL DEF TypeInv

-----------------------------------------------------------------------------
(* The shape of the state, which no slip disturbs: rows and requests are   *)
(* placed under versions that exist, the list is an earlier state of the   *)
(* rows, and every definition has its start and end nodes.                 *)
Reachable(rows) == Named(rows) \cup {Root}
Empty(rows) == \A r \in Rows : rows[r].st = "free"

WellPlaced(rows) ==
    \A r \in Rows : rows[r].st # "free" =>
       Seed \in rows[r].def /\ rows[r].parent \in Reachable(rows) \ {r}

ListFits ==
    \A r \in Rows :
       /\ ui.list[r].st # "free" => row[r].st # "free" /\ ui.list[r].parent = row[r].parent
       /\ ui.list[r].st = "named" => row[r].st = "named"

UiShape ==
    /\ ui.sel \in Reachable(row)
    /\ ui.snap => ui.sel # Root
    /\ Seed \in ui.doc
    /\ TimerFine
    /\ Empty(ui.list) => ui.base = Root
    /\ Saving => ~ui.error

ReqShape ==
    \A k \in Requests : req[k].pc # "idle" =>
       /\ req[k].to \in Reachable(row)
       /\ Seed \in req[k].def
       /\ req[k].pc \in {"found", "stored"} =>
            \A r \in req[k].found : row[r].st # "free" /\ row[r].parent = req[k].to

OpenShape == Opening => req["open"].to \in Named(ui.list)

PubShape ==
    pub.pc # "idle" =>
       /\ pub.from \in Reachable(row)
       /\ pub.pc = "stored" => pub.as \in Named(row) /\ row[pub.as].parent = pub.from

Shape ==
    /\ WellPlaced(row)
    /\ WellPlaced(ui.list)
    /\ ListFits
    /\ UiShape
    /\ ReqShape
    /\ OpenShape
    /\ PubShape

(* Rows stay where they are, and versions stay versions.                   *)
RowsStay ==
    /\ \A r \in Rows : row[r].st # "free" =>
          row'[r].st # "free" /\ row'[r].parent = row[r].parent
    /\ Named(row) \subseteq Named(row')

LEMMA RowsStaying ==
    ASSUME TypeInv, WellPlaced(row),
           \/ row' = row
           \/ \E r \in Rows, s \in Reachable(row), def \in SUBSET Contents :
                RowInserted(r, s, def) /\ Seed \in def
           \/ \E r \in Rows, def \in SUBSET Contents :
                RowSaved(r, def) /\ Seed \in def
           \/ \E r \in Rows : RowNamed(r) /\ row[r].st = "draft"
    PROVE  WellPlaced(row') /\ RowsStay
  <1>0. row \in [Rows -> Row]
    BY EditorTypes DEF TypeInv
  <1>1. CASE row' = row
    BY <1>1 DEF RowsStay
  <1>2. ASSUME NEW r \in Rows, NEW s \in Reachable(row), NEW def \in SUBSET Contents,
               RowInserted(r, s, def), Seed \in def
        PROVE  WellPlaced(row') /\ RowsStay
    <2>1. /\ row[r].st = "free" /\ row'[r].st = "draft" /\ row'[r].parent = s /\ row'[r].def = def
          /\ \A q \in Rows : q # r => row'[q] = row[q]
      BY <1>2 DEF RowInserted, OthersSame
    <2>2. RowsStay
      BY <2>1 DEF RowsStay, Named
    <2>3. s # r
      BY <2>1 DEF Reachable, Named
    <2>4. WellPlaced(row')
      BY <1>2, <2>1, <2>2, <2>3 DEF WellPlaced, RowsStay, Reachable
    <2> QED
      BY <2>2, <2>4
  <1>3. ASSUME NEW r \in Rows, NEW def \in SUBSET Contents, RowSaved(r, def), Seed \in def
        PROVE  WellPlaced(row') /\ RowsStay
    <2>1. /\ row'[r].st = row[r].st /\ row'[r].parent = row[r].parent /\ row'[r].def = def
          /\ \A q \in Rows : q # r => row'[q] = row[q]
      BY <1>3 DEF RowSaved, OthersSame
    <2>2. RowsStay
      BY <2>1 DEF RowsStay, Named
    <2>4. WellPlaced(row')
      BY <1>3, <2>1, <2>2 DEF WellPlaced, RowsStay, Reachable
    <2> QED
      BY <2>2, <2>4
  <1>4. ASSUME NEW r \in Rows, RowNamed(r), row[r].st = "draft"
        PROVE  WellPlaced(row') /\ RowsStay
    <2>1. /\ row'[r].st = "named" /\ row'[r].parent = row[r].parent /\ row'[r].def = row[r].def
          /\ \A q \in Rows : q # r => row'[q] = row[q]
      BY <1>4 DEF RowNamed, OthersSame
    <2>2. RowsStay
      BY <1>4, <2>1 DEF RowsStay, Named
    <2>4. WellPlaced(row')
      BY <1>4, <2>1, <2>2 DEF WellPlaced, RowsStay, Reachable
    <2> QED
      BY <2>2, <2>4
  <1> QED
    BY <1>1, <1>2, <1>3, <1>4

(* Only these steps write rows.                                            *)
LEMMA RowsNext ==
    ASSUME TypeInv, Shape, [Next]_vars
    PROVE  WellPlaced(row') /\ RowsStay
  <1>0. row \in [Rows -> Row] /\ req \in [Requests -> Request] /\ pub \in Publication
    BY EditorTypes DEF TypeInv
  <1>1. WellPlaced(row) /\ ReqShape
    BY DEF Shape
  <1>2. ASSUME NEW e \in Edits, NEW s \in Slots, OtherSaves(s, e)
        PROVE  WellPlaced(row') /\ RowsStay
    <2>1. s \in Reachable(row)
      BY <1>2, OtherSteps DEF Reachable
    <2>2. Seed \in StartOf(s) /\ StartOf(s) \subseteq Contents
      BY <1>0, <1>1, <2>1 DEF StartOf, WellPlaced, Reachable, Named, Row, Contents
    <2>3. CASE \E r \in Rows : RowInserted(r, s, StartOf(s) \cup {e})
      <3>0. PICK def : def = StartOf(s) \cup {e}
        OBVIOUS
      <3>1. def \in SUBSET Contents /\ Seed \in def
        BY <2>2, <3>0 DEF Contents
      <3>2. PICK r \in Rows : RowInserted(r, s, def)
        BY <2>3, <3>0
      <3>3. PICK t \in Reachable(row) : t = s
        BY <2>1
      <3>4. RowInserted(r, t, def)
        BY <3>2, <3>3
      <3> QED
        BY <1>1, <3>1, <3>4, RowsStaying
    <2>4. ASSUME NEW r \in DraftsOf(row, s), NEW def \in {StartOf(s), row[r].def},
                 RowSaved(r, def \cup {e})
          PROVE  WellPlaced(row') /\ RowsStay
      <3>1. r \in Rows /\ row[r].st = "draft"
        BY DEF DraftsOf
      <3>2. Seed \in row[r].def /\ row[r].def \subseteq Contents
        BY <1>0, <1>1, <3>1 DEF WellPlaced, Row
      <3>0. PICK d : d = def \cup {e}
        OBVIOUS
      <3>3. d \in SUBSET Contents /\ Seed \in d
        BY <2>2, <3>0, <3>2 DEF Contents
      <3>4. RowSaved(r, d)
        BY <2>4, <3>0
      <3> QED
        BY <1>1, <3>1, <3>3, <3>4, RowsStaying
    <2>5. \/ \E r \in Rows : RowInserted(r, s, StartOf(s) \cup {e})
          \/ \E r \in DraftsOf(row, s) : \E def \in {StartOf(s), row[r].def} :
                    RowSaved(r, def \cup {e})
      BY <1>2, OtherSteps
    <2> QED
      BY <2>3, <2>4, <2>5
  <1>3. ASSUME NEW k \in Requests, WriteDraft(k)
        PROVE  WellPlaced(row') /\ RowsStay
    <2>1. PICK s \in Reachable(row), def \in SUBSET Contents :
             s = req[k].to /\ def = req[k].def /\ Seed \in def
      BY <1>0, <1>1, <1>3, WriteSteps DEF ReqShape, Request
    <2>2. \/ \E r \in Rows : RowInserted(r, s, def)
          \/ \E r \in Rows : RowSaved(r, def)
      BY <1>0, <1>3, <2>1, WriteSteps DEF Request
    <2> QED
      BY <1>1, <2>1, <2>2, RowsStaying
  <1>4. ASSUME Promote PROVE WellPlaced(row') /\ RowsStay
    <2>1. PICK r \in DraftsOf(row, pub.from) : RowNamed(r)
      BY <1>4, PromoteSteps
    <2> QED
      BY <1>1, <2>1, RowsStaying DEF DraftsOf
  <1>5. CASE row' = row
    BY <1>1, <1>5, RowsStaying
  <1>6. ASSUME \/ \E e \in Edits : Edit(e)
               \/ AutosaveFires \/ RetrySave \/ SaveFails \/ SaveAnswered
               \/ \E k \in Requests : FindDraft(k)
               \/ OpenFails \/ OpenAnswered \/ PromoteFails \/ PromoteAnswered
               \/ Refetch \/ Reload
               \/ \E t \in {"graph", "history"} : OpenTab(t)
               \/ \E v \in Rows : SelectVersion(v)
               \/ \E s \in Slots : SelectDraft(s)
               \/ ViewVersion \/ OpenVersion \/ Publish \/ UNCHANGED vars
        PROVE  row' = row
    BY <1>6 DEF Edit, AutosaveFires, RetrySave, SaveFails, SaveAnswered, FindDraft, OpenFails,
       OpenAnswered, PromoteFails, PromoteAnswered, Refetch, Reload, OpenTab, SelectVersion,
       SelectDraft, ViewVersion, OpenVersion, Publish, InHistory, vars
  <1> QED
    BY NextCases, <1>2, <1>3, <1>4, <1>5, <1>6

-----------------------------------------------------------------------------
(* What is under a list of versions that is well placed.                   *)
LEMMA EmptyList ==
    ASSUME NEW u \in Ui, Empty(u.list)
    PROVE  /\ BaseKey(u) = Root
           /\ ActiveDraft(u) = {}
           /\ Named(u.list) = {}
           /\ ServerDef(u) = {}
  <1>1. ActiveDraft(u) = {} /\ Named(u.list) = {} /\ DraftsOf(u.list, Root) = {}
    BY DEF Empty, ActiveDraft, DraftsOf, Named
  <1>2. Base(u) = {}
    BY <1>1 DEF Base
  <1> QED
    BY <1>1, <1>2 DEF BaseKey, ServerDef

LEMMA SomeList ==
    ASSUME NEW u \in Ui, WellPlaced(u.list), ~Empty(u.list)
    PROVE  /\ Base(u) # {}
           /\ BaseKey(u) \in Rows
           /\ u.list[BaseKey(u)].st # "free"
           /\ Seed \in ServerDef(u)
           /\ \A r \in ActiveDraft(u) \cup Base(u) : u.list[r].st # "free"
  <1>0. u.list \in [Rows -> Row]
    BY DEF Ui
  <1>1. Base(u) # {}
    <2>1. PICK r \in Rows : u.list[r].st # "free"
      BY DEF Empty
    <2>2. CASE Named(u.list) = {}
      <3>1. u.list[r].st = "draft" /\ u.list[r].parent = Root
        BY <1>0, <2>1, <2>2 DEF WellPlaced, Reachable, Named, Row
      <3>2. r \in DraftsOf(u.list, Root)
        BY <3>1 DEF DraftsOf
      <3> QED
        BY <2>2, <3>2 DEF Base
    <2>3. CASE Named(u.list) # {}
      BY <2>3 DEF Base
    <2> QED
      BY <2>2, <2>3
  <1>2. ActiveDraft(u) \subseteq Rows /\ Base(u) \subseteq Rows
    BY BaseIsOfList
  <1>3. \A r \in ActiveDraft(u) \cup Base(u) : u.list[r].st # "free"
    <2>1. \A r \in ActiveDraft(u) : u.list[r].st # "free"
      BY DEF ActiveDraft, DraftsOf
    <2>2. \A r \in Base(u) : u.list[r].st # "free"
      <3>1. CASE u.sel \in Named(u.list)
        BY <3>1 DEF Base, Named
      <3>2. CASE u.sel \notin Named(u.list) /\ Named(u.list) # {}
        <4>1. Newest(Named(u.list)) \in Named(u.list)
          BY <3>2, NewestIsOne DEF Named
        <4> QED
          BY <3>2, <4>1 DEF Base, Named
      <3>3. CASE u.sel \notin Named(u.list) /\ Named(u.list) = {}
        BY <3>3 DEF Base, DraftsOf
      <3> QED
        BY <3>1, <3>2, <3>3
    <2> QED
      BY <2>1, <2>2
  <1>4. PICK A \in SUBSET Rows : A = ActiveDraft(u)
    BY <1>2
  <1>5. PICK B \in SUBSET Rows : B = Base(u)
    BY <1>2
  <1>6. BaseKey(u) \in A \cup B
    <2>1. CASE A # {}
      <3>1. BaseKey(u) = First(A)
        BY <1>4, <2>1 DEF BaseKey
      <3> QED
        BY <2>1, <3>1, FirstIsOne
    <2>2. CASE A = {}
      <3>1. BaseKey(u) = First(B)
        BY <1>1, <1>4, <1>5, <2>2 DEF BaseKey
      <3> QED
        BY <1>1, <1>5, <3>1, FirstIsOne
    <2> QED
      BY <2>1, <2>2
  <1>7. Seed \in ServerDef(u)
    <2>1. \E r \in (IF u.snap \/ A = {} THEN B ELSE A) : Seed \in u.list[r].def
      BY <1>1, <1>2, <1>3, <1>4, <1>5 DEF WellPlaced
    <2> QED
      BY <1>4, <1>5, <2>1 DEF ServerDef
  <1> QED
    BY <1>1, <1>3, <1>4, <1>5, <1>6, <1>7

LEMMA ShownHasSeed ==
    ASSUME NEW u \in Ui, WellPlaced(u.list), Seed \in u.doc,
           InEdit(u) \/ ~Empty(u.list)
    PROVE  Seed \in Shown(u)
  <1>1. CASE InEdit(u)
    BY <1>1 DEF Shown, Mode, InEdit
  <1>2. CASE ~InEdit(u)
    BY <1>2, SomeList DEF Shown, Mode, InEdit
  <1> QED
    BY <1>1, <1>2

LEMMA ListIsOlder ==
    ASSUME TypeInv, ListFits
    PROVE  /\ Named(ui.list) \subseteq Named(row)
           /\ Reachable(ui.list) \subseteq Reachable(row)
           /\ Empty(row) => Empty(ui.list)
  BY DEF ListFits, Named, Reachable, Empty

LEMMA ListStaysOlder ==
    ASSUME TypeInv, ListFits, RowsStay, ui'.list = ui.list \/ ui'.list = row
    PROVE  ListFits'
  <1>0. row \in [Rows -> Row] /\ ui \in Ui
    BY EditorTypes DEF TypeInv
  <1>1. \A r \in Rows : ui.list[r].st = "named" => ui.list[r].st # "free"
    OBVIOUS
  <1>2. \A r \in Rows : row[r].st = "named" => row'[r].st = "named"
    BY DEF RowsStay, Named
  <1>3. CASE ui'.list = ui.list
    BY <1>1, <1>2, <1>3 DEF ListFits, RowsStay
  <1>4. CASE ui'.list = row
    BY <1>2, <1>4 DEF ListFits, RowsStay
  <1> QED
    BY <1>3, <1>4

(* What a step of the editor may do to the list and the canvas.            *)
LEMMA UiShaped ==
    ASSUME TypeInv, Shape, WellPlaced(row'), RowsStay,
           ui' \in Ui,
           ui'.list = ui.list \/ ui'.list = row,
           ui'.sel \in Reachable(row'),
           ui'.snap => ui'.sel # Root,
           Seed \in ui'.doc,
           TimerFine => TimerFine',
           Empty(ui'.list) => ui'.base = Root \/ ui'.base = BaseKey(ui'),
           Saving' => ~ui'.error
    PROVE  WellPlaced(ui'.list) /\ ListFits' /\ UiShape'
  <1>1. WellPlaced(ui'.list)
    BY DEF Shape
  <1>2. ListFits'
    BY ListStaysOlder DEF Shape
  <1>3. PICK u \in Ui : u = ui'
    OBVIOUS
  <1>4. Empty(ui'.list) => ui'.base = Root
    BY <1>3, EmptyList
  <1> QED
    BY <1>1, <1>2, <1>4 DEF UiShape, Shape

LEMMA SaveOrNot ==
    ASSUME TypeInv, SaveIsSent PROVE ~Saving /\ Saving'
  BY DEF SaveIsSent, Saving

LEMMA UiNext ==
    ASSUME TypeInv, Shape, [Next]_vars
    PROVE  WellPlaced(ui'.list) /\ ListFits' /\ UiShape'
  <1>0. /\ row \in [Rows -> Row] /\ ui \in Ui /\ req \in [Requests -> Request] /\ pub \in Publication
        /\ row' \in [Rows -> Row] /\ ui' \in Ui /\ req' \in [Requests -> Request]
    <2>1. TypeOK /\ TypeOK'
      BY TypeNext DEF TypeInv
    <2> QED
      BY <2>1, EditorTypes DEF TypeOK, Ui, Requests, Request
  <1>1. WellPlaced(row') /\ RowsStay
    BY RowsNext
  <1>2. Named(row) \subseteq Named(row') /\ Reachable(row) \subseteq Reachable(row')
    BY <1>1 DEF RowsStay, Reachable
  <1>3. Reachable(ui.list) \subseteq Reachable(row') /\ Named(ui.list) \subseteq Named(row')
    BY <1>2, ListIsOlder DEF Shape
  <1>4. UiShape /\ ReqShape /\ OpenShape /\ PubShape /\ WellPlaced(ui.list) /\ WellPlaced(row)
    BY DEF Shape
  <1>5. /\ ui.sel \in Reachable(row') /\ (ui.snap => ui.sel # Root) /\ Seed \in ui.doc
        /\ (Empty(ui.list) => ui.base = Root) /\ (Saving => ~ui.error)
    BY <1>2, <1>4 DEF UiShape
  <1>6. Empty(row) => ui.base = Root
    BY <1>5, ListIsOlder DEF Shape
  <1>7. Reloaded' => Seed \in ui'.doc /\ ui'.base = BaseKey(ui')
    BY DEF Reloaded
  <1>8. \A r \in Rows : ui.list[r].st # "free" => ~Empty(ui.list)
    BY DEF Empty
  <1> DEFINE Shaped == /\ ui'.list = ui.list \/ ui'.list = row
                       /\ ui'.sel \in Reachable(row')
                       /\ ui'.snap => ui'.sel # Root
                       /\ Seed \in ui'.doc
                       /\ TimerFine => TimerFine'
                       /\ Empty(ui'.list) => ui'.base = Root \/ ui'.base = BaseKey(ui')
                       /\ Saving' => ~ui'.error
  <1>9. SUFFICES Shaped
    BY <1>0, <1>1, UiShaped
  <1>10. ASSUME NEW s \in Slots, NEW b \in BOOLEAN, Selects(s, b), s \in Reachable(row'),
                b => s # Root, Saving' <=> Saving
         PROVE  Shaped
    BY <1>5, <1>7, <1>10 DEF Selects
  <1>11. ASSUME NEW s \in Slots, NEW b \in BOOLEAN, NEW t, NEW def, NEW base,
                Puts(s, b, t, def, base), s \in Reachable(row'),
                b => s # Root, Empty(ui.list) => Seed \in def
         PROVE  Shaped
    BY <1>7, <1>11 DEF Puts
  <1>12. ASSUME NEW e \in Edits, Edit(e) PROVE Shaped
    <2>1. Saving' <=> Saving
      BY <1>12, EditSteps DEF Saving
    <2> QED
      BY <1>5, <1>12, <2>1, EditSteps
  <1>13. ASSUME AutosaveFires PROVE Shaped
    <2>1. ui'.timer = FALSE => TimerFine'
      BY DEF TimerFine
    <2>2. Saving' => ~ui'.error
      BY <1>5, <1>13, AutosaveSteps, SaveOrNot DEF Saving
    <2> QED
      BY <1>5, <1>13, <2>1, <2>2, AutosaveSteps
  <1>14. ASSUME \/ RetrySave
                \/ SaveFails
         PROVE Shaped
    <2>1. /\ ui'.sel = ui.sel /\ ui'.snap = ui.snap /\ ui'.tab = ui.tab
          /\ ui'.list = ui.list /\ ui'.timer = ui.timer
          /\ ui'.doc = ui.doc /\ ui'.dirty = ui.dirty /\ ui'.base = ui.base
          /\ ~ui'.error \/ req'["save"] = NoReq
      BY <1>14, RetrySteps, SaveFailsSteps
    <2>2. TimerFine => TimerFine'
      BY <2>1 DEF TimerFine, InEdit
    <2>3. Saving' => ~ui'.error
      BY <2>1 DEF Saving, NoReq
    <2> QED
      BY <1>5, <2>1, <2>2, <2>3
  <1>15. ASSUME SaveAnswered PROVE Shaped
    <2>1. ~Saving'
      BY <1>15, SaveAnsweredSteps DEF Saving, NoReq
    <2> QED
      BY <1>5, <1>7, <1>15, <2>1, SaveAnsweredSteps
  <1>16. ASSUME ui' = ui, Saving' => Saving PROVE Shaped
    <2>1. TimerFine => TimerFine'
      BY <1>16 DEF TimerFine
    <2> QED
      BY <1>5, <1>16, <2>1
  <1>17. ASSUME Refetch PROVE Shaped
    <2>1. Saving' <=> Saving
      BY <1>17, RefetchSteps DEF Saving
    <2> QED
      BY <1>5, <1>6, <1>7, <1>17, <2>1, RefetchSteps
  <1>18. ASSUME Reload PROVE Shaped
    BY <1>2, <1>5, <1>7, <1>18, ReloadSteps DEF Reachable, Named
  <1>19. ASSUME NEW t \in {"graph", "history"}, OpenTab(t) PROVE Shaped
    <2>1. Saving' <=> Saving
      BY <1>19, OpenTabSteps DEF Saving
    <2> QED
      BY <1>5, <1>7, <1>19, <2>1, OpenTabSteps
  <1>20. ASSUME NEW v \in Rows, SelectVersion(v) PROVE Shaped
    <2>1. v \in Named(ui.list) /\ Selects(v, TRUE) /\ req' = req
      BY <1>20, SelectVersionSteps
    <2>2. v \in Slots /\ v \in Reachable(row') /\ v # Root
      BY <1>3, <2>1 DEF Slots, Reachable
    <2> QED
      BY <1>10, <2>1, <2>2 DEF Saving
  <1>21. ASSUME NEW s \in Slots, SelectDraft(s) PROVE Shaped
    <2>1. DraftsOf(ui.list, s) # {} /\ Selects(s, FALSE) /\ req' = req
      BY <1>21, SelectDraftSteps
    <2>2. s \in Reachable(ui.list)
      BY <1>4, <2>1 DEF DraftsOf, WellPlaced
    <2> QED
      BY <1>3, <1>10, <2>1, <2>2 DEF Saving
  <1>22. ASSUME ViewVersion PROVE Shaped
    <2>1. ui.sel \in Named(ui.list) /\ Puts(ui.sel, TRUE, "graph", ui.list[ui.sel].def, ui.sel)
      BY <1>22, ViewVersionSteps
    <2>2. ui.sel \in Slots /\ ui.sel # Root /\ ~Empty(ui.list)
      BY <1>8, <2>1 DEF Named, Slots
    <2> QED
      BY <1>5, <1>11, <2>1, <2>2
  <1>23. ASSUME OpenVersion PROVE Shaped
    <2>1. ui.sel \in Named(ui.list)
      BY <1>23, OpenVersionSteps
    <2>2. ui.sel \in Slots /\ ui.sel # Root /\ ~Empty(ui.list)
      BY <1>8, <2>1 DEF Named, Slots
    <2>3. \/ \E def, base : Puts(ui.sel, FALSE, "graph", def, base)
          \/ Selects(ui.sel, FALSE) /\ req'["save"] = req["save"]
      BY <1>23, OpenVersionSteps
    <2> QED
      BY <1>5, <1>10, <1>11, <2>2, <2>3 DEF Saving
  <1>24. ASSUME OpenAnswered PROVE Shaped
    <2>1. Puts(req["open"].to, ui.snap, "graph", req["open"].def, First(req["open"].found))
      BY <1>24, OpenAnsweredSteps
    <2>2. Opening
      BY <1>24, OpenAnsweredSteps DEF Opening
    <2>3. req["open"].to \in Named(ui.list)
      BY <1>4, <2>2 DEF OpenShape
    <2>4. req["open"].to \in Slots /\ req["open"].to # Root /\ ~Empty(ui.list)
          /\ req["open"].to \in Reachable(row')
      BY <1>3, <1>8, <2>3 DEF Named, Slots, Reachable
    <2>5. ui.snap \in BOOLEAN
      BY <1>0 DEF Ui
    <2> QED
      BY <1>11, <2>1, <2>4, <2>5
  <1>25. ASSUME PromoteAnswered PROVE Shaped
    <2>1. pub.pc = "stored" /\ pub.as \in Rows
          /\ Puts(pub.as, TRUE, "history", row[pub.as].def, pub.as)
      BY <1>25, PromoteAnsweredSteps
    <2>2. pub.as \in Named(row)
      BY <1>4, <2>1 DEF PubShape
    <2>3. pub.as \in Slots /\ pub.as # Root /\ Seed \in row[pub.as].def /\ pub.as \in Reachable(row')
      BY <1>2, <1>4, <2>2 DEF Named, Slots, Reachable, WellPlaced
    <2> QED
      BY <1>11, <2>1, <2>3
  <1>26. ASSUME Publish PROVE Shaped
    <2>1. \/ ui' = ui /\ req' = req
          \/ /\ ui'.sel = ui.sel /\ ui'.snap = ui.snap /\ ui'.tab = ui.tab
             /\ ui'.list = ui.list /\ ui'.timer = ui.timer
             /\ ui'.doc = ui.doc /\ ui'.dirty = ui.dirty /\ ui'.base = ui.base
             /\ ~ui'.error
      BY <1>26, PublishSteps
    <2>2. CASE ui' = ui /\ req' = req
      BY <1>16, <2>2 DEF Saving
    <2>3. CASE /\ ui'.sel = ui.sel /\ ui'.snap = ui.snap /\ ui'.tab = ui.tab
               /\ ui'.list = ui.list /\ ui'.timer = ui.timer
               /\ ui'.doc = ui.doc /\ ui'.dirty = ui.dirty /\ ui'.base = ui.base
               /\ ~ui'.error
      <3>1. TimerFine => TimerFine'
        BY <2>3 DEF TimerFine, InEdit
      <3> QED
        BY <1>5, <2>3, <3>1
    <2> QED
      BY <2>1, <2>2, <2>3
  <1>27. ASSUME NEW k \in Requests, FindDraft(k) \/ WriteDraft(k) PROVE Shaped
    <2>1. ui' = ui /\ req[k].pc # "idle" /\ \A j \in Requests : j # k => req'[j] = req[j]
      BY <1>27, FindSteps, WriteSteps
    <2>2. Saving' => Saving
      BY <2>1 DEF Saving, Requests
    <2> QED
      BY <1>16, <2>1, <2>2
  <1>28. ASSUME \/ \E e \in Edits : \E s \in Slots : OtherSaves(s, e)
                \/ OpenFails \/ PromoteFails \/ Promote \/ UNCHANGED vars
         PROVE Shaped
    <2>1. ui' = ui /\ req'["save"] = req["save"]
      BY <1>28, OpenFailsSteps DEF OtherSaves, OpenFails, PromoteFails, Promote, vars
    <2> QED
      BY <1>16, <2>1 DEF Saving
  <1> HIDE DEF Shaped
  <1> QED
    BY NextCases, <1>12, <1>13, <1>14, <1>15, <1>17, <1>18, <1>19, <1>20, <1>21, <1>22,
       <1>23, <1>24, <1>25, <1>26, <1>27, <1>28

-----------------------------------------------------------------------------
(* A request stays well placed when it does not change.                    *)
Placed(q, rows) ==
    q.pc # "idle" =>
       /\ q.to \in Reachable(rows)
       /\ Seed \in q.def
       /\ q.pc \in {"found", "stored"} =>
            \A r \in q.found : rows[r].st # "free" /\ rows[r].parent = q.to

LEMMA PlacedStays ==
    ASSUME TypeInv, RowsStay, NEW q \in Request, Placed(q, row)
    PROVE  Placed(q, row')
  <1>1. Reachable(row) \subseteq Reachable(row')
    BY DEF RowsStay, Reachable
  <1>2. q.found \subseteq Rows
    BY DEF Request
  <1> QED
    BY <1>1, <1>2 DEF Placed, RowsStay

LEMMA ReqShapeIs == ReqShape <=> \A k \in Requests : Placed(req[k], row)
  BY DEF ReqShape, Placed

LEMMA SentIsPlaced ==
    ASSUME TypeInv, Shape, RowsStay, SaveIsSent, InEdit(ui) \/ ~Empty(ui.list)
    PROVE  Placed(req'["save"], row')
  <1>0. ui \in Ui
    BY EditorTypes DEF TypeInv
  <1>1. Seed \in Shown(ui)
    BY <1>0, ShownHasSeed DEF Shape, UiShape
  <1>2. ui.sel \in Reachable(row')
    BY DEF Shape, UiShape, RowsStay, Reachable
  <1> QED
    BY <1>1, <1>2 DEF SaveIsSent, Placed

LEMMA ReqNext ==
    ASSUME TypeInv, Shape, [Next]_vars
    PROVE  ReqShape'
  <1>0. /\ row \in [Rows -> Row] /\ ui \in Ui /\ req \in [Requests -> Request] /\ pub \in Publication
    BY EditorTypes DEF TypeInv
  <1>1. WellPlaced(row') /\ RowsStay
    BY RowsNext
  <1>2. \A k \in Requests : Placed(req[k], row)
    BY ReqShapeIs DEF Shape
  <1>3. \A k \in Requests : Placed(req[k], row')
    BY <1>0, <1>1, <1>2, PlacedStays
  <1>4. Requests = {"save", "open"}
    BY DEF Requests
  <1>5. Placed(NoReq, row')
    BY DEF Placed, NoReq
  <1> DEFINE Good == \A k \in Requests : Placed(req'[k], row')
  <1>6. SUFFICES Good
    BY DEF ReqShape, Placed
  <1>7. ASSUME SaveIsSent, InEdit(ui) \/ ~Empty(ui.list) PROVE Good
    <2>1. Placed(req'["save"], row')
      BY <1>1, <1>7, SentIsPlaced
    <2> QED
      BY <1>3, <1>4, <1>7, <2>1 DEF SaveIsSent
  <1>8. ASSUME req' = req PROVE Good
    BY <1>3, <1>8
  <1>9. ASSUME NEW k \in Requests, req'[k] = NoReq, \A j \in Requests : j # k => req'[j] = req[j]
        PROVE  Good
    <2>1. \A j \in Requests : j # k => Placed(req'[j], row')
      BY <1>3, <1>9
    <2>2. Placed(req'[k], row')
      BY <1>5, <1>9
    <2> QED
      BY <2>1, <2>2
  <1>10. ASSUME AutosaveFires PROVE Good
    <2>1. InEdit(ui)
      BY <1>10, AutosaveSteps DEF Shape, UiShape, TimerFine
    <2> QED
      BY <1>7, <1>8, <1>10, <2>1, AutosaveSteps
  <1>11. ASSUME RetrySave PROVE Good
    BY <1>7, <1>11, RetrySteps
  <1>12. ASSUME Publish PROVE Good
    <2>1. InEdit(ui) \/ ~Empty(ui.list)
      BY <1>12, PublishSteps DEF PublishOffered, Mode, InEdit, ActiveDraft, DraftsOf, Empty
    <2> QED
      BY <1>7, <1>8, <1>12, <2>1, PublishSteps
  <1>13. ASSUME SaveFails \/ SaveAnswered PROVE Good
    <2>1. req'["save"] = NoReq /\ req'["open"] = req["open"]
      BY <1>13, SaveFailsSteps, SaveAnsweredSteps
    <2> QED
      BY <1>4, <1>9, <2>1
  <1>14. ASSUME OpenFails \/ OpenAnswered PROVE Good
    <2>1. req'["open"] = NoReq /\ req'["save"] = req["save"]
      BY <1>14, OpenFailsSteps, OpenAnsweredSteps
    <2> QED
      BY <1>4, <1>9, <2>1
  <1>15. ASSUME OpenVersion PROVE Good
    <2>1. ui.sel \in Named(ui.list)
      BY <1>15, OpenVersionSteps
    <2>2. ui.sel \in Reachable(row') /\ Seed \in ui.list[ui.sel].def
      <3>1. ui.sel \in Rows /\ ui.list[ui.sel].st # "free"
        BY <2>1 DEF Named
      <3>2. Seed \in ui.list[ui.sel].def
        BY <3>1 DEF Shape, WellPlaced
      <3> QED
        BY <1>1, <3>2 DEF Shape, UiShape, RowsStay, Reachable
    <2>3. \/ req' = req
          \/ /\ req'["save"] = req["save"]
             /\ req'["open"].pc = "sent" /\ req'["open"].to = ui.sel
             /\ req'["open"].def = ui.list[ui.sel].def
      BY <1>15, OpenVersionSteps
    <2>4. ASSUME req'["save"] = req["save"],
                 req'["open"].pc = "sent", req'["open"].to = ui.sel,
                 req'["open"].def = ui.list[ui.sel].def
          PROVE  Good
      <3>1. Placed(req'["open"], row')
        BY <2>2, <2>4 DEF Placed
      <3>2. Placed(req'["save"], row')
        BY <1>3, <1>4, <2>4
      <3> QED
        BY <1>4, <3>1, <3>2
    <2> QED
      BY <1>8, <2>3, <2>4
  <1>16. ASSUME NEW k \in Requests, FindDraft(k) PROVE Good
    <2>1. /\ req[k].pc = "sent"
          /\ \A j \in Requests : j # k => req'[j] = req[j]
          /\ req'[k].pc = "found" /\ req'[k].to = req[k].to
          /\ req'[k].def = req[k].def /\ req'[k].found = DraftsOf(row, req[k].to)
          /\ row' = row
      BY <1>16, FindSteps
    <2>2. Placed(req[k], row')
      BY <1>3
    <2>3. Placed(req'[k], row')
      BY <2>1, <2>2 DEF Placed, DraftsOf
    <2>4. \A j \in Requests : j # k => Placed(req'[j], row')
      BY <1>3, <2>1
    <2> QED
      BY <2>3, <2>4
  <1>17. ASSUME NEW k \in Requests, WriteDraft(k) PROVE Good
    <2>1. /\ req[k].pc = "found"
          /\ \A j \in Requests : j # k => req'[j] = req[j]
          /\ req'[k].pc = "stored" /\ req'[k].to = req[k].to
          /\ req'[k].def = req[k].def
          /\ \/ \E r \in Rows : /\ RowInserted(r, req[k].to, req[k].def)
                                /\ req'[k].found = {r}
             \/ req'[k].found = req[k].found
      BY <1>17, WriteSteps
    <2>2. Placed(req[k], row')
      BY <1>3
    <2>3. \A r \in req'[k].found : row'[r].st # "free" /\ row'[r].parent = req[k].to
      BY <2>1, <2>2 DEF Placed, RowInserted
    <2>4. Placed(req'[k], row')
      BY <2>1, <2>2, <2>3 DEF Placed
    <2>5. \A j \in Requests : j # k => Placed(req'[j], row')
      BY <1>3, <2>1
    <2> QED
      BY <2>4, <2>5
  <1>18. ASSUME \/ \E e \in Edits : Edit(e)
                \/ \E e \in Edits : \E s \in Slots : OtherSaves(s, e)
                \/ PromoteFails \/ PromoteAnswered \/ Promote \/ Refetch \/ Reload
                \/ \E t \in {"graph", "history"} : OpenTab(t)
                \/ \E v \in Rows : SelectVersion(v)
                \/ \E s \in Slots : SelectDraft(s)
                \/ ViewVersion \/ UNCHANGED vars
         PROVE  Good
    <2>1. req' = req
      BY <1>18 DEF Edit, OtherSaves, PromoteFails, PromoteAnswered, Promote, Refetch, Reload,
         OpenTab, SelectVersion, SelectDraft, ViewVersion, vars
    <2> QED
      BY <1>8, <2>1
  <1> HIDE DEF Good
  <1> QED
    BY NextCases, <1>10, <1>11, <1>12, <1>13, <1>14, <1>15, <1>16, <1>17, <1>18

LEMMA OpenNext ==
    ASSUME TypeInv, Shape, [Next]_vars
    PROVE  OpenShape'
  <1>1. OpenShape
    BY DEF Shape
  <1>2. Named(ui.list) \subseteq Named(ui'.list) \/ req'["open"].pc = "idle"
    <2>1. Named(ui.list) \subseteq Named(row)
      BY ListIsOlder DEF Shape
    <2>2. ASSUME NEW e \in Edits, Edit(e) PROVE ui'.list = ui.list
      BY <2>2, EditSteps
    <2>3. ASSUME NEW t \in {"graph", "history"}, OpenTab(t) PROVE ui'.list = ui.list
      BY <2>3, OpenTabSteps
    <2>4. ASSUME NEW v \in Rows, SelectVersion(v) PROVE ui'.list = ui.list
      BY <2>4, SelectVersionSteps DEF Selects
    <2>5. ASSUME NEW s \in Slots, SelectDraft(s) PROVE ui'.list = ui.list
      BY <2>5, SelectDraftSteps DEF Selects
    <2>6. ASSUME AutosaveFires \/ RetrySave \/ SaveFails \/ SaveAnswered PROVE ui'.list = ui.list
      BY <2>6, AutosaveSteps, RetrySteps, SaveFailsSteps, SaveAnsweredSteps
    <2>7. ASSUME ViewVersion \/ OpenVersion \/ OpenAnswered \/ PromoteAnswered PROVE ui'.list = ui.list
      BY <2>7, ViewVersionSteps, OpenVersionSteps, OpenAnsweredSteps, PromoteAnsweredSteps DEF Selects, Puts
    <2>8. ASSUME Publish PROVE ui'.list = ui.list
      BY <2>8, PublishSteps
    <2>9. ASSUME Refetch \/ Reload PROVE ui'.list = row
      BY <2>9, RefetchSteps, ReloadSteps
    <2>10. ASSUME \/ \E e \in Edits : \E s \in Slots : OtherSaves(s, e)
                  \/ \E k \in Requests : FindDraft(k)
                  \/ \E k \in Requests : WriteDraft(k)
                  \/ OpenFails \/ PromoteFails \/ Promote \/ UNCHANGED vars
           PROVE  ui' = ui
      BY <2>10 DEF OtherSaves, FindDraft, WriteDraft, OpenFails, PromoteFails, Promote, vars
    <2> QED
      BY NextCases, <2>1, <2>2, <2>3, <2>4, <2>5, <2>6, <2>7, <2>8, <2>9, <2>10
  <1> DEFINE Stays == req'["open"].pc # "idle" =>
                        req["open"].pc # "idle" /\ req'["open"].to = req["open"].to
             Opens == req'["open"].to \in Named(ui.list)
  <1>3. Stays \/ Opens
    <2>1. ASSUME NEW k \in Requests, FindDraft(k) \/ WriteDraft(k)
          PROVE  Stays
      <3>1. /\ req[k].pc # "idle" /\ req'[k].to = req[k].to
            /\ \A j \in Requests : j # k => req'[j] = req[j]
        BY <2>1, FindSteps, WriteSteps
      <3> QED
        BY <3>1 DEF Requests
    <2>2. ASSUME OpenFails \/ OpenAnswered PROVE Stays
      <3>1. req'["open"] = NoReq
        BY <2>2, OpenFailsSteps, OpenAnsweredSteps
      <3> QED
        BY <3>1 DEF NoReq
    <2>3. ASSUME AutosaveFires \/ RetrySave \/ SaveFails \/ SaveAnswered \/ Publish
          PROVE  Stays
      BY <2>3, AutosaveSteps, RetrySteps, SaveFailsSteps, SaveAnsweredSteps, PublishSteps DEF SaveIsSent
    <2>4. ASSUME OpenVersion PROVE Stays \/ Opens
      BY <2>4, OpenVersionSteps
    <2>5. ASSUME \/ \E e \in Edits : Edit(e)
                 \/ \E e \in Edits : \E s \in Slots : OtherSaves(s, e)
                 \/ PromoteFails \/ PromoteAnswered \/ Promote \/ Refetch \/ Reload
                 \/ \E t \in {"graph", "history"} : OpenTab(t)
                 \/ \E v \in Rows : SelectVersion(v)
                 \/ \E s \in Slots : SelectDraft(s)
                 \/ ViewVersion \/ UNCHANGED vars
          PROVE  Stays
      BY <2>5 DEF Edit, OtherSaves, PromoteFails, PromoteAnswered, Promote, Refetch, Reload,
         OpenTab, SelectVersion, SelectDraft, ViewVersion, vars
    <2> HIDE DEF Stays, Opens
    <2> QED
      BY NextCases, <2>1, <2>2, <2>3, <2>4, <2>5
  <1>4. Opening' <=> req'["open"].pc # "idle"
    BY DEF Opening
  <1> QED
    BY <1>1, <1>2, <1>3, <1>4 DEF OpenShape, Opening

LEMMA PubNext ==
    ASSUME TypeInv, Shape, [Next]_vars
    PROVE  PubShape'
  <1>0. /\ row \in [Rows -> Row] /\ ui \in Ui /\ req \in [Requests -> Request] /\ pub \in Publication
    BY EditorTypes DEF TypeInv
  <1>1. RowsStay
    BY RowsNext
  <1>2. Named(row) \subseteq Named(row') /\ Reachable(row) \subseteq Reachable(row')
    BY <1>1 DEF RowsStay, Reachable
  <1>3. PubShape
    BY DEF Shape
  <1>4. /\ pub.pc # "idle" => pub.from \in Reachable(row')
        /\ pub.pc = "stored" => pub.as \in Named(row') /\ row'[pub.as].parent = pub.from
    <2>1. pub.pc = "stored" => pub.as \in Named(row) /\ pub.as \in Rows
                               /\ row[pub.as].st # "free" /\ row[pub.as].parent = pub.from
      BY <1>3 DEF PubShape, Named
    <2> QED
      BY <1>1, <1>2, <1>3, <2>1 DEF PubShape, RowsStay
  <1>5. ASSUME \/ pub' = pub
               \/ /\ pub'.pc # "idle" => pub'.from = pub.from /\ pub'.def = pub.def /\ pub'.as = pub.as
                  /\ pub'.pc \in {pub.pc, "idle", "sent"}
                  /\ pub'.pc # "idle" => pub.pc # "idle"
        PROVE  PubShape'
    BY <1>4, <1>5 DEF PubShape
  <1>6. ASSUME SaveFails \/ SaveAnswered \/ PromoteFails \/ PromoteAnswered PROVE PubShape'
    <2>1. \/ pub' = IF pub.pc = "saving" THEN NoPub ELSE pub
          \/ pub' = IF pub.pc = "saving" THEN [pub EXCEPT !.pc = "sent"] ELSE pub
          \/ pub' = NoPub
      BY <1>6 DEF SaveFails, SaveAnswered, PromoteFails, PromoteAnswered
    <2> QED
      BY <1>5, <2>1, PublicationMoves
  <1>7. ASSUME Publish PROVE PubShape'
    <2>1. pub'.from = ui.sel /\ pub'.pc # "stored"
      BY <1>7, PublishSteps
    <2>2. ui.sel \in Reachable(row)
      BY DEF Shape, UiShape
    <2> QED
      BY <1>2, <2>1, <2>2 DEF PubShape
  <1>8. ASSUME Promote PROVE PubShape'
    <2>1. PICK r \in DraftsOf(row, pub.from) : RowNamed(r) /\ pub'.as = r
                 /\ pub'.pc = "stored" /\ pub'.from = pub.from /\ pub.pc = "sent"
      BY <1>8, PromoteSteps
    <2>2. r \in Rows /\ row'[r].st = "named" /\ row'[r].parent = pub.from
      <3>1. r \in Rows /\ row[r].parent = pub.from
        BY <2>1 DEF DraftsOf
      <3>2. row'[r].st = "named" /\ row'[r].parent = row[r].parent
        BY <2>1 DEF RowNamed
      <3> QED
        BY <3>1, <3>2
    <2> QED
      BY <1>4, <2>1, <2>2 DEF PubShape, Named
  <1>9. ASSUME \/ \E e \in Edits : Edit(e)
               \/ \E e \in Edits : \E s \in Slots : OtherSaves(s, e)
               \/ AutosaveFires \/ RetrySave
               \/ \E k \in Requests : FindDraft(k)
               \/ \E k \in Requests : WriteDraft(k)
               \/ OpenFails \/ OpenAnswered \/ Refetch \/ Reload
               \/ \E t \in {"graph", "history"} : OpenTab(t)
               \/ \E v \in Rows : SelectVersion(v)
               \/ \E s \in Slots : SelectDraft(s)
               \/ ViewVersion \/ OpenVersion \/ UNCHANGED vars
        PROVE  pub' = pub
    BY <1>9 DEF Edit, OtherSaves, AutosaveFires, RetrySave, FindDraft, WriteDraft, OpenFails,
       OpenAnswered, Refetch, Reload, OpenTab, SelectVersion, SelectDraft, ViewVersion,
       OpenVersion, InHistory, vars
  <1> QED
    BY NextCases, <1>5, <1>6, <1>7, <1>8, <1>9

LEMMA ShapeNext ==
    ASSUME TypeInv, Shape, [Next]_vars PROVE Shape'
  BY RowsNext, UiNext, ReqNext, OpenNext, PubNext DEF Shape

LEMMA ShapeInit == Init => Shape
  <1> SUFFICES ASSUME Init PROVE Shape
    OBVIOUS
  <1>1. PICK n \in {{}, {First(Rows)}} :
          row = [r \in Rows |-> IF r \in n THEN [st |-> "named", parent |-> Root,
                                                 def |-> {Seed}] ELSE NoRow]
    BY DEF Init
  <1>2. /\ row \in [Rows -> Row]
        /\ \A r \in Rows : row[r].st # "free" =>
              row[r].st = "named" /\ row[r].parent = Root /\ row[r].def = {Seed}
    <2>1. TypeInv
      BY InitType
    <2> QED
      BY <1>1, <2>1, EditorTypes DEF TypeInv, NoRow
  <1>3. WellPlaced(row)
    BY <1>2 DEF WellPlaced, Reachable
  <1>4. PICK s \in Slots : s = (IF Named(row) = {} THEN Root ELSE First(Rows))
                           /\ s \in Reachable(row)
    <2>1. CASE Named(row) = {}
      BY <2>1 DEF Slots, Reachable
    <2>2. CASE Named(row) # {}
      <3>1. PICK q \in Rows : row[q].st = "named"
        BY <2>2 DEF Named
      <3>2. q \in n
        BY <1>1, <3>1 DEF NoRow
      <3>3. q = First(Rows)
        BY <3>2
      <3> QED
        BY <2>2, <3>1, <3>3 DEF Slots, Reachable, Named
    <2> QED
      BY <2>1, <2>2
  <1>5. PICK b \in BOOLEAN : b = FALSE
    OBVIOUS
  <1>6. PICK p : p = ui /\ p = Page(row, s, b)
    BY <1>4, <1>5 DEF Init
  <1>7. /\ p \in Ui /\ p.sel = s /\ (p.snap <=> b) /\ p.tab = "graph"
        /\ p.doc = ServerDef(p) \cup {Seed} /\ p.dirty = (Seed \notin ServerDef(p))
        /\ p.base = BaseKey(p) /\ (p.timer => p.dirty /\ InEdit(p))
        /\ ~p.error /\ p.list = row
    BY <1>2, <1>6, PageMakes
  <1>8. Empty(p.list) => p.base = Root
    BY <1>7, EmptyList
  <1>9. UiShape
    BY <1>4, <1>5, <1>6, <1>7, <1>8 DEF UiShape, TimerFine
  <1>10. ListFits /\ WellPlaced(ui.list)
    BY <1>2, <1>3, <1>6, <1>7 DEF ListFits
  <1>11. \A k \in Requests : req[k].pc = "idle"
    <2>1. req = [k \in Requests |-> NoReq]
      BY DEF Init, Requests
    <2> QED
      BY <2>1 DEF NoReq
  <1>12. ReqShape /\ OpenShape
    BY <1>11 DEF ReqShape, OpenShape, Opening, Requests
  <1>13. PubShape
    BY DEF Init, PubShape, NoPub
  <1> QED
    BY <1>3, <1>9, <1>10, <1>12, <1>13 DEF Shape

LEMMA ShapeHolds == Spec => [](TypeInv /\ Shape)
  BY InitType, TypeNext, ShapeInit, ShapeNext, PTL DEF Spec

-----------------------------------------------------------------------------
(* One draft for a slot.  While "Edit" waits for its draft nothing else is *)
(* under way, so of two upserts of one slot that looked before either has  *)
(* inserted there is never a pair, as long as the slips of OneDraft stay   *)
(* away.                                                                   *)
Doubling == {"another client", "switch while dirty", "work while opening"}

OneEach ==
    \A q, r \in Rows :
       row[q].st = "draft" /\ row[r].st = "draft" /\ row[q].parent = row[r].parent => q = r

FoundNone ==
    \A k \in Requests :
       req[k].pc = "found" /\ req[k].found = {} => DraftsOf(row, req[k].to) = {}

OpensAlone ==
    Opening => ~Saving /\ pub.pc = "idle" /\ ~ui.dirty /\ ui.sel = req["open"].to

DraftInv == slips \cap Doubling = {} => OneEach /\ FoundNone /\ OpensAlone

(* While a version is shown there is no doubt that it is saved.            *)
LEMMA LoadsClean ==
    ASSUME NEW u \in Ui, WellPlaced(u.list), ~Empty(u.list),
           u.dirty = (Seed \notin ServerDef(u))
    PROVE  ~u.dirty
  BY SomeList

LEMMA OpenListed ==
    ASSUME TypeInv, Shape, Opening PROVE ~Empty(ui.list) /\ ~Empty(row)
  <1>1. req["open"].to \in Named(ui.list)
    BY DEF Shape, OpenShape
  <1>2. ~Empty(ui.list)
    BY <1>1 DEF Named, Empty
  <1> QED
    BY <1>2, ListIsOlder DEF Shape

LEMMA SlipTells ==
    ASSUME NEW S, NEW T, Slip(S), slips' \cap T = {} PROVE S \cap T = {}
  BY DEF Slip

LEMMA WorkingTells ==
    ASSUME NEW S, Slip(Working \cup S), slips' \cap Doubling = {} PROVE ~Opening
  <1>1. (Working \cup S) \cap Doubling = {}
    BY SlipTells
  <1>2. Opening => "work while opening" \in Working
    BY DEF Working, When
  <1> QED
    BY <1>1, <1>2 DEF Doubling

LEMMA SwitchingTells ==
    ASSUME NEW S, Slip(Switching \cup S), "switch while dirty" \notin slips'
    PROVE  ~ui.dirty /\ ~Saving /\ ~Opening /\ pub.pc = "idle"
  <1>0. slips' \cap {"switch while dirty"} = {}
    OBVIOUS
  <1>1. (Switching \cup S) \cap {"switch while dirty"} = {}
    BY <1>0, SlipTells
  <1>2. ui.dirty \/ Busy => "switch while dirty" \in Switching
    BY DEF Switching, When
  <1>3. ~(ui.dirty \/ Busy)
    BY <1>1, <1>2
  <1> QED
    BY <1>3 DEF Busy

LEMMA NothingMore == ASSUME NEW S, Slip(S) PROVE Slip(S \cup {})
  <1>1. S \cup {} = S
    OBVIOUS
  <1> QED
    BY <1>1

LEMMA SwitchedTells ==
    ASSUME Slip(Switching), "switch while dirty" \notin slips'
    PROVE  ~ui.dirty /\ ~Saving /\ ~Opening /\ pub.pc = "idle"
  BY NothingMore, SwitchingTells

LEMMA OpensAloneNext ==
    ASSUME TypeInv, Shape, [Next]_vars, slips' \cap Doubling = {}, OpensAlone
    PROVE  OpensAlone'
  <1>0. /\ row \in [Rows -> Row] /\ ui \in Ui /\ req \in [Requests -> Request] /\ pub \in Publication
    BY EditorTypes DEF TypeInv
  <1>1. WellPlaced(ui'.list)
    BY UiNext
  <1>2. Opening' <=> req'["open"].pc # "idle"
    BY DEF Opening
  <1>3. Saving' <=> req'["save"].pc # "idle"
    BY DEF Saving
  <1>4. "switch while dirty" \notin slips'
    BY DEF Doubling
  <1>5. ASSUME ~Opening' PROVE OpensAlone'
    BY <1>5 DEF OpensAlone
  <1>6. ASSUME ~Opening, req'["open"] = req["open"] PROVE OpensAlone'
    BY <1>2, <1>5, <1>6 DEF Opening
  <1>7. ASSUME ui' \in Ui, Reloaded', ~Empty(ui'.list) PROVE ~ui'.dirty
    <2>1. PICK u \in Ui : u = ui'
      BY <1>7
    <2>2. u.dirty = (Seed \notin ServerDef(u))
      BY <1>7, <2>1 DEF Reloaded
    <2> QED
      BY <1>1, <1>7, <2>1, <2>2, LoadsClean
  <1>8. ASSUME NEW e \in Edits, Edit(e) PROVE OpensAlone'
    <2>1. ~Opening /\ req' = req
      BY <1>8, EditSteps, WorkingTells
    <2> QED
      BY <1>6, <2>1
  <1>9. ASSUME AutosaveFires PROVE OpensAlone'
    <2>1. ui.dirty /\ req'["open"] = req["open"]
      BY <1>9, AutosaveSteps DEF SaveIsSent, Shape, UiShape, TimerFine
    <2> QED
      BY <1>6, <2>1 DEF OpensAlone
  <1>10. ASSUME RetrySave PROVE OpensAlone'
    <2>1. Slip(Working) /\ req'["open"] = req["open"]
      BY <1>10, RetrySteps DEF SaveIsSent
    <2>2. ~Opening
      BY <2>1, NothingMore, WorkingTells
    <2> QED
      BY <1>6, <2>1, <2>2
  <1>11. ASSUME Publish PROVE OpensAlone'
    <2>1. /\ req'["open"] = req["open"]
          /\ Slip(Working \cup When("publish while saving", Saving)
                     \cup When("switch while dirty", ui.dirty /\ Mode(ui) = "view"))
      BY <1>11, PublishSteps DEF SaveIsSent
    <2>2. PICK S : S = When("publish while saving", Saving)
                     \cup When("switch while dirty", ui.dirty /\ Mode(ui) = "view")
      OBVIOUS
    <2>3. Working \cup When("publish while saving", Saving)
                     \cup When("switch while dirty", ui.dirty /\ Mode(ui) = "view") = Working \cup S
      BY <2>2
    <2>4. ~Opening
      BY <2>1, <2>3, WorkingTells
    <2> QED
      BY <1>6, <2>1, <2>4
  <1>12. ASSUME SaveFails \/ SaveAnswered PROVE OpensAlone'
    <2>1. Saving /\ req'["open"] = req["open"]
      BY <1>12, SaveFailsSteps, SaveAnsweredSteps DEF Saving
    <2> QED
      BY <1>6, <2>1 DEF OpensAlone
  <1>13. ASSUME OpenFails \/ OpenAnswered PROVE OpensAlone'
    <2>1. req'["open"] = NoReq
      BY <1>13, OpenFailsSteps, OpenAnsweredSteps
    <2> QED
      BY <1>2, <1>5, <2>1 DEF NoReq
  <1>14. ASSUME NEW k \in Requests, FindDraft(k) \/ WriteDraft(k) PROVE OpensAlone'
    <2>1. /\ req[k].pc # "idle" /\ req'[k].to = req[k].to
          /\ \A j \in Requests : j # k => req'[j] = req[j]
          /\ ui' = ui /\ pub' = pub
      BY <1>14, FindSteps, WriteSteps
    <2>2. /\ req'["open"].pc # "idle" => req["open"].pc # "idle"
          /\ req'["save"].pc # "idle" => req["save"].pc # "idle"
          /\ req'["open"].to = req["open"].to
      BY <2>1 DEF Requests
    <2> QED
      BY <2>1, <2>2 DEF OpensAlone, Opening, Saving
  <1>15. ASSUME PromoteFails \/ PromoteAnswered \/ Promote PROVE OpensAlone'
    <2>1. pub.pc # "idle" /\ req' = req
      BY <1>15, PromoteAnsweredSteps, PromoteSteps DEF PromoteFails
    <2> QED
      BY <1>6, <2>1 DEF OpensAlone
  <1>16. ASSUME Reload PROVE OpensAlone'
    <2>1. ~Opening /\ req' = req
      BY <1>16, ReloadSteps DEF Busy
    <2> QED
      BY <1>6, <2>1
  <1>17. ASSUME req' = req, pub' = pub, ui'.sel = ui.sel, ui' \in Ui,
                Opening => ~Empty(ui'.list),
                (ui'.dirty <=> ui.dirty) \/ Reloaded'
         PROVE  OpensAlone'
    BY <1>7, <1>17 DEF OpensAlone, Opening, Saving
  <1>18. ASSUME Refetch PROVE OpensAlone'
    <2>1. /\ req' = req /\ pub' = pub /\ ui'.sel = ui.sel /\ ui' \in Ui /\ ui'.list = row
          /\ ui'.dirty = ui.dirty \/ Reloaded'
      BY <1>18, RefetchSteps
    <2>2. Opening => ~Empty(row)
      BY OpenListed
    <2> QED
      BY <1>17, <2>1, <2>2
  <1>19. ASSUME NEW t \in {"graph", "history"}, OpenTab(t) PROVE OpensAlone'
    <2>1. /\ req' = req /\ pub' = pub /\ ui'.sel = ui.sel /\ ui' \in Ui /\ ui'.list = ui.list
          /\ ui'.dirty = ui.dirty \/ Reloaded'
      BY <1>19, OpenTabSteps
    <2>2. Opening => ~Empty(ui.list)
      BY OpenListed
    <2> QED
      BY <1>17, <2>1, <2>2
  <1>20. ASSUME NEW v \in Rows, SelectVersion(v) PROVE OpensAlone'
    <2>1. Slip(Switching) /\ req' = req
      BY <1>20, SelectVersionSteps
    <2> QED
      BY <1>4, <1>6, <2>1, SwitchedTells
  <1>21. ASSUME NEW s \in Slots, SelectDraft(s) PROVE OpensAlone'
    <2>1. Slip(Switching) /\ req' = req
      BY <1>21, SelectDraftSteps
    <2> QED
      BY <1>4, <1>6, <2>1, SwitchedTells
  <1>22. ASSUME ViewVersion PROVE OpensAlone'
    <2>1. Slip(Switching) /\ req' = req
      BY <1>22, ViewVersionSteps
    <2> QED
      BY <1>4, <1>6, <2>1, SwitchedTells
  <1>23. ASSUME OpenVersion PROVE OpensAlone'
    <2>1. CASE Slip(Switching) /\ req' = req
      BY <1>4, <1>6, <2>1, SwitchedTells
    <2>2. ASSUME Selects(ui.sel, FALSE),
                 Slip(Switching \cup When("outdated list", DraftsOf(row, ui.sel) # {})),
                 req'["save"] = req["save"], req'["open"].to = ui.sel
          PROVE  OpensAlone'
      <3>1. ~ui.dirty /\ ~Saving /\ pub.pc = "idle"
        BY <1>4, <2>2, SwitchingTells
      <3>2. /\ ui' \in Ui /\ ui'.sel = ui.sel /\ ui'.list = ui.list /\ pub' = pub
            /\ ui'.dirty = ui.dirty \/ Reloaded'
        BY <2>2 DEF Selects
      <3>3. ~Empty(ui.list)
        BY <1>23, OpenVersionSteps DEF Named, Empty
      <3>4. ~ui'.dirty
        BY <1>7, <3>1, <3>2, <3>3
      <3> QED
        BY <2>2, <3>1, <3>2, <3>4 DEF OpensAlone, Saving
    <2> QED
      BY <1>23, <2>1, <2>2, OpenVersionSteps
  <1>24. ASSUME \/ \E e \in Edits : \E s \in Slots : OtherSaves(s, e)
                \/ UNCHANGED vars
         PROVE  OpensAlone'
    <2>1. ui' = ui /\ req' = req /\ pub' = pub
      BY <1>24 DEF OtherSaves, vars
    <2> QED
      BY <2>1 DEF OpensAlone, Opening, Saving
  <1> QED
    BY NextCases, <1>8, <1>9, <1>10, <1>11, <1>12, <1>13, <1>14, <1>15, <1>16, <1>18, <1>19,
       <1>20, <1>21, <1>22, <1>23, <1>24

-----------------------------------------------------------------------------
(* The rows and the requests, step by step.                                *)
LEMMA InsertedAlone ==
    ASSUME TypeInv, OneEach, NEW r \in Rows, NEW s \in Slots, NEW def,
           RowInserted(r, s, def), DraftsOf(row, s) = {}
    PROVE  OneEach' /\ \A t \in Slots : t # s => DraftsOf(row', t) = DraftsOf(row, t)
  <1>1. /\ row[r].st = "free" /\ row'[r].st = "draft" /\ row'[r].parent = s
        /\ \A q \in Rows : q # r => row'[q] = row[q]
    BY DEF RowInserted, OthersSame
  <1>2. \A q \in Rows : row[q].st = "draft" => row[q].parent # s
    BY DEF DraftsOf
  <1> QED
    BY <1>1, <1>2 DEF OneEach, DraftsOf

LEMMA SavedAlone ==
    ASSUME TypeInv, OneEach, NEW r \in Rows, NEW def, RowSaved(r, def)
    PROVE  OneEach' /\ \A t \in Slots : DraftsOf(row', t) = DraftsOf(row, t)
  <1>1. /\ row'[r].st = row[r].st /\ row'[r].parent = row[r].parent
        /\ \A q \in Rows : q # r => row'[q] = row[q]
    BY DEF RowSaved, OthersSame
  <1>2. \A q \in Rows : row'[q].st = row[q].st /\ row'[q].parent = row[q].parent
    BY <1>1
  <1> QED
    BY <1>2 DEF OneEach, DraftsOf

LEMMA NamedAlone ==
    ASSUME TypeInv, OneEach, NEW r \in Rows, RowNamed(r)
    PROVE  OneEach' /\ \A t \in Slots : DraftsOf(row', t) = DraftsOf(row, t) \ {r}
  <1>1. /\ row'[r].st = "named" /\ row'[r].parent = row[r].parent
        /\ \A q \in Rows : q # r => row'[q] = row[q]
    BY DEF RowNamed, OthersSame
  <1> QED
    BY <1>1 DEF OneEach, DraftsOf

(* A row that another client inserts or saves is not in a slot the editor  *)
(* is busy with, and only grows.                                           *)
LEMMA OtherTells ==
    ASSUME TypeInv, NEW e \in Edits, NEW s \in Slots, OtherSaves(s, e),
           "another client" \notin slips'
    PROVE  /\ s # ui.sel /\ s # pub.from
           /\ \A k \in Requests : req[k].pc # "idle" => req[k].to # s
           /\ \A r \in Rows : row[r].def \subseteq row'[r].def
  <1>1. PICK P \in BOOLEAN :
           P = (\/ s \in {ui.sel, pub.from}
                \/ \E k \in {"save", "open"} : req[k].pc # "idle" /\ req[k].to = s
                \/ \E r \in Rows : ~(row[r].def \subseteq row'[r].def))
    OBVIOUS
  <1>2. Slip(When("another client", P))
    BY <1>1 DEF OtherSaves
  <1>3. When("another client", P) \subseteq slips'
    BY <1>2 DEF Slip
  <1>4. ~P
    BY <1>3 DEF When
  <1> QED
    BY <1>1, <1>4 DEF Requests

LEMMA DraftRowsNext ==
    ASSUME TypeInv, Shape, [Next]_vars, slips' \cap Doubling = {},
           OneEach, FoundNone, OpensAlone
    PROVE  OneEach' /\ FoundNone'
  <1>0. /\ row \in [Rows -> Row] /\ ui \in Ui /\ req \in [Requests -> Request] /\ pub \in Publication
    BY EditorTypes DEF TypeInv
  <1>1. \A k \in Requests : req[k].to \in Slots /\ req[k].found \subseteq Rows
    BY <1>0 DEF Request
  <1>2. ASSUME NEW e \in Edits, NEW s \in Slots, OtherSaves(s, e)
        PROVE  OneEach' /\ FoundNone'
    <2>1. \A k \in Requests : req[k].pc # "idle" => req[k].to # s
      BY <1>2, OtherTells DEF Doubling
    <2>2. req' = req
      BY <1>2 DEF OtherSaves
    <2>3. OneEach' /\ \A t \in Slots : t # s => DraftsOf(row', t) = DraftsOf(row, t)
      <3>1. ASSUME DraftsOf(row, s) = {}, NEW r \in Rows, RowInserted(r, s, StartOf(s) \cup {e})
            PROVE  OneEach' /\ \A t \in Slots : t # s => DraftsOf(row', t) = DraftsOf(row, t)
        <4>1. PICK def : def = StartOf(s) \cup {e}
          OBVIOUS
        <4>2. RowInserted(r, s, def)
          BY <3>1, <4>1
        <4> QED
          BY <3>1, <4>2, InsertedAlone
      <3>2. ASSUME NEW r \in DraftsOf(row, s), NEW def \in {StartOf(s), row[r].def},
                   RowSaved(r, def \cup {e})
            PROVE  OneEach' /\ \A t \in Slots : t # s => DraftsOf(row', t) = DraftsOf(row, t)
        <4>0. r \in Rows
          BY DEF DraftsOf
        <4>1. PICK d : d = def \cup {e}
          OBVIOUS
        <4>2. RowSaved(r, d)
          BY <3>2, <4>1
        <4> QED
          BY <4>0, <4>2, SavedAlone
      <3>3. \/ DraftsOf(row, s) = {} /\ \E r \in Rows : RowInserted(r, s, StartOf(s) \cup {e})
            \/ \E r \in DraftsOf(row, s) : \E def \in {StartOf(s), row[r].def} :
                    RowSaved(r, def \cup {e})
        BY <1>2, OtherSteps
      <3> QED
        BY <3>1, <3>2, <3>3
    <2>4. \A k \in Requests : req[k].pc # "idle" => DraftsOf(row', req[k].to) = DraftsOf(row, req[k].to)
      BY <1>1, <2>1, <2>3
    <2> QED
      BY <2>2, <2>3, <2>4 DEF FoundNone
  <1>3. ASSUME NEW k \in Requests, WriteDraft(k)
        PROVE  OneEach' /\ FoundNone'
    <2>1. /\ req[k].pc = "found" /\ req'[k].pc = "stored"
          /\ \A j \in Requests : j # k => req'[j] = req[j]
          /\ \/ /\ req[k].found = {}
                /\ \E r \in Rows : RowInserted(r, req[k].to, req[k].def)
             \/ \E r \in req[k].found : RowSaved(r, req[k].def)
      BY <1>3, WriteSteps
    <2>2. \A j \in Requests : j # k => req[j].pc = "idle"
      BY <2>1 DEF OpensAlone, Opening, Saving, Requests
    <2>3. FoundNone'
      BY <2>1, <2>2 DEF FoundNone
    <2>4. OneEach'
      <3>0. PICK def : def = req[k].def
        OBVIOUS
      <3>1. PICK s \in Slots : s = req[k].to
        BY <1>1
      <3>2. CASE req[k].found = {} /\ \E r \in Rows : RowInserted(r, s, def)
        <4>1. DraftsOf(row, s) = {}
          BY <2>1, <3>1, <3>2 DEF FoundNone
        <4> QED
          BY <3>2, <4>1, InsertedAlone
      <3>3. CASE \E r \in Rows : RowSaved(r, def)
        BY <3>3, SavedAlone
      <3>4. \/ req[k].found = {} /\ \E r \in Rows : RowInserted(r, s, def)
            \/ \E r \in Rows : RowSaved(r, def)
        BY <1>1, <2>1, <3>0, <3>1
      <3> QED
        BY <3>2, <3>3, <3>4
    <2> QED
      BY <2>3, <2>4
  <1>4. ASSUME Promote PROVE OneEach' /\ FoundNone'
    <2>1. PICK r \in DraftsOf(row, pub.from) : RowNamed(r)
      BY <1>4, PromoteSteps
    <2>2. r \in Rows /\ req' = req
      BY <1>4, <2>1 DEF DraftsOf, Promote
    <2>3. OneEach' /\ \A t \in Slots : DraftsOf(row', t) = DraftsOf(row, t) \ {r}
      BY <2>1, <2>2, NamedAlone
    <2> QED
      BY <1>1, <2>2, <2>3 DEF FoundNone
  <1>5. ASSUME row' = row,
               \A k \in Requests :
                  \/ req'[k] = req[k]
                  \/ req'[k].pc \in {"idle", "sent"}
                  \/ req'[k].pc = "found" /\ req'[k].found = DraftsOf(row, req'[k].to)
        PROVE  OneEach' /\ FoundNone'
    BY <1>5 DEF OneEach, FoundNone
  <1>6. ASSUME NEW k \in Requests, FindDraft(k) PROVE OneEach' /\ FoundNone'
    <2>1. /\ row' = row /\ \A j \in Requests : j # k => req'[j] = req[j]
          /\ req'[k].pc = "found" /\ req'[k].found = DraftsOf(row, req'[k].to)
      BY <1>6, FindSteps
    <2> QED
      BY <1>5, <2>1
  <1>7. ASSUME \/ SaveFails \/ SaveAnswered \/ OpenFails \/ OpenAnswered
        PROVE  OneEach' /\ FoundNone'
    <2>1. /\ row' = row
          /\ \/ req'["save"] = NoReq /\ req'["open"] = req["open"]
             \/ req'["open"] = NoReq /\ req'["save"] = req["save"]
      BY <1>7, SaveFailsSteps, SaveAnsweredSteps, OpenFailsSteps, OpenAnsweredSteps
    <2>2. NoReq.pc = "idle"
      BY DEF NoReq
    <2>3. \A k \in Requests : req'[k] = req[k] \/ req'[k].pc = "idle"
      BY <2>1, <2>2 DEF Requests
    <2> QED
      BY <1>5, <2>1, <2>3
  <1>8. ASSUME AutosaveFires \/ RetrySave \/ Publish
        PROVE  OneEach' /\ FoundNone'
    <2>1. /\ row' = row
          /\ \/ req' = req
             \/ req'["open"] = req["open"] /\ req'["save"].pc = "sent"
      BY <1>8, AutosaveSteps, RetrySteps, PublishSteps DEF SaveIsSent
    <2>2. \A k \in Requests : req'[k] = req[k] \/ req'[k].pc = "sent"
      BY <2>1 DEF Requests
    <2> QED
      BY <1>5, <2>1, <2>2
  <1>9. ASSUME OpenVersion PROVE OneEach' /\ FoundNone'
    <2>1. /\ row' = row
          /\ \/ req' = req
             \/ req'["save"] = req["save"] /\ req'["open"].pc = "sent"
      BY <1>9, OpenVersionSteps
    <2>2. \A k \in Requests : req'[k] = req[k] \/ req'[k].pc = "sent"
      BY <2>1 DEF Requests
    <2> QED
      BY <1>5, <2>1, <2>2
  <1>10. ASSUME \/ \E e \in Edits : Edit(e)
                \/ PromoteFails \/ PromoteAnswered \/ Refetch \/ Reload
                \/ \E t \in {"graph", "history"} : OpenTab(t)
                \/ \E v \in Rows : SelectVersion(v)
                \/ \E s \in Slots : SelectDraft(s)
                \/ ViewVersion \/ UNCHANGED vars
         PROVE  OneEach' /\ FoundNone'
    <2>1. row' = row /\ req' = req
      BY <1>10 DEF Edit, PromoteFails, PromoteAnswered, Refetch, Reload,
         OpenTab, SelectVersion, SelectDraft, ViewVersion, InHistory, vars
    <2> QED
      BY <1>5, <2>1
  <1> QED
    BY NextCases, <1>2, <1>3, <1>4, <1>6, <1>7, <1>8, <1>9, <1>10

LEMMA DraftInvNext ==
    ASSUME TypeInv, Shape, DraftInv, [Next]_vars PROVE DraftInv'
  <1> SUFFICES ASSUME slips' \cap Doubling = {} PROVE OneEach' /\ FoundNone' /\ OpensAlone'
    BY DEF DraftInv, Doubling
  <1>1. slips \cap Doubling = {}
    BY SlipsGrow
  <1> QED
    BY <1>1, DraftRowsNext, OpensAloneNext DEF DraftInv

LEMMA DraftInvInit == Init => DraftInv
  <1> SUFFICES ASSUME Init PROVE DraftInv
    OBVIOUS
  <1>1. \A r \in Rows : row[r].st # "draft"
    BY DEF Init, NoRow
  <1>2. req = [k \in Requests |-> NoReq]
    BY DEF Init, Requests
  <1>3. \A k \in Requests : req[k].pc = "idle"
    BY <1>2 DEF NoReq
  <1> QED
    BY <1>1, <1>3 DEF DraftInv, OneEach, FoundNone, OpensAlone, Opening, Requests

(* A version never gets a second draft, although two upserts of its slot   *)
(* look for the draft and insert it in steps of their own, for any number  *)
(* of versions: whatever is lost, late or edited meanwhile, as long as no  *)
(* other client writes that slot and nothing is switched or edited while   *)
(* "Edit" opens a draft.                                                   *)
THEOREM OneDraftEach == Spec => []OneDraft
  <1>1. TypeInv /\ DraftInv => OneDraft
    <2> SUFFICES ASSUME TypeInv, DraftInv, slips \cap Doubling = {}, NEW s \in Slots
                 PROVE  Cardinality(DraftsOf(row, s)) <= 1
      BY DEF OneDraft, Doubling
    <2>1. \A q, r \in DraftsOf(row, s) : q = r
      BY DEF DraftInv, OneEach, DraftsOf
    <2>2. PICK D \in SUBSET Rows : D = DraftsOf(row, s)
      BY DEF DraftsOf
    <2> QED
      BY <2>1, <2>2, AtMostOne
  <1>2. Spec => []DraftInv
    BY InitType, TypeNext, ShapeInit, ShapeNext, DraftInvInit, DraftInvNext, PTL DEF Spec
  <1> QED
    BY <1>1, <1>2, TypesHold, PTL

-----------------------------------------------------------------------------
(* The steps when the editor does not lose track: two slips are let in,    *)
(* edits made while the editor is busy, and "Edit" on an outdated list.    *)
Harmless == {"edit while busy", "outdated list"}
Tracks == slips \subseteq Harmless

CalmUi ==
    /\ ui'.sel = ui.sel /\ (ui'.snap <=> ui.snap)
    /\ ui'.dirty => ui.dirty /\ ui'.doc = ui.doc

StepEdit(e) ==
    /\ ~ui.snap /\ made[e] = NoSlot /\ made' = [made EXCEPT ![e] = ui.sel]
    /\ ui'.sel = ui.sel /\ ~ui'.snap
    /\ ui'.doc = ui.doc \cup {e} /\ ui'.dirty
    /\ ~ui.dirty => ui.doc = CurrentDef(ui.sel)
    /\ ~Opening
    /\ slips' = {} => ~Busy
    /\ UNCHANGED <<row, req, pub, gone>>

(* A save is sent: by the autosave, by a retry, or to publish.             *)
StepSend ==
    /\ SaveIsSent /\ ~Opening /\ ~ui.snap
    /\ ui'.sel = ui.sel /\ ~ui'.snap /\ (ui'.dirty <=> ui.dirty) /\ ui'.doc = ui.doc
    /\ ~ui'.error /\ ui'.list = ui.list
    /\ ui.dirty => Shown(ui) = ui.doc
    /\ ~ui.dirty => Shown(ui) = CurrentDef(ui.sel)
    /\ \/ /\ pub' = pub
          /\ ~ui.dirty => ui.error /\ ActiveDraft(ui) = {}
       \/ /\ pub.pc = "idle" /\ pub'.pc = "saving"
          /\ pub'.from = ui.sel /\ pub'.def = Shown(ui)
    /\ UNCHANGED <<row, made, gone>>

(* A draft that needs no save is published.                                *)
StepPublish ==
    /\ ~Saving /\ ~Opening /\ ~ui.snap /\ ~ui.dirty /\ ActiveDraft(ui) # {}
    /\ pub.pc = "idle" /\ pub'.pc = "sent"
    /\ pub'.from = ui.sel /\ pub'.def = CurrentDef(ui.sel)
    /\ UNCHANGED <<row, ui, req, made, gone>>

(* A save fails or is answered.                                            *)
StepSaveEnds ==
    /\ Saving /\ ~Saving' /\ req'["save"] = NoReq /\ req'["open"] = req["open"]
    /\ CalmUi /\ ui'.list = ui.list
    /\ \/ /\ ui'.dirty <=> ui.dirty
          /\ pub' = IF pub.pc = "saving" THEN NoPub ELSE pub
       \/ /\ req["save"].pc = "stored" /\ ~ui'.dirty /\ ui'.error = ui.error
          /\ pub' = IF pub.pc = "saving" THEN [pub EXCEPT !.pc = "sent"] ELSE pub
    /\ UNCHANGED <<row, made, gone>>

(* The promoted draft is shown as the version it became.                   *)
StepPromoted ==
    /\ pub.pc = "stored" /\ pub' = NoPub
    /\ ui'.sel = pub.as /\ ui'.snap /\ (ui'.dirty => ui'.doc = {Seed})
    /\ UNCHANGED <<row, req, made, gone>>

StepPromoteFails ==
    /\ pub.pc \in {"sent", "stored"} /\ pub' = NoPub
    /\ UNCHANGED <<row, ui, req, made, gone>>

(* Nothing but the list, the tab or the timer.                             *)
StepCalm ==
    /\ CalmUi /\ (ui'.dirty <=> ui.dirty) /\ ui'.error = ui.error
    /\ ui'.list = ui.list \/ ui'.list = row
    /\ UNCHANGED <<row, req, pub, made, gone>>

(* The editor turns to something else, with nothing under way but "Edit".  *)
StepMove ==
    /\ ~Saving /\ pub.pc = "idle" /\ pub' = pub /\ req'["save"] = req["save"]
    /\ ui'.dirty => ui'.doc = {Seed} /\ Empty(row)
    /\ ui.dirty => ui.doc \cap Edits \subseteq gone'
    /\ gone \subseteq gone'
    /\ \/ req' = req
       \/ req'["open"] = NoReq
       \/ /\ req'["open"].pc = "sent" /\ ui.sel \in Named(ui.list)
          /\ req'["open"].to = ui.sel /\ req'["open"].def = ui.list[ui.sel].def
          /\ slips' = {} => DraftsOf(row, ui.sel) = {}
    /\ UNCHANGED <<row, made>>

LEMMA TracksTells ==
    ASSUME TypeInv, DraftInv, [Next]_vars, Tracks'
    PROVE  /\ Tracks
           /\ slips' \cap Doubling = {}
           /\ OneEach /\ FoundNone /\ OpensAlone
           /\ \A f \in SlipKinds \ Harmless : f \notin slips'
  <1>1. slips \subseteq slips' /\ slips' \subseteq Slips
    BY SlipsGrow
  <1>2. slips' \subseteq Harmless
    BY DEF Tracks
  <1>3. Harmless \cap Doubling = {}
    BY DEF Harmless, Doubling
  <1>4. slips \subseteq Harmless /\ slips' \cap Doubling = {} /\ slips \cap Doubling = {}
    BY <1>1, <1>2, <1>3
  <1> QED
    BY <1>2, <1>4 DEF Tracks, DraftInv

(* A definition that is not loaded again over edits that are not saved.    *)
LEMMA CleanLoad ==
    ASSUME TypeInv, Shape, [Next]_vars, Reloaded',
           Empty(ui'.list) => FALSE
    PROVE  ~ui'.dirty
  <1>1. WellPlaced(ui'.list)
    BY UiNext
  <1>2. PICK u \in Ui : u = ui'
    <2>1. TypeOK'
      BY TypeNext DEF TypeInv
    <2> QED
      BY <2>1 DEF TypeOK, Ui
  <1>3. u.dirty = (Seed \notin ServerDef(u))
    BY <1>2 DEF Reloaded
  <1> QED
    BY <1>1, <1>2, <1>3, LoadsClean

LEMMA NoLoadWhenEmpty ==
    ASSUME ui' \in Ui, Empty(ui'.list), ui.base # BaseKey(ui'), Empty(ui.list), UiShape
    PROVE  FALSE
  <1>1. PICK u \in Ui : u = ui'
    OBVIOUS
  <1>2. BaseKey(ui') = Root
    BY <1>1, EmptyList
  <1> QED
    BY <1>2 DEF UiShape

LEMMA WorkingShows ==
    ASSUME NEW S, Slip(Working \cup S), "outdated canvas" \notin slips', ~ui.dirty
    PROVE  Shown(ui) = CurrentDef(ui.sel)
  <1>0. slips' \cap {"outdated canvas"} = {}
    OBVIOUS
  <1>1. (Working \cup S) \cap {"outdated canvas"} = {}
    BY <1>0, SlipTells
  <1>2. Outdated => "outdated canvas" \in Working
    BY DEF Working, When
  <1> QED
    BY <1>1, <1>2 DEF Outdated

LEMMA CalmForm ==
    ASSUME TypeInv, Shape, [Next]_vars, ui' \in Ui,
           ui'.sel = ui.sel, ui'.snap = ui.snap,
           ui'.list = ui.list \/ ui'.list = row,
           \/ ui'.doc = ui.doc /\ ui'.dirty = ui.dirty
           \/ ~ui.dirty /\ ui.base # BaseKey(ui') /\ Reloaded'
    PROVE  CalmUi /\ (ui'.dirty <=> ui.dirty)
  <1>1. Empty(ui'.list) => Empty(ui.list)
    BY ListIsOlder DEF Shape
  <1>2. CASE ui'.doc = ui.doc /\ ui'.dirty = ui.dirty
    BY <1>2 DEF CalmUi
  <1>3. CASE ~ui.dirty /\ ui.base # BaseKey(ui') /\ Reloaded'
    <2>1. Empty(ui'.list) => FALSE
      BY <1>1, <1>3, NoLoadWhenEmpty DEF Shape
    <2>2. ~ui'.dirty
      BY <1>3, <2>1, CleanLoad
    <2> QED
      BY <1>3, <2>2 DEF CalmUi
  <1> QED
    BY <1>2, <1>3

LEMMA EditForm ==
    ASSUME TypeInv, Shape, DraftInv, [Next]_vars, Tracks', NEW e \in Edits, Edit(e)
    PROVE  StepEdit(e)
  <1>1. /\ made[e] = NoSlot /\ made' = [made EXCEPT ![e] = ui.sel]
        /\ InEdit(ui)
        /\ ui'.sel = ui.sel /\ ui'.snap = ui.snap
        /\ ui'.doc = ui.doc \cup {e} /\ ui'.dirty
        /\ Slip(Working \cup When("edit while busy", Busy /\ ~Opening))
        /\ UNCHANGED <<row, req, pub, gone>>
    BY EditSteps
  <1>2. slips' \cap Doubling = {} /\ "outdated canvas" \notin slips'
    BY TracksTells DEF SlipKinds, Harmless
  <1>3. ~Opening
    BY <1>1, <1>2, WorkingTells
  <1>4. ~ui.dirty => Shown(ui) = CurrentDef(ui.sel)
    BY <1>1, <1>2, WorkingShows
  <1>5. Shown(ui) = ui.doc
    BY <1>1 DEF Shown, Mode, InEdit
  <1>6. slips' = {} => ~Busy
    <2>0. PICK b \in BOOLEAN : b = (Busy /\ ~Opening)
      OBVIOUS
    <2>1. Working \cup When("edit while busy", b) \subseteq slips'
      <3>1. Slip(Working \cup When("edit while busy", b))
        BY <1>1, <2>0
      <3> QED
        BY <3>1 DEF Slip
    <2>2. b => "edit while busy" \in slips'
      BY <2>1 DEF When
    <2> QED
      BY <1>3, <2>0, <2>2
  <1>7. ~ui.snap /\ ~ui'.snap
    BY <1>1 DEF InEdit
  <1> QED
    BY <1>1, <1>3, <1>4, <1>5, <1>6, <1>7 DEF StepEdit

LEMMA SendForms ==
    ASSUME TypeInv, Shape, DraftInv, [Next]_vars, Tracks',
           AutosaveFires \/ RetrySave \/ Publish
    PROVE  StepSend \/ StepPublish \/ StepCalm
  <1>0. ui \in Ui
    BY EditorTypes DEF TypeInv
  <1>1. /\ slips' \cap Doubling = {} /\ "outdated canvas" \notin slips'
        /\ "publish while saving" \notin slips' /\ "switch while dirty" \notin slips'
        /\ OpensAlone
    BY TracksTells DEF SlipKinds, Harmless
  <1>2. InEdit(ui) => Shown(ui) = ui.doc /\ ~ui.snap
    BY DEF Shown, Mode, InEdit
  <1>3. CASE AutosaveFires
    <2>1. ui.dirty /\ InEdit(ui)
      BY <1>3, AutosaveSteps DEF Shape, UiShape, TimerFine
    <2>2. ~Opening
      BY <1>1, <2>1 DEF OpensAlone
    <2>3. /\ ui'.sel = ui.sel /\ ui'.snap = ui.snap /\ ui'.list = ui.list
          /\ ui'.doc = ui.doc /\ ui'.dirty = ui.dirty
          /\ UNCHANGED <<row, pub, made, gone>>
          /\ \/ req' = req /\ ui'.error = ui.error
             \/ SaveIsSent /\ ~ui'.error
      BY <1>3, AutosaveSteps
    <2>4. CASE req' = req /\ ui'.error = ui.error
      BY <2>3, <2>4 DEF StepCalm, CalmUi
    <2>5. CASE SaveIsSent /\ ~ui'.error
      BY <1>2, <2>1, <2>2, <2>3, <2>5 DEF StepSend
    <2> QED
      BY <2>3, <2>4, <2>5
  <1>4. CASE RetrySave
    <2>1. /\ ui.error /\ InEdit(ui) /\ NeedsSave(ui) /\ SaveIsSent
          /\ ui'.sel = ui.sel /\ ui'.snap = ui.snap /\ ui'.list = ui.list
          /\ ui'.doc = ui.doc /\ ui'.dirty = ui.dirty /\ ~ui'.error
          /\ Slip(Working) /\ UNCHANGED <<row, pub, made, gone>>
      BY <1>4, RetrySteps
    <2>2. Slip(Working \cup {})
      BY <2>1, NothingMore
    <2>3. ~Opening
      BY <1>1, <2>2, WorkingTells
    <2>4. ~ui.dirty => Shown(ui) = CurrentDef(ui.sel)
      BY <1>1, <2>2, WorkingShows
    <2>5. ~ui.dirty => ActiveDraft(ui) = {}
      BY <2>1 DEF NeedsSave
    <2> QED
      BY <1>2, <2>1, <2>3, <2>4, <2>5 DEF StepSend
  <1>5. CASE Publish
    <2>1. /\ PublishOffered(ui) /\ pub.pc = "idle"
          /\ pub'.from = ui.sel /\ pub'.def = Shown(ui)
          /\ \/ /\ Saving \/ ~NeedsSave(ui)
                /\ pub'.pc = "sent" /\ UNCHANGED <<req, ui>>
             \/ /\ SaveIsSent
                /\ pub'.pc = "saving"
                /\ ui'.sel = ui.sel /\ ui'.snap = ui.snap
                /\ ui'.list = ui.list
                /\ ui'.doc = ui.doc /\ ui'.dirty = ui.dirty
                /\ ~ui'.error
          /\ Slip(Working \cup When("publish while saving", Saving)
                     \cup When("switch while dirty", ui.dirty /\ Mode(ui) = "view"))
          /\ UNCHANGED <<row, made, gone>>
      BY <1>5, PublishSteps
    <2>2. PICK S : S = When("publish while saving", Saving)
                     \cup When("switch while dirty", ui.dirty /\ Mode(ui) = "view")
      OBVIOUS
    <2>3. Slip(Working \cup S)
      <3>1. Working \cup When("publish while saving", Saving)
                     \cup When("switch while dirty", ui.dirty /\ Mode(ui) = "view") = Working \cup S
        BY <2>2
      <3> QED
        BY <2>1, <3>1
    <2>4. ~Opening
      BY <1>1, <2>3, WorkingTells
    <2>5. ~ui.dirty => Shown(ui) = CurrentDef(ui.sel)
      BY <1>1, <2>3, WorkingShows
    <2>6. S \subseteq slips'
      BY <2>3, Slipping
    <2>7. ~Saving
      <3>1. Saving => "publish while saving" \in S
        BY <2>2 DEF When
      <3> QED
        BY <1>1, <2>6, <3>1
    <2>8. ui.dirty => InEdit(ui)
      <3>1. ui.dirty /\ Mode(ui) = "view" => "switch while dirty" \in S
        BY <2>2 DEF When
      <3>2. ui.dirty => Mode(ui) # "view"
        BY <1>1, <2>6, <3>1
      <3> QED
        BY <3>2 DEF Mode, InEdit
    <2>9. ~ui.snap
      <3>1. CASE Mode(ui) = "edit"
        BY <3>1 DEF Mode
      <3>2. CASE Mode(ui) # "edit"
        <4>1. ui.sel = Root
          BY <2>1, <3>2 DEF PublishOffered
        <4> QED
          BY <4>1 DEF Shape, UiShape
      <3> QED
        BY <3>1, <3>2
    <2>10. CASE ~NeedsSave(ui) /\ pub'.pc = "sent" /\ UNCHANGED <<req, ui>>
      <3>1. ~ui.dirty /\ ActiveDraft(ui) # {}
        BY <2>10 DEF NeedsSave
      <3> QED
        BY <2>1, <2>4, <2>5, <2>7, <2>9, <2>10, <3>1 DEF StepPublish
    <2>11. CASE /\ SaveIsSent
                /\ pub'.pc = "saving"
                /\ ui'.sel = ui.sel /\ ui'.snap = ui.snap
                /\ ui'.list = ui.list
                /\ ui'.doc = ui.doc /\ ui'.dirty = ui.dirty
                /\ ~ui'.error
      BY <1>2, <2>1, <2>4, <2>5, <2>8, <2>9, <2>11 DEF StepSend
    <2> QED
      BY <2>1, <2>7, <2>10, <2>11
  <1> QED
    BY <1>3, <1>4, <1>5

LEMMA SaveEndForm ==
    ASSUME TypeInv, Shape, DraftInv, [Next]_vars, Tracks', SaveFails \/ SaveAnswered
    PROVE  StepSaveEnds
  <1>0. ui' \in Ui
    BY SaveFailsSteps, SaveAnsweredSteps
  <1>1. CASE SaveFails
    <2>1. /\ Saving /\ req'["save"] = NoReq /\ req'["open"] = req["open"]
          /\ ui'.sel = ui.sel /\ ui'.snap = ui.snap /\ ui'.list = ui.list
          /\ ui'.doc = ui.doc /\ ui'.dirty = ui.dirty
          /\ pub' = IF pub.pc = "saving" THEN NoPub ELSE pub
          /\ UNCHANGED <<row, made, gone>>
      BY <1>1, SaveFailsSteps
    <2>2. ~Saving'
      BY <2>1 DEF Saving, NoReq
    <2> QED
      BY <2>1, <2>2 DEF StepSaveEnds, CalmUi
  <1>2. CASE SaveAnswered
    <2>1. /\ req["save"].pc = "stored" /\ req'["save"] = NoReq /\ req'["open"] = req["open"]
          /\ ui'.sel = ui.sel /\ ui'.snap = ui.snap /\ ui'.list = ui.list /\ ui'.error = ui.error
          /\ \/ ~ui'.dirty
             \/ ui.base # BaseKey(ui') /\ Reloaded'
          /\ pub' = IF pub.pc = "saving" THEN [pub EXCEPT !.pc = "sent"] ELSE pub
          /\ UNCHANGED <<row, made, gone>>
      BY <1>2, SaveAnsweredSteps
    <2>2. ~Saving' /\ Saving
      BY <2>1 DEF Saving, NoReq
    <2>3. ~ui'.dirty
      <3>1. ASSUME ui.base # BaseKey(ui'), Reloaded' PROVE ~ui'.dirty
        <4>1. Empty(ui'.list) => FALSE
          BY <1>0, <2>1, <3>1, NoLoadWhenEmpty DEF Shape
        <4> QED
          BY <3>1, <4>1, CleanLoad
      <3> QED
        BY <2>1, <3>1
    <2> QED
      BY <2>1, <2>2, <2>3 DEF StepSaveEnds, CalmUi
  <1> QED
    BY <1>1, <1>2

-----------------------------------------------------------------------------
(* What shows the editor something else leaves a canvas without unsaved    *)
(* edits.                                                                  *)

LEMMA SelectsCleanly ==
    ASSUME TypeInv, Shape, [Next]_vars, NEW s, NEW b \in BOOLEAN, Selects(s, b), ~ui.dirty
    PROVE  ~ui'.dirty
  <1>0. ui' \in Ui
    BY DEF Selects
  <1>1. CASE ui.base # BaseKey(ui') /\ Reloaded'
    <2>1. Empty(ui'.list) => FALSE
      BY <1>0, <1>1, NoLoadWhenEmpty DEF Shape, Selects
    <2> QED
      BY <1>1, <2>1, CleanLoad
  <1> QED
    BY <1>1 DEF Selects

LEMMA PutsCleanly ==
    ASSUME TypeInv, Shape, [Next]_vars, NEW s, NEW b \in BOOLEAN, NEW t, NEW def, NEW base,
           Puts(s, b, t, def, base), Seed \in def, ~Empty(ui.list)
    PROVE  ~ui'.dirty
  <1>1. CASE Reloaded'
    <2>1. Empty(ui'.list) => FALSE
      BY DEF Puts
    <2> QED
      BY <1>1, <2>1, CleanLoad
  <1> QED
    BY <1>1 DEF Puts

LEMMA CalmForms ==
    ASSUME TypeInv, Shape, [Next]_vars,
           \/ Refetch
           \/ \E t \in {"graph", "history"} : OpenTab(t)
           \/ UNCHANGED vars
    PROVE  StepCalm
  <1>1. CASE Refetch
    <2>1. /\ ui' \in Ui
          /\ ui'.sel = ui.sel /\ ui'.snap = ui.snap
          /\ ui'.error = ui.error /\ ui'.list = row
          /\ \/ ui'.doc = ui.doc /\ ui'.dirty = ui.dirty
             \/ ~ui.dirty /\ ui.base # BaseKey(ui') /\ Reloaded'
          /\ UNCHANGED <<row, req, pub, made, gone>>
      BY <1>1, RefetchSteps
    <2>2. CalmUi /\ (ui'.dirty <=> ui.dirty)
      BY <2>1, CalmForm
    <2> QED
      BY <2>1, <2>2 DEF StepCalm
  <1>2. ASSUME NEW t \in {"graph", "history"}, OpenTab(t) PROVE StepCalm
    <2>1. /\ ui' \in Ui
          /\ ui'.sel = ui.sel /\ ui'.snap = ui.snap
          /\ ui'.error = ui.error /\ ui'.list = ui.list
          /\ \/ ui'.doc = ui.doc /\ ui'.dirty = ui.dirty
             \/ ~ui.dirty /\ ui.base # BaseKey(ui') /\ Reloaded'
          /\ UNCHANGED <<row, req, pub, made, gone>>
      BY <1>2, OpenTabSteps
    <2>2. CalmUi /\ (ui'.dirty <=> ui.dirty)
      BY <2>1, CalmForm
    <2> QED
      BY <2>1, <2>2 DEF StepCalm
  <1>3. CASE UNCHANGED vars
    BY <1>3 DEF StepCalm, CalmUi, vars
  <1> QED
    BY <1>1, <1>2, <1>3

LEMMA Moves ==
    ASSUME pub.pc = "idle", ~Saving, ~ui.dirty, ~ui'.dirty,
           UNCHANGED <<row, pub, made, gone>>, req'["save"] = req["save"],
           req' = req \/ req'["open"] = NoReq
    PROVE  StepMove
  BY DEF StepMove

LEMMA MoveForms ==
    ASSUME TypeInv, Shape, DraftInv, [Next]_vars, Tracks',
           \/ \E v \in Rows : SelectVersion(v)
           \/ \E s \in Slots : SelectDraft(s)
           \/ ViewVersion \/ OpenVersion \/ OpenAnswered \/ OpenFails \/ Reload
    PROVE  StepMove
  <1>0. /\ row \in [Rows -> Row] /\ ui \in Ui /\ req \in [Requests -> Request]
        /\ ui.list \in [Rows -> Row]
    BY EditorTypes DEF TypeInv, Ui
  <1>1. "switch while dirty" \notin slips' /\ OpensAlone
    BY TracksTells DEF SlipKinds, Harmless
  <1>2. ASSUME NEW s, NEW b \in BOOLEAN, Selects(s, b), Slip(Switching), req' = req
        PROVE  StepMove
    <2>1. ~ui.dirty /\ ~Saving /\ pub.pc = "idle"
      BY <1>1, <1>2, SwitchedTells
    <2>2. ~ui'.dirty
      BY <1>2, <2>1, SelectsCleanly
    <2> QED
      BY <1>2, <2>1, <2>2, Moves DEF Selects
  <1>3. ASSUME NEW s, NEW b \in BOOLEAN, NEW t, NEW def, NEW base,
               Puts(s, b, t, def, base), Seed \in def, ~Empty(ui.list),
               UNCHANGED <<row, pub, made, gone>>, req' = req, Slip(Switching)
        PROVE  StepMove
    <2>1. ~ui.dirty /\ ~Saving /\ pub.pc = "idle"
      BY <1>1, <1>3, SwitchedTells
    <2>2. ~ui'.dirty
      BY <1>3, PutsCleanly
    <2> QED
      BY <1>3, <2>1, <2>2, Moves
  <1>4. ASSUME NEW r \in Rows, ui.list[r].st # "free"
        PROVE  Seed \in ui.list[r].def /\ ~Empty(ui.list)
    BY <1>4 DEF Shape, WellPlaced, Empty
  <1>5. ASSUME NEW v \in Rows, SelectVersion(v) PROVE StepMove
    BY <1>2, <1>5, SelectVersionSteps
  <1>6. ASSUME NEW s \in Slots, SelectDraft(s) PROVE StepMove
    BY <1>2, <1>6, SelectDraftSteps
  <1>7. CASE ViewVersion
    <2>1. /\ ui.sel \in Named(ui.list)
          /\ Puts(ui.sel, TRUE, "graph", ui.list[ui.sel].def, ui.sel)
          /\ Slip(Switching) /\ UNCHANGED <<row, req, pub, made, gone>>
      BY <1>7, ViewVersionSteps
    <2>2. Seed \in ui.list[ui.sel].def /\ ~Empty(ui.list)
      BY <1>4, <2>1 DEF Named
    <2> QED
      BY <1>3, <2>1, <2>2
  <1>8. CASE OpenVersion
    <2>0. UNCHANGED <<row, pub, made, gone>> /\ ui.sel \in Named(ui.list)
      BY <1>8, OpenVersionSteps
    <2>1. ASSUME First(ActiveDraft(ui)) \in ActiveDraft(ui),
                 Puts(ui.sel, FALSE, "graph", ui.list[First(ActiveDraft(ui))].def,
                      First(ActiveDraft(ui))),
                 Slip(Switching), req' = req
          PROVE  StepMove
      <3>1. PICK r : r = First(ActiveDraft(ui))
        OBVIOUS
      <3>2. r \in Rows /\ ui.list[r].st # "free"
        BY <2>1, <3>1 DEF ActiveDraft, DraftsOf
      <3>3. Seed \in ui.list[r].def /\ ~Empty(ui.list)
        BY <1>4, <3>2
      <3>4. Puts(ui.sel, FALSE, "graph", ui.list[r].def, r)
        BY <2>1, <3>1
      <3> QED
        BY <1>3, <2>0, <2>1, <3>3, <3>4
    <2>2. ASSUME Selects(ui.sel, FALSE),
                 Slip(Switching \cup When("outdated list", DraftsOf(row, ui.sel) # {})),
                 req'["save"] = req["save"], req'["open"].pc = "sent",
                 req'["open"].to = ui.sel, req'["open"].def = ui.list[ui.sel].def
          PROVE  StepMove
      <3>1. PICK b \in BOOLEAN : b = (DraftsOf(row, ui.sel) # {})
        OBVIOUS
      <3>2. Slip(Switching \cup When("outdated list", b))
        BY <2>2, <3>1
      <3>3. ~ui.dirty /\ ~Saving /\ pub.pc = "idle"
        BY <1>1, <3>2, SwitchingTells
      <3>4. ~ui'.dirty
        BY <2>2, <3>3, SelectsCleanly
      <3>5. Switching \cup When("outdated list", b) \subseteq slips'
        BY <3>2 DEF Slip
      <3>6. b => "outdated list" \in slips'
        BY <3>5 DEF When
      <3> QED
        BY <2>0, <2>2, <3>1, <3>3, <3>4, <3>6 DEF StepMove
    <2> QED
      BY <1>8, <2>1, <2>2, OpenVersionSteps
  <1>9. CASE OpenAnswered \/ OpenFails
    <2>1. Opening /\ req'["open"] = NoReq /\ req'["save"] = req["save"]
          /\ UNCHANGED <<row, pub, made, gone>>
      BY <1>9, OpenAnsweredSteps, OpenFailsSteps DEF Opening
    <2>2. ~Saving /\ pub.pc = "idle" /\ ~ui.dirty
      BY <1>1, <2>1 DEF OpensAlone
    <2>3. ~ui'.dirty
      <3>1. CASE OpenFails
        BY <2>2, <3>1, OpenFailsSteps
      <3>2. CASE OpenAnswered
        <4>1. Puts(req["open"].to, ui.snap, "graph", req["open"].def,
                   First(req["open"].found))
          BY <3>2, OpenAnsweredSteps
        <4>2. Seed \in req["open"].def /\ ~Empty(ui.list)
          BY <2>1, OpenListed DEF Shape, ReqShape, Opening, Requests
        <4>3. ui.snap \in BOOLEAN
          BY <1>0 DEF Ui
        <4> QED
          BY <4>1, <4>2, <4>3, PutsCleanly
      <3> QED
        BY <1>9, <3>1, <3>2
    <2> QED
      BY <2>1, <2>2, <2>3, Moves
  <1>10. CASE Reload
    <2>1. /\ ~Busy /\ ui' \in Ui /\ ui'.list = row /\ Reloaded'
          /\ gone' = IF ui.dirty THEN gone \cup (ui.doc \cap Edits) ELSE gone
          /\ UNCHANGED <<row, req, pub, made>>
      BY <1>10, ReloadSteps
    <2>2. ~Saving /\ pub.pc = "idle"
      BY <2>1 DEF Busy
    <2>3. ui'.dirty => ui'.doc = {Seed} /\ Empty(row)
      <3>1. CASE Empty(row)
        <4>1. PICK u \in Ui : u = ui'
          BY <2>1
        <4>2. ServerDef(ui') = {}
          BY <2>1, <3>1, <4>1, EmptyList
        <4>3. ui'.doc = ServerDef(ui') \cup {Seed}
          BY <2>1 DEF Reloaded
        <4> QED
          BY <3>1, <4>2, <4>3
      <3>2. CASE ~Empty(row)
        <4>1. Empty(ui'.list) => FALSE
          BY <2>1, <3>2
        <4> QED
          BY <2>1, <4>1, CleanLoad
      <3> QED
        BY <3>1, <3>2
    <2> QED
      BY <2>1, <2>2, <2>3 DEF StepMove
  <1> QED
    BY <1>5, <1>6, <1>7, <1>8, <1>9, <1>10

LEMMA PromotedForm ==
    ASSUME TypeInv, Shape, [Next]_vars, PromoteAnswered PROVE StepPromoted
  <1>1. /\ pub.pc = "stored" /\ pub.as \in Rows
        /\ Puts(pub.as, TRUE, "history", row[pub.as].def, pub.as)
        /\ pub' = NoPub /\ UNCHANGED <<row, req, made, gone>>
    BY PromoteAnsweredSteps
  <1>2. row[pub.as].st # "free"
    BY <1>1 DEF Shape, PubShape, Named
  <1>3. Seed \in row[pub.as].def
    BY <1>1, <1>2 DEF Shape, WellPlaced
  <1>4. ui' \in Ui /\ ui'.sel = pub.as /\ ui'.snap /\ ui'.list = ui.list
    BY <1>1 DEF Puts
  <1>5. ui'.dirty => ui'.doc = {Seed}
    <2>1. CASE Empty(ui.list)
      <3>1. CASE Reloaded'
        <4>1. PICK u \in Ui : u = ui'
          BY <1>4
        <4>2. ServerDef(ui') = {}
          BY <1>4, <2>1, <4>1, EmptyList
        <4> QED
          BY <3>1, <4>2 DEF Reloaded
      <3> QED
        BY <1>1, <1>3, <3>1 DEF Puts
    <2>2. CASE ~Empty(ui.list)
      BY <1>1, <1>3, <2>2, PutsCleanly
    <2> QED
      BY <2>1, <2>2
  <1> QED
    BY <1>1, <1>4, <1>5 DEF StepPromoted

(* The steps of the backend.                                               *)
Written(r, s, def) ==
    /\ r \in Rows /\ row' \in [Rows -> Row] /\ OthersSame(r)
    /\ row[r].st # "free" => row[r].parent = s /\ row'[r].st = row[r].st
    /\ row[r].st = "free" => row'[r].st = "draft"
    /\ row'[r].parent = s /\ row'[r].def = def

StepOther(e, s) ==
    /\ made[e] = NoSlot /\ made' = [made EXCEPT ![e] = s] /\ gone' = gone \cup {e}
    /\ s # ui.sel /\ s # pub.from
    /\ \A k \in Requests : req[k].pc # "idle" => req[k].to # s
    /\ \E r \in Rows, def \in SUBSET Contents :
          /\ Written(r, s, def) /\ row[r].st # "named" /\ row[r].def \subseteq def
          /\ \A x \in def \cap Edits :
                \/ x = e
                \/ s \in Rows /\ x \in row[s].def
                \/ row[r].st # "free" /\ x \in row[r].def
    /\ UNCHANGED <<ui, req, pub>>

StepFind(k) ==
    /\ req[k].pc = "sent" /\ req'[k].pc = "found"
    /\ req'[k].to = req[k].to /\ req'[k].def = req[k].def
    /\ req'[k].found = DraftsOf(row, req[k].to)
    /\ \A j \in Requests : j # k => req'[j] = req[j]
    /\ UNCHANGED <<row, ui, pub, made, gone>>

StepWrite(k) ==
    /\ req[k].pc = "found" /\ req'[k].pc = "stored"
    /\ req'[k].to = req[k].to /\ req'[k].def = req[k].def
    /\ \E r \in Rows :
          /\ Written(r, req[k].to, req[k].def)
          /\ \/ row[r].st = "free" /\ req[k].found = {} /\ req'[k].found = {r}
             \/ row[r].st # "free" /\ r = First(req[k].found) /\ r \in req[k].found
                /\ req'[k].found = req[k].found
    /\ \A j \in Requests : j # k => req'[j] = req[j]
    /\ UNCHANGED <<ui, pub, made, gone>>

StepPromote ==
    /\ pub.pc = "sent" /\ pub'.pc = "stored"
    /\ pub'.from = pub.from /\ pub'.def = pub.def
    /\ \E r \in DraftsOf(row, pub.from) :
          RowNamed(r) /\ pub'.as = r /\ \A q \in DraftsOf(row, pub.from) : q = r
    /\ UNCHANGED <<ui, req, made, gone>>

LEMMA OtherForm ==
    ASSUME TypeInv, Shape, [Next]_vars, Tracks', NEW e \in Edits, NEW s \in Slots, OtherSaves(s, e)
    PROVE  StepOther(e, s)
  <1>0. row \in [Rows -> Row]
    BY EditorTypes DEF TypeInv
  <1>1. /\ made[e] = NoSlot /\ s \in Named(row) \cup {Root}
        /\ made' = [made EXCEPT ![e] = s] /\ gone' = gone \cup {e}
        /\ \/ /\ DraftsOf(row, s) = {}
              /\ \E r \in Rows : RowInserted(r, s, StartOf(s) \cup {e})
           \/ \E r \in DraftsOf(row, s) : \E def \in {StartOf(s), row[r].def} :
                 RowSaved(r, def \cup {e})
    BY OtherSteps
  <1>2. "another client" \notin slips'
    BY DEF Tracks, Harmless
  <1>3. /\ s # ui.sel /\ s # pub.from
        /\ \A k \in Requests : req[k].pc # "idle" => req[k].to # s
        /\ \A r \in Rows : row[r].def \subseteq row'[r].def
    BY <1>2, OtherTells
  <1>4. UNCHANGED <<ui, req, pub>>
    BY DEF OtherSaves
  <1>5. StartOf(s) \subseteq Contents /\ Seed \notin Edits
        /\ \A x \in StartOf(s) \cap Edits : s \in Rows /\ x \in row[s].def
    BY <1>0, <1>1, RowsAreRows DEF StartOf, Named, Contents
  <1> DEFINE Right(r, def) ==
          /\ Written(r, s, def) /\ row[r].st # "named" /\ row[r].def \subseteq def
          /\ \A x \in def \cap Edits :
                \/ x = e
                \/ s \in Rows /\ x \in row[s].def
                \/ row[r].st # "free" /\ x \in row[r].def
  <1>6. ASSUME NEW r \in Rows, RowInserted(r, s, StartOf(s) \cup {e})
        PROVE  \E q \in Rows, def \in SUBSET Contents : Right(q, def)
    <2>1. PICK def \in SUBSET Contents : def = StartOf(s) \cup {e}
      BY <1>5 DEF Contents
    <2>2. /\ row[r].st = "free" /\ row' \in [Rows -> Row] /\ OthersSame(r)
          /\ row'[r].st = "draft" /\ row'[r].parent = s /\ row'[r].def = def
      BY <1>6, <2>1 DEF RowInserted
    <2>3. Right(r, def)
      BY <1>3, <1>5, <2>1, <2>2 DEF Written
    <2> QED
      BY <2>3
  <1>7. ASSUME NEW r \in DraftsOf(row, s), NEW d \in {StartOf(s), row[r].def},
               RowSaved(r, d \cup {e})
        PROVE  \E q \in Rows, def \in SUBSET Contents : Right(q, def)
    <2>0. r \in Rows /\ row[r].st = "draft" /\ row[r].parent = s /\ row[r].def \subseteq Contents
      BY <1>0, RowsAreRows DEF DraftsOf
    <2>1. PICK def \in SUBSET Contents : def = d \cup {e}
      BY <1>5, <2>0 DEF Contents
    <2>2. /\ row' \in [Rows -> Row] /\ OthersSame(r)
          /\ row'[r].st = row[r].st /\ row'[r].parent = row[r].parent /\ row'[r].def = def
      BY <1>7, <2>1 DEF RowSaved
    <2>3. Written(r, s, def) /\ row[r].st # "named" /\ row[r].def \subseteq def
      BY <1>3, <2>0, <2>2 DEF Written
    <2>4. \A x \in def \cap Edits : x = e \/ (s \in Rows /\ x \in row[s].def) \/ x \in row[r].def
      BY <1>5, <2>1
    <2> QED
      BY <2>0, <2>3, <2>4
  <1>8. \E q \in Rows, def \in SUBSET Contents : Right(q, def)
    BY <1>1, <1>6, <1>7
  <1> QED
    BY <1>1, <1>3, <1>4, <1>8 DEF StepOther

LEMMA WriteForm ==
    ASSUME TypeInv, Shape, NEW k \in Requests, WriteDraft(k)
    PROVE  StepWrite(k)
  <1>0. row \in [Rows -> Row] /\ req \in [Requests -> Request]
    BY EditorTypes DEF TypeInv
  <1>1. /\ req[k].pc = "found"
        /\ \A j \in Requests : j # k => req'[j] = req[j]
        /\ req'[k].pc = "stored" /\ req'[k].to = req[k].to
        /\ req'[k].def = req[k].def
        /\ \/ /\ req[k].found = {}
              /\ \E r \in Rows : /\ RowInserted(r, req[k].to, req[k].def)
                                 /\ req'[k].found = {r}
           \/ \E r \in req[k].found :
                 /\ RowSaved(r, req[k].def)
                 /\ req'[k].found = req[k].found
                 /\ r = First(req[k].found)
        /\ UNCHANGED <<ui, pub, made, gone, slips>>
    BY WriteSteps
  <1>2. PICK s, def : s = req[k].to /\ def = req[k].def
    OBVIOUS
  <1> DEFINE Right(r) ==
          /\ Written(r, s, def)
          /\ \/ row[r].st = "free" /\ req[k].found = {} /\ req'[k].found = {r}
             \/ row[r].st # "free" /\ r = First(req[k].found) /\ r \in req[k].found
                /\ req'[k].found = req[k].found
  <1>3. ASSUME NEW r \in Rows, RowInserted(r, s, def), req[k].found = {}, req'[k].found = {r}
        PROVE  \E q \in Rows : Right(q)
    <2>1. /\ row[r].st = "free" /\ row' \in [Rows -> Row] /\ OthersSame(r)
          /\ row'[r].st = "draft" /\ row'[r].parent = s /\ row'[r].def = def
      BY <1>3 DEF RowInserted
    <2>2. Written(r, s, def)
      BY <2>1 DEF Written
    <2> QED
      BY <1>3, <2>1, <2>2
  <1>4. ASSUME NEW r \in req[k].found, RowSaved(r, def), req'[k].found = req[k].found,
               r = First(req[k].found)
        PROVE  \E q \in Rows : Right(q)
    <2>1. /\ r \in Rows /\ row' \in [Rows -> Row] /\ OthersSame(r)
          /\ row'[r].st = row[r].st /\ row'[r].parent = row[r].parent /\ row'[r].def = def
      BY <1>4 DEF RowSaved
    <2>2. row[r].st # "free" /\ row[r].parent = s
      BY <1>1, <1>2, <1>4 DEF Shape, ReqShape
    <2>3. Written(r, s, def)
      BY <2>1, <2>2 DEF Written
    <2> QED
      BY <1>4, <2>1, <2>2, <2>3
  <1>5. \E q \in Rows : Right(q)
    BY <1>1, <1>2, <1>3, <1>4
  <1> QED
    BY <1>1, <1>2, <1>5 DEF StepWrite

TrackedStep ==
    \/ \E e \in Edits : StepEdit(e)
    \/ \E e \in Edits : \E s \in Slots : StepOther(e, s)
    \/ \E k \in Requests : StepFind(k) \/ StepWrite(k)
    \/ StepPromote
    \/ StepSend \/ StepPublish \/ StepSaveEnds
    \/ StepPromoted \/ StepPromoteFails
    \/ StepCalm \/ StepMove

LEMMA StepForms ==
    ASSUME TypeInv, Shape, DraftInv, [Next]_vars, Tracks'
    PROVE  TrackedStep
  <1>1. PromoteFails => StepPromoteFails
    BY DEF PromoteFails, StepPromoteFails
  <1>2. ASSUME NEW e \in Edits, Edit(e) PROVE StepEdit(e)
    BY <1>2, EditForm
  <1>3. ASSUME NEW e \in Edits, NEW s \in Slots, OtherSaves(s, e) PROVE StepOther(e, s)
    BY <1>3, OtherForm
  <1>4. ASSUME NEW k \in Requests, FindDraft(k) PROVE StepFind(k)
    BY <1>4, FindSteps DEF StepFind
  <1>5. ASSUME NEW k \in Requests, WriteDraft(k) PROVE StepWrite(k)
    BY <1>5, WriteForm
  <1>6. Promote => StepPromote
    BY PromoteSteps DEF StepPromote
  <1> QED
    BY NextCases, <1>1, <1>2, <1>3, <1>4, <1>5, <1>6, SendForms, SaveEndForm, CalmForms,
       MoveForms, PromotedForm DEF TrackedStep

-----------------------------------------------------------------------------
(* Drafts stay apart because what is in a row, on the canvas and in a      *)
(* request fits the slot it is for, a save contains what the draft it      *)
(* writes already has, and a publication is about the selected draft.      *)
Fits(s, def) == \A e \in def \cap Edits : made[e] = s \/ (s \in Rows /\ e \in row[s].def)

RowsFit == \A r \in Rows : row[r].st # "free" => Fits(row[r].parent, row[r].def)
ReqsFit == \A k \in Requests : req[k].pc # "idle" => Fits(req[k].to, req[k].def)
CanvasFits ==
    ui.dirty /\ ~ui.snap =>
       /\ Fits(ui.sel, ui.doc)
       /\ \A r \in DraftsOf(row, ui.sel) : row[r].def \subseteq ui.doc

(* Definitions of versions only grow.                                      *)
ListGrew == \A r \in Named(ui.list) : ui.list[r].def \subseteq row[r].def

SaveCovers ==
    /\ req["save"].pc = "sent" =>
          \A r \in DraftsOf(row, req["save"].to) : row[r].def \subseteq req["save"].def
    /\ req["save"].pc = "found" =>
          /\ \A r \in req["save"].found : row[r].def \subseteq req["save"].def
          /\ \A q, r \in req["save"].found : q = r

OpensDrafts ==
    req["open"].pc = "found" => \A r \in req["open"].found : row[r].st = "draft"

(* The save under way will be written to a draft.                          *)
ToDraft ==
    \/ req["save"].pc = "sent"
    \/ req["save"].pc = "found" /\ \A r \in req["save"].found : row[r].st = "draft"

SaveIsOlder ==
    /\ ToDraft /\ ui.dirty /\ ~ui.snap => req["save"].def \subseteq ui.doc
    /\ ToDraft /\ ~ui.dirty /\ req["save"].to = ui.sel =>
          req["save"].def = CurrentDef(ui.sel)
    /\ Saving /\ req["save"].to # ui.sel => ui.snap

PublishesShown ==
    /\ pub.pc # "idle" => ui.sel = pub.from /\ ~ui.snap
    /\ pub.pc = "saving" => Saving
    /\ pub.pc \in {"saving", "sent"} /\ req["save"].pc \in {"found", "stored"} =>
          req["save"].found \subseteq DraftsOf(row, pub.from)

PublishesClean ==
    pub.pc = "sent" /\ ~ui.dirty =>
       \/ CurrentDef(pub.from) = StartOf(pub.from)
       \/ ~Saving /\ DraftsOf(row, pub.from) # {} /\ (~ui.error \/ ActiveDraft(ui) # {})

FitInv ==
    /\ RowsFit /\ ReqsFit /\ CanvasFits
    /\ ListGrew /\ SaveCovers /\ OpensDrafts
    /\ SaveIsOlder /\ PublishesShown /\ PublishesClean

LEMMA ListNext ==
    ASSUME TypeInv, [Next]_vars PROVE ui'.list = ui.list \/ ui'.list = row
  <1>1. ASSUME NEW s, NEW b \in BOOLEAN, Selects(s, b) PROVE ui'.list = ui.list
    BY <1>1 DEF Selects
  <1>2. ASSUME NEW s, NEW b \in BOOLEAN, NEW t, NEW def, NEW base, Puts(s, b, t, def, base)
        PROVE  ui'.list = ui.list
    BY <1>2 DEF Puts
  <1>3. ui.snap \in BOOLEAN
    BY EditorTypes DEF TypeInv, Ui
  <1>4. ASSUME NEW e \in Edits, Edit(e) PROVE ui'.list = ui.list
    BY <1>4, EditSteps
  <1>5. AutosaveFires => ui'.list = ui.list
    BY AutosaveSteps
  <1>6. RetrySave => ui'.list = ui.list
    BY RetrySteps
  <1>7. SaveFails => ui'.list = ui.list
    BY SaveFailsSteps
  <1>8. SaveAnswered => ui'.list = ui.list
    BY SaveAnsweredSteps
  <1>9. Refetch => ui'.list = row
    BY RefetchSteps
  <1>10. Reload => ui'.list = row
    BY ReloadSteps
  <1>11. ASSUME NEW t \in {"graph", "history"}, OpenTab(t) PROVE ui'.list = ui.list
    BY <1>11, OpenTabSteps
  <1>12. ASSUME NEW v \in Rows, SelectVersion(v) PROVE ui'.list = ui.list
    BY <1>1, <1>12, SelectVersionSteps
  <1>13. ASSUME NEW s \in Slots, SelectDraft(s) PROVE ui'.list = ui.list
    BY <1>1, <1>13, SelectDraftSteps
  <1>14. ViewVersion => ui'.list = ui.list
    BY <1>2, ViewVersionSteps
  <1>15. OpenVersion => ui'.list = ui.list
    BY <1>1, <1>2, OpenVersionSteps
  <1>16. OpenAnswered => ui'.list = ui.list
    BY <1>2, <1>3, OpenAnsweredSteps
  <1>17. PromoteAnswered => ui'.list = ui.list
    BY <1>2, PromoteAnsweredSteps
  <1>18. Publish => ui'.list = ui.list
    BY PublishSteps
  <1>19. \/ OpenFails \/ PromoteFails \/ Promote \/ UNCHANGED vars
         \/ \E k \in Requests : FindDraft(k) \/ WriteDraft(k)
         \/ \E e \in Edits : \E s \in Slots : OtherSaves(s, e)
         => ui'.list = ui.list
    BY DEF OpenFails, PromoteFails, Promote, FindDraft, WriteDraft, OtherSaves, vars
  <1> QED
    BY NextCases, <1>4, <1>5, <1>6, <1>7, <1>8, <1>9, <1>10, <1>11, <1>12, <1>13, <1>14,
       <1>15, <1>16, <1>17, <1>18, <1>19

(* What the lemmas about one step assume.                                  *)
Watched ==
    /\ TypeInv /\ Shape /\ OneEach /\ FoundNone /\ OpensAlone
    /\ FitInv
    /\ TypeInv' /\ Shape' /\ OneEach' /\ OpensAlone' /\ RowsStay
    /\ ui'.list = ui.list \/ ui'.list = row
    /\ TrackedStep

LEMMA WatchedTypes ==
    ASSUME Watched
    PROVE  /\ row \in [Rows -> Row] /\ ui \in Ui /\ req \in [Requests -> Request]
           /\ pub \in Publication /\ made \in [Edits -> Slots \cup {NoSlot}]
           /\ row' \in [Rows -> Row] /\ ui' \in Ui /\ req' \in [Requests -> Request]
           /\ \A k \in Requests : req[k].to \in Slots /\ req[k].found \subseteq Rows
           /\ Requests = {"save", "open"}
           /\ \A s : DraftsOf(row, s) \subseteq Rows
  <1>1. TypeOK /\ TypeOK'
    BY DEF Watched, TypeInv
  <1>2. /\ row' \in [Rows -> Row] /\ ui' \in Ui /\ req' \in [Requests -> Request]
    BY <1>1 DEF TypeOK, Ui, Requests, Request
  <1>3. req \in [Requests -> Request]
    BY <1>1, EditorTypes
  <1>4. \A k \in Requests : req[k].to \in Slots /\ req[k].found \subseteq Rows
    BY <1>3 DEF Request
  <1> QED
    BY <1>1, <1>2, <1>4, EditorTypes DEF Requests, DraftsOf

(* What a step does to the rows and to what was made.                      *)
LEMMA RowSteps ==
    ASSUME Watched
    PROVE  \/ row' = row
           \/ \E e \in Edits : \E s \in Slots : StepOther(e, s)
           \/ StepWrite("save") \/ StepWrite("open")
           \/ StepPromote
  BY WatchedTypes DEF Watched, TrackedStep, StepEdit, StepFind, StepSend, StepPublish,
     StepSaveEnds, StepPromoted, StepPromoteFails, StepCalm, StepMove

LEMMA MadeOnce ==
    ASSUME Watched
    PROVE  \A x \in Edits : made[x] # NoSlot => made'[x] = made[x]
  <1>1. \/ made' = made
        \/ \E e \in Edits, s \in Slots : made[e] = NoSlot /\ made' = [made EXCEPT ![e] = s]
    <2>1. ui.sel \in Slots
      BY WatchedTypes DEF Ui
    <2> QED
      BY <2>1 DEF Watched, TrackedStep, StepEdit, StepFind, StepSend, StepPublish,
         StepSaveEnds, StepPromoted, StepPromoteFails, StepCalm, StepMove, StepWrite,
         StepPromote, StepOther
  <1> QED
    BY <1>1, WatchedTypes

LEMMA VersionsGrow ==
    ASSUME Watched
    PROVE  \A v \in Named(row) : v \in Named(row') /\ row[v].def \subseteq row'[v].def
  <1>0. Named(row) \subseteq Named(row')
    BY DEF Watched, RowsStay
  <1>1. CASE row' = row
    BY <1>0, <1>1
  <1>2. ASSUME NEW e \in Edits, NEW s \in Slots, StepOther(e, s), NEW v \in Named(row)
        PROVE  row[v].def \subseteq row'[v].def
    BY <1>2 DEF StepOther, Written, OthersSame, Named
  <1>3. ASSUME StepWrite("save"), NEW v \in Named(row)
        PROVE  row[v].def \subseteq row'[v].def
    <2>1. PICK r \in Rows : /\ Written(r, req["save"].to, req["save"].def)
                            /\ row[r].st = "free" \/ r \in req["save"].found
      BY <1>3 DEF StepWrite
    <2>2. row'[r].def = req["save"].def /\ \A q \in Rows : q # r => row'[q] = row[q]
      BY <2>1 DEF Written, OthersSame
    <2>3. req["save"].pc = "found"
      BY <1>3 DEF StepWrite
    <2>4. r \in req["save"].found => row[r].def \subseteq row'[r].def
      BY <2>2, <2>3 DEF Watched, FitInv, SaveCovers
    <2> QED
      BY <1>3, <2>1, <2>2, <2>4 DEF Named
  <1>4. ASSUME StepWrite("open"), NEW v \in Named(row)
        PROVE  row[v].def \subseteq row'[v].def
    <2>1. PICK r \in Rows : /\ Written(r, req["open"].to, req["open"].def)
                            /\ row[r].st = "free" \/ r \in req["open"].found
      BY <1>4 DEF StepWrite
    <2>2. \A q \in Rows : q # r => row'[q] = row[q]
      BY <2>1 DEF Written, OthersSame
    <2>3. row[r].st # "named"
      BY <1>4, <2>1 DEF Watched, FitInv, OpensDrafts, StepWrite
    <2> QED
      BY <1>4, <2>2, <2>3 DEF Named
  <1>5. ASSUME StepPromote, NEW v \in Named(row)
        PROVE  row[v].def \subseteq row'[v].def
    BY <1>5 DEF StepPromote, RowNamed, OthersSame, Named
  <1> QED
    BY <1>0, <1>1, <1>2, <1>3, <1>4, <1>5, RowSteps

LEMMA FitsStill ==
    ASSUME Watched, NEW s \in Reachable(row), NEW def, Fits(s, def)
    PROVE  Fits(s, def)'
  <1>1. ASSUME NEW x \in def \cap Edits
        PROVE  made'[x] = s \/ (s \in Rows /\ x \in row'[s].def)
    <2>1. made[x] = s \/ (s \in Rows /\ x \in row[s].def)
      BY DEF Fits
    <2>2. s # NoSlot
      BY WatchedTypes, RowsAreRows DEF Reachable
    <2>3. CASE made[x] = s
      BY <2>2, <2>3, MadeOnce
    <2>4. CASE s \in Rows /\ x \in row[s].def
      BY <2>4, VersionsGrow DEF Reachable
    <2> QED
      BY <2>1, <2>3, <2>4
  <1> QED
    BY <1>1 DEF Fits

LEMMA RowsFitNext == ASSUME Watched PROVE RowsFit'
  <1>0. RowsFit /\ ReqsFit /\ WellPlaced(row) /\ ReqShape
    BY DEF Watched, FitInv, Shape
  <1>1. ASSUME NEW r \in Rows, row[r].st # "free",
               row'[r].def = row[r].def, row'[r].parent = row[r].parent
        PROVE  Fits(row[r].parent, row[r].def)'
    <2>1. PICK s, def : s = row[r].parent /\ def = row[r].def
      OBVIOUS
    <2>2. Fits(s, def) /\ s \in Reachable(row)
      BY <1>0, <1>1, <2>1 DEF RowsFit, WellPlaced
    <2>3. Fits(s, def)'
      BY <2>2, FitsStill
    <2> QED
      BY <1>1, <2>1, <2>3
  <1>2. CASE row' = row
    BY <1>1, <1>2 DEF RowsFit
  <1>3. ASSUME NEW w \in Rows, NEW s, NEW def, Written(w, s, def), Fits(s, def)'
        PROVE  RowsFit'
    <2>1. row'[w].def = def /\ row'[w].parent = s /\ \A q \in Rows : q # w => row'[q] = row[q]
      BY <1>3 DEF Written, OthersSame
    <2>2. ASSUME NEW r \in Rows, row'[r].st # "free"
          PROVE  Fits(row[r].parent, row[r].def)'
      BY <1>1, <1>3, <2>1, <2>2
    <2> QED
      BY <2>2 DEF RowsFit
  <1>4. ASSUME NEW e \in Edits, NEW s \in Slots, StepOther(e, s) PROVE RowsFit'
    <2>1. PICK r \in Rows, def \in SUBSET Contents :
             /\ Written(r, s, def)
             /\ \A x \in def \cap Edits :
                   \/ x = e
                   \/ s \in Rows /\ x \in row[s].def
                   \/ row[r].st # "free" /\ x \in row[r].def
      BY <1>4 DEF StepOther
    <2>2. Fits(s, row[r].def \cap Edits) \/ row[r].st = "free"
      BY <1>0, <2>1 DEF RowsFit, Fits, Written
    <2>3. s \in Reachable(row)
      <3>1. row'[r].st # "free" /\ row'[r].parent = s
        BY <2>1 DEF Written
      <3>2. s \in Reachable(row')
        BY <3>1 DEF Watched, Shape, WellPlaced
      <3>3. s \in Rows /\ s \in Named(row') => s \in Named(row)
        <4>1. row'[s].st = "named" /\ s \in Rows => s = r \/ row[s].st = "named"
          BY <2>1 DEF Written, OthersSame
        <4>2. s # r
          BY <3>1 DEF Watched, Shape, WellPlaced
        <4> QED
          BY <4>1, <4>2 DEF Named
      <3> QED
        BY <3>2, <3>3 DEF Reachable, Named
    <2>4. made'[e] = s
      BY <1>4, WatchedTypes DEF StepOther
    <2>5. ASSUME NEW x \in def \cap Edits
          PROVE  made'[x] = s \/ (s \in Rows /\ x \in row'[s].def)
      <3>1. CASE x = e
        BY <2>4, <3>1
      <3>2. CASE s \in Rows /\ x \in row[s].def
        BY <2>3, <3>2, VersionsGrow DEF Reachable, Named
      <3>3. CASE row[r].st # "free" /\ x \in row[r].def
        <4>1. PICK d : d = row[r].def \cap Edits
          OBVIOUS
        <4>2. Fits(s, d)'
          BY <2>2, <2>3, <3>3, <4>1, FitsStill
        <4> QED
          BY <3>3, <4>1, <4>2 DEF Fits
      <3> QED
        BY <2>1, <3>1, <3>2, <3>3
    <2>6. Fits(s, def)'
      BY <2>5 DEF Fits
    <2> QED
      BY <1>3, <2>1, <2>6
  <1>5. ASSUME NEW k \in Requests, StepWrite(k) PROVE RowsFit'
    <2>1. PICK s, def : s = req[k].to /\ def = req[k].def
      OBVIOUS
    <2>2. PICK r \in Rows : Written(r, s, def)
      BY <1>5, <2>1 DEF StepWrite
    <2>3. req[k].pc # "idle"
      BY <1>5 DEF StepWrite
    <2>4. Fits(s, def) /\ s \in Reachable(row)
      BY <1>0, <2>1, <2>3 DEF ReqsFit, ReqShape
    <2>5. Fits(s, def)'
      BY <2>4, FitsStill
    <2> QED
      BY <1>3, <2>2, <2>5
  <1>6. CASE StepPromote
    <2>1. PICK r \in Rows : RowNamed(r) /\ row[r].st = "draft"
      BY <1>6, WatchedTypes DEF StepPromote, DraftsOf
    <2>2. \A q \in Rows : /\ row'[q].def = row[q].def /\ row'[q].parent = row[q].parent
                          /\ row'[q].st # "free" => row[q].st # "free"
      BY <2>1 DEF RowNamed, OthersSame
    <2> QED
      BY <1>1, <2>2 DEF RowsFit
  <1> QED
    BY <1>2, <1>4, <1>5, <1>6, RowSteps DEF Requests

-----------------------------------------------------------------------------
(* What a slot has at present: its draft, or what a draft of it starts     *)
(* from.                                                                   *)

LEMMA DraftsApart ==
    ASSUME Watched, NEW r \in Rows, NEW s, NEW def, Written(r, s, def), NEW t, t # s
    PROVE  /\ DraftsOf(row', t) = DraftsOf(row, t)
           /\ \A q \in DraftsOf(row, t) : row'[q] = row[q]
  <1>1. /\ \A q \in Rows : q # r => row'[q] = row[q]
        /\ row'[r].parent = s /\ (row[r].st # "free" => row[r].parent = s)
    BY DEF Written, OthersSame
  <1> QED
    BY <1>1 DEF DraftsOf

LEMMA CurrentIsDraft ==
    ASSUME Watched, NEW s, NEW r \in DraftsOf(row, s)
    PROVE  CurrentDef(s) = row[r].def
  <1>1. First(DraftsOf(row, s)) \in DraftsOf(row, s)
    BY WatchedTypes, FirstIsOne
  <1>2. First(DraftsOf(row, s)) = r
    BY <1>1 DEF Watched, OneEach, DraftsOf
  <1> QED
    BY <1>2 DEF CurrentDef

LEMMA CurrentIsDraftAfter ==
    ASSUME Watched, NEW s, NEW r \in DraftsOf(row', s)
    PROVE  CurrentDef(s)' = row'[r].def
  <1>0. DraftsOf(row', s) \subseteq Rows
    BY DEF DraftsOf
  <1>1. First(DraftsOf(row', s)) \in DraftsOf(row', s)
    BY <1>0, FirstIsOne
  <1>2. First(DraftsOf(row', s)) = r
    BY <1>1 DEF Watched, OneEach, DraftsOf
  <1> QED
    BY <1>2 DEF CurrentDef

LEMMA CurrentIsStart ==
    ASSUME NEW s, DraftsOf(row, s) = {} PROVE CurrentDef(s) = StartOf(s)
  BY DEF CurrentDef, StartOf

LEMMA CurrentFits ==
    ASSUME Watched, NEW s \in Reachable(row)
    PROVE  /\ Fits(s, CurrentDef(s))
           /\ \A r \in DraftsOf(row, s) : row[r].def = CurrentDef(s)
  <1>1. \A r \in DraftsOf(row, s) : row[r].def = CurrentDef(s)
    BY CurrentIsDraft
  <1>2. CASE DraftsOf(row, s) = {}
    <2>1. CurrentDef(s) = IF s = Root THEN {Seed} ELSE row[s].def
      BY <1>2 DEF CurrentDef
    <2> QED
      BY <1>1, <2>1 DEF Fits, Reachable, Named
  <1>3. ASSUME NEW r \in DraftsOf(row, s) PROVE Fits(s, CurrentDef(s))
    <2>1. CurrentDef(s) = row[r].def
      BY <1>1
    <2>2. r \in Rows /\ row[r].st # "free" /\ row[r].parent = s
      BY DEF DraftsOf
    <2>3. Fits(s, row[r].def)
      BY <2>2 DEF Watched, FitInv, RowsFit
    <2> QED
      BY <2>1, <2>3
  <1> QED
    BY <1>1, <1>2, <1>3

(* What a save sends.                                                      *)
LEMMA SentFits ==
    ASSUME Watched, StepSend
    PROVE  /\ Fits(ui.sel, Shown(ui))
           /\ \A r \in DraftsOf(row, ui.sel) : row[r].def \subseteq Shown(ui)
  <1>1. ui.sel \in Reachable(row)
    BY DEF Watched, Shape, UiShape
  <1>2. CASE ui.dirty
    BY <1>2 DEF Watched, FitInv, CanvasFits, StepSend
  <1>3. CASE ~ui.dirty
    <2>1. PICK s, d : s = ui.sel /\ d = CurrentDef(s)
      OBVIOUS
    <2>2. Fits(s, d) /\ \A r \in DraftsOf(row, s) : row[r].def = d
      BY <1>1, <2>1, CurrentFits
    <2>3. Shown(ui) = d
      BY <1>3, <2>1 DEF StepSend
    <2> QED
      BY <2>1, <2>2, <2>3
  <1> QED
    BY <1>2, <1>3

LEMMA RequestSteps ==
    ASSUME Watched, NEW k \in Requests
    PROVE  \/ req'[k].pc = "idle"
           \/ /\ req[k].pc # "idle" /\ req'[k].to = req[k].to /\ req'[k].def = req[k].def
              /\ \/ req'[k].pc = req[k].pc /\ req'[k].found = req[k].found
                 \/ StepFind(k)
                 \/ StepWrite(k)
           \/ k = "save" /\ StepSend
           \/ /\ k = "open" /\ StepMove /\ req'["open"].pc = "sent"
              /\ ui.sel \in Named(ui.list)
              /\ req'["open"].to = ui.sel /\ req'["open"].def = ui.list[ui.sel].def
  <1>0. /\ req \in [Requests -> Request] /\ Requests = {"save", "open"}
        /\ NoReq.pc = "idle"
    BY WatchedTypes DEF NoReq
  <1>1. CASE req'[k] = req[k]
    BY <1>1
  <1>2. ASSUME NEW j \in Requests, StepFind(j) \/ StepWrite(j), req'[k] # req[k]
        PROVE  /\ StepFind(k) \/ StepWrite(k)
               /\ req[k].pc # "idle" /\ req'[k].to = req[k].to /\ req'[k].def = req[k].def
    <2>1. j = k
      BY <1>2 DEF StepFind, StepWrite
    <2> QED
      BY <1>2, <2>1 DEF StepFind, StepWrite
  <1>3. CASE StepSaveEnds
    BY <1>0, <1>3 DEF StepSaveEnds
  <1>4. CASE StepMove
    BY <1>0, <1>4 DEF StepMove
  <1>5. CASE StepSend
    <2>1. req'["open"] = req["open"]
      BY <1>5 DEF StepSend, SaveIsSent
    <2> QED
      BY <1>0, <1>1, <1>5, <2>1
  <1>6. CASE req' = req
    BY <1>1, <1>6
  <1>7. \/ req' = req
        \/ \E j \in Requests : StepFind(j) \/ StepWrite(j)
        \/ StepSaveEnds \/ StepMove \/ StepSend
    BY DEF Watched, TrackedStep, StepEdit, StepOther, StepPromote, StepPublish,
       StepPromoted, StepPromoteFails, StepCalm
  <1> QED
    BY <1>1, <1>2, <1>3, <1>4, <1>5, <1>6, <1>7

LEMMA ReqsFitNext == ASSUME Watched PROVE ReqsFit'
  <1>0. ReqsFit /\ ReqShape /\ UiShape /\ ListGrew
    BY DEF Watched, FitInv, Shape
  <1>1. ASSUME NEW k \in Requests, req'[k].pc # "idle"
        PROVE  Fits(req[k].to, req[k].def)'
    <2>1. PICK s, def : s = req'[k].to /\ def = req'[k].def
      OBVIOUS
    <2>2. s \in Reachable(row) /\ Fits(s, def)
      <3>1. CASE req[k].pc # "idle" /\ req'[k].to = req[k].to /\ req'[k].def = req[k].def
        BY <1>0, <2>1, <3>1 DEF ReqsFit, ReqShape
      <3>2. CASE k = "save" /\ StepSend
        <4>1. s = ui.sel /\ def = Shown(ui)
          BY <2>1, <3>2 DEF StepSend, SaveIsSent
        <4> QED
          BY <1>0, <3>2, <4>1, SentFits DEF UiShape
      <3>3. CASE /\ k = "open" /\ ui.sel \in Named(ui.list)
                 /\ req'["open"].to = ui.sel /\ req'["open"].def = ui.list[ui.sel].def
        <4>1. s \in Named(ui.list) /\ def = ui.list[s].def
          BY <2>1, <3>3
        <4>2. s \in Rows /\ def \subseteq row[s].def
          BY <1>0, <4>1 DEF ListGrew, Named
        <4>3. s \in Reachable(row)
          BY <1>0, <2>1, <3>3 DEF UiShape
        <4> QED
          BY <4>2, <4>3 DEF Fits
      <3> QED
        BY <1>1, <3>1, <3>2, <3>3, RequestSteps
    <2>3. Fits(s, def)'
      BY <2>2, FitsStill
    <2> QED
      BY <2>1, <2>3
  <1> QED
    BY <1>1 DEF ReqsFit

LEMMA ListGrewNext == ASSUME Watched PROVE ListGrew'
  <1>0. ListGrew /\ ListFits
    BY DEF Watched, FitInv, Shape
  <1>1. Named(ui.list) \subseteq Named(row)
    BY <1>0, ListIsOlder DEF Watched
  <1>2. CASE ui'.list = ui.list
    <2>1. \A r \in Named(ui.list) : ui.list[r].def \subseteq row'[r].def
      BY <1>0, <1>1, VersionsGrow DEF ListGrew
    <2> QED
      BY <1>2, <2>1 DEF ListGrew
  <1>3. CASE ui'.list = row
    BY <1>3, VersionsGrow DEF ListGrew
  <1> QED
    BY <1>2, <1>3 DEF Watched

-----------------------------------------------------------------------------
(* The writes of the backend, and what is on the canvas.                   *)

LEMMA SaveWrites ==
    ASSUME Watched, StepWrite("save")
    PROVE  /\ Saving /\ ~Opening /\ ui' = ui /\ pub' = pub
           /\ req["save"].pc = "found" /\ req'["save"].pc = "stored"
           /\ req'["save"].to = req["save"].to /\ req'["save"].def = req["save"].def
           /\ \E r \in Rows :
                 /\ Written(r, req["save"].to, req["save"].def)
                 /\ r \in req'["save"].found /\ req'["save"].found \subseteq {r}
                 /\ \/ row[r].st = "free" /\ row'[r].st = "draft" /\ ToDraft
                    \/ r \in req["save"].found /\ row[r].st = "named" /\ row'[r].st = "named"
                    \/ /\ r \in req["save"].found /\ row[r].st = "draft" /\ row'[r].st = "draft"
                       /\ ToDraft
  <1>1. /\ req["save"].pc = "found" /\ req'["save"].pc = "stored"
        /\ req'["save"].to = req["save"].to /\ req'["save"].def = req["save"].def
        /\ ui' = ui /\ pub' = pub
    BY DEF StepWrite
  <1>2. PICK r \in Rows :
             /\ Written(r, req["save"].to, req["save"].def)
             /\ \/ row[r].st = "free" /\ req["save"].found = {} /\ req'["save"].found = {r}
                \/ row[r].st # "free" /\ r = First(req["save"].found) /\ r \in req["save"].found
                   /\ req'["save"].found = req["save"].found
    BY DEF StepWrite
  <1>3. /\ row[r].st # "free" => row'[r].st = row[r].st
        /\ row[r].st = "free" => row'[r].st = "draft"
    BY <1>2 DEF Written
  <1>4. row[r].st \in {"free", "draft", "named"}
    BY WatchedTypes, RowsAreRows DEF Row
  <1>5. \A q, p \in req["save"].found : q = p
    BY <1>1 DEF Watched, FitInv, SaveCovers
  <1>6. req["save"].found \subseteq {r}
    BY <1>2, <1>5
  <1>7. row[r].st \in {"free", "draft"} => ToDraft
    BY <1>1, <1>2, <1>6 DEF ToDraft
  <1>8. r \in req'["save"].found /\ req'["save"].found \subseteq {r}
    BY <1>2, <1>6
  <1>9. \/ row[r].st = "free" /\ row'[r].st = "draft" /\ ToDraft
        \/ r \in req["save"].found /\ row[r].st = "named" /\ row'[r].st = "named"
        \/ r \in req["save"].found /\ row[r].st = "draft" /\ row'[r].st = "draft" /\ ToDraft
    BY <1>2, <1>3, <1>4, <1>7
  <1>10. Saving /\ ~Opening
    BY <1>1 DEF Saving, Watched, OpensAlone
  <1> QED
    BY <1>1, <1>2, <1>8, <1>9, <1>10

LEMMA OpenWrites ==
    ASSUME Watched, StepWrite("open")
    PROVE  /\ ~Saving /\ pub.pc = "idle" /\ ~ui.dirty
           /\ ui' = ui /\ pub' = pub /\ req'["save"] = req["save"]
           /\ \E r \in Rows :
                 /\ Written(r, req["open"].to, req["open"].def)
                 /\ row[r].st # "named"
                 /\ row[r].st = "free" \/ r \in req["open"].found
  <1>1. req["open"].pc = "found" /\ ui' = ui /\ pub' = pub /\ req'["save"] = req["save"]
    BY WatchedTypes DEF StepWrite
  <1>2. PICK r \in Rows :
             /\ Written(r, req["open"].to, req["open"].def)
             /\ row[r].st = "free" \/ r \in req["open"].found
    BY DEF StepWrite
  <1>3. row[r].st # "named"
    BY <1>1, <1>2 DEF Watched, FitInv, OpensDrafts
  <1>4. ~Saving /\ pub.pc = "idle" /\ ~ui.dirty
    BY <1>1 DEF Opening, Watched, OpensAlone
  <1> QED
    BY <1>1, <1>2, <1>3, <1>4

LEMMA FindIsQuiet ==
    ASSUME Watched, NEW k \in Requests, StepFind(k)
    PROVE  UNCHANGED <<row, ui, pub, made, gone>>
  BY DEF StepFind

LEMMA PromoteNames ==
    ASSUME Watched, StepPromote
    PROVE  /\ \A q \in Rows : row'[q].def = row[q].def /\ row'[q].parent = row[q].parent
           /\ \A q \in Rows : row'[q].st = "draft" => row[q].st = "draft"
           /\ \A q \in Rows : q \notin DraftsOf(row, pub.from) => row'[q] = row[q]
           /\ \A s : DraftsOf(row', s) \subseteq DraftsOf(row, s)
           /\ DraftsOf(row', pub.from) = {}
           /\ DraftsOf(row, pub.from) # {}
           /\ \A s : s # pub.from => DraftsOf(row', s) = DraftsOf(row, s)
  <1>1. PICK r \in DraftsOf(row, pub.from) :
          RowNamed(r) /\ \A q \in DraftsOf(row, pub.from) : q = r
    BY DEF StepPromote
  <1>2. /\ r \in Rows /\ row[r].st = "draft" /\ row[r].parent = pub.from
    BY <1>1 DEF DraftsOf
  <1>3. /\ row'[r].st = "named" /\ row'[r].parent = row[r].parent /\ row'[r].def = row[r].def
        /\ \A q \in Rows : q # r => row'[q] = row[q]
    BY <1>1 DEF RowNamed, OthersSame
  <1>4. \A q \in Rows : q \notin DraftsOf(row, pub.from) => row'[q] = row[q]
    BY <1>1, <1>3
  <1>5. \A s : DraftsOf(row', s) \subseteq DraftsOf(row, s)
    BY <1>2, <1>3 DEF DraftsOf
  <1>6. DraftsOf(row, pub.from) = {r}
    BY <1>1
  <1>7. DraftsOf(row', pub.from) = {}
    <2>1. r \notin DraftsOf(row', pub.from)
      BY <1>3 DEF DraftsOf
    <2> QED
      BY <1>5, <1>6, <2>1
  <1>8. ASSUME NEW s, s # pub.from PROVE DraftsOf(row', s) = DraftsOf(row, s)
    BY <1>2, <1>3, <1>8 DEF DraftsOf
  <1>9. \A q \in Rows : row'[q].def = row[q].def /\ row'[q].parent = row[q].parent
    BY <1>3
  <1>10. \A q \in Rows : row'[q].st = "draft" => row[q].st = "draft"
    BY <1>2, <1>3
  <1> QED
    BY <1>4, <1>5, <1>6, <1>7, <1>8, <1>9, <1>10

LEMMA CanvasFitsNext == ASSUME Watched PROVE CanvasFits'
  <1>0. CanvasFits /\ UiShape
    BY DEF Watched, FitInv, Shape
  <1>a. PICK s, doc : s = ui.sel /\ doc = ui.doc
    OBVIOUS
  <1>b. s \in Reachable(row)
    BY <1>0, <1>a DEF UiShape
  <1>1. ASSUME ui'.sel = ui.sel, ui'.snap <=> ui.snap, ui'.dirty => ui.dirty /\ ui'.doc = ui.doc,
               ui'.dirty /\ ~ui'.snap =>
                  \A r \in DraftsOf(row', ui.sel) : row'[r].def \subseteq ui.doc
        PROVE  CanvasFits'
    <2>1. ASSUME ui'.dirty, ~ui'.snap PROVE Fits(s, doc)'
      BY <1>0, <1>1, <1>a, <1>b, <2>1, FitsStill DEF CanvasFits
    <2> QED
      BY <1>1, <1>a, <2>1 DEF CanvasFits
  <1>2. ASSUME row' = row, ui'.sel = ui.sel, ui'.snap <=> ui.snap,
               ui'.dirty => ui.dirty /\ ui'.doc = ui.doc
        PROVE  CanvasFits'
    BY <1>0, <1>1, <1>2 DEF CanvasFits
  <1>3. CASE row' = row /\ ui' = ui
    BY <1>2, <1>3
  <1>4. CASE StepSend
    BY <1>2, <1>4 DEF StepSend
  <1>5. CASE StepSaveEnds \/ StepCalm
    BY <1>2, <1>5 DEF StepSaveEnds, StepCalm, CalmUi
  <1>6. CASE StepPromoted
    BY <1>6 DEF StepPromoted, CanvasFits
  <1>7. CASE StepMove
    BY <1>7 DEF StepMove, Empty, DraftsOf, CanvasFits, Fits
  <1>8. ASSUME NEW e \in Edits, StepEdit(e) PROVE CanvasFits'
    <2>1. /\ ~ui.snap /\ made[e] = NoSlot /\ made' = [made EXCEPT ![e] = s]
          /\ ui'.sel = s /\ ui'.doc = doc \cup {e} /\ row' = row
          /\ ~ui.dirty => doc = CurrentDef(s)
      BY <1>8, <1>a DEF StepEdit
    <2>2. Fits(s, doc) /\ \A r \in DraftsOf(row, s) : row[r].def \subseteq doc
      <3>1. CASE ui.dirty
        BY <1>0, <1>a, <2>1, <3>1 DEF CanvasFits
      <3>2. CASE ~ui.dirty
        <4>1. Fits(s, CurrentDef(s)) /\ \A r \in DraftsOf(row, s) : row[r].def = CurrentDef(s)
          BY <1>b, CurrentFits
        <4>2. doc = CurrentDef(s)
          BY <2>1, <3>2
        <4> QED
          BY <4>1, <4>2
      <3> QED
        BY <3>1, <3>2
    <2>3. Fits(s, doc)'
      BY <1>b, <2>2, FitsStill
    <2>4. made'[e] = s
      BY <2>1, WatchedTypes
    <2>5. Fits(s, doc \cup {e})'
      BY <2>3, <2>4 DEF Fits
    <2> QED
      BY <2>1, <2>2, <2>5 DEF CanvasFits
  <1>9. ASSUME NEW e \in Edits, NEW t \in Slots, StepOther(e, t) PROVE CanvasFits'
    <2>1. t # s /\ ui' = ui
      BY <1>9, <1>a DEF StepOther
    <2>2. PICK r \in Rows, def \in SUBSET Contents : Written(r, t, def)
      BY <1>9 DEF StepOther
    <2>3. /\ DraftsOf(row', s) = DraftsOf(row, s)
          /\ \A q \in DraftsOf(row, s) : row'[q] = row[q]
      BY <2>1, <2>2, DraftsApart
    <2> QED
      BY <1>0, <1>1, <1>a, <2>1, <2>3 DEF CanvasFits
  <1>10. CASE StepWrite("save")
    <2>1. PICK r \in Rows :
             /\ Written(r, req["save"].to, req["save"].def)
             /\ row'[r].st = "draft" => ToDraft
      BY <1>10, SaveWrites
    <2>2. ui' = ui /\ Saving
      BY <1>10, SaveWrites
    <2>3. row'[r].def = req["save"].def /\ \A q \in Rows : q # r => row'[q] = row[q]
      BY <2>1 DEF Written, OthersSame
    <2>4. ASSUME ui.dirty, ~ui.snap, NEW q \in DraftsOf(row', ui.sel)
          PROVE  row'[q].def \subseteq ui.doc
      <3>1. CASE q = r
        <4>1. ToDraft
          BY <2>1, <2>4, <3>1 DEF DraftsOf
        <4> QED
          BY <2>3, <2>4, <3>1, <4>1 DEF Watched, FitInv, SaveIsOlder
      <3>2. CASE q # r
        BY <1>0, <2>3, <2>4, <3>2 DEF CanvasFits, DraftsOf
      <3> QED
        BY <3>1, <3>2
    <2> QED
      BY <1>1, <2>2, <2>4
  <1>11. CASE StepWrite("open")
    BY <1>1, <1>11, OpenWrites
  <1>12. CASE StepPromote
    <2>1. ui' = ui
      BY <1>12 DEF StepPromote
    <2>2. \A q \in DraftsOf(row', ui.sel) : q \in DraftsOf(row, ui.sel) /\ row'[q].def = row[q].def
      BY <1>12, PromoteNames, WatchedTypes
    <2> QED
      BY <1>0, <1>1, <2>1, <2>2 DEF CanvasFits
  <1>13. CASE StepPublish \/ StepPromoteFails \/ \E k \in Requests : StepFind(k)
    BY <1>3, <1>13, FindIsQuiet DEF StepPublish, StepPromoteFails
  <1> QED
    BY <1>4, <1>5, <1>6, <1>7, <1>8, <1>9, <1>10, <1>11, <1>12, <1>13
       DEF Watched, TrackedStep, Requests

-----------------------------------------------------------------------------
(* What another client writes is in another slot, and what is saved and    *)
(* opened.                                                                 *)

LEMMA CurrentApart ==
    ASSUME Watched, NEW r \in Rows, NEW s, NEW def, Written(r, s, def),
           NEW t \in Reachable(row), t # s, row[r].st # "named"
    PROVE  CurrentDef(t)' = CurrentDef(t) /\ StartOf(t)' = StartOf(t)
  <1>1. /\ DraftsOf(row', t) = DraftsOf(row, t)
        /\ \A q \in DraftsOf(row, t) : row'[q] = row[q]
    BY DraftsApart
  <1>2. StartOf(t)' = StartOf(t)
    BY DEF StartOf, Reachable, Named, Written, OthersSame
  <1>3. CASE DraftsOf(row, t) = {}
    <2>1. CurrentDef(t) = StartOf(t)
      BY <1>3, CurrentIsStart
    <2>2. CurrentDef(t)' = StartOf(t)'
      BY <1>1, <1>3 DEF CurrentDef, StartOf
    <2> QED
      BY <1>2, <2>1, <2>2
  <1>4. ASSUME NEW q \in DraftsOf(row, t) PROVE CurrentDef(t)' = CurrentDef(t)
    <2>1. CurrentDef(t) = row[q].def
      BY CurrentIsDraft
    <2>2. CurrentDef(t)' = row'[q].def
      BY <1>1, CurrentIsDraftAfter
    <2> QED
      BY <1>1, <2>1, <2>2
  <1> QED
    BY <1>2, <1>3, <1>4

(* What another client writes is nowhere near.                             *)
LEMMA OthersApart ==
    ASSUME Watched, NEW e \in Edits, NEW s \in Slots, StepOther(e, s)
    PROVE  /\ ui' = ui /\ req' = req /\ pub' = pub
           /\ CurrentDef(ui.sel)' = CurrentDef(ui.sel)
           /\ DraftsOf(row', ui.sel) = DraftsOf(row, ui.sel)
           /\ \A q \in Named(row) : row'[q] = row[q]
           /\ \A k \in Requests : req[k].pc # "idle" =>
                 /\ DraftsOf(row', req[k].to) = DraftsOf(row, req[k].to)
                 /\ \A q \in DraftsOf(row, req[k].to) : row'[q] = row[q]
                 /\ req[k].pc \in {"found", "stored"} =>
                       \A q \in req[k].found : row'[q] = row[q]
           /\ pub.pc # "idle" =>
                 /\ DraftsOf(row', pub.from) = DraftsOf(row, pub.from)
                 /\ CurrentDef(pub.from)' = CurrentDef(pub.from)
                 /\ StartOf(pub.from)' = StartOf(pub.from)
  <1>1. /\ s # ui.sel /\ s # pub.from /\ ui' = ui /\ req' = req /\ pub' = pub
        /\ \A k \in Requests : req[k].pc # "idle" => req[k].to # s
    BY DEF StepOther
  <1>2. PICK r \in Rows, def \in SUBSET Contents : Written(r, s, def) /\ row[r].st # "named"
    BY DEF StepOther
  <1>3. ASSUME NEW t \in Reachable(row), t # s
        PROVE  /\ DraftsOf(row', t) = DraftsOf(row, t)
               /\ \A q \in DraftsOf(row, t) : row'[q] = row[q]
               /\ CurrentDef(t)' = CurrentDef(t) /\ StartOf(t)' = StartOf(t)
    BY <1>2, <1>3, DraftsApart, CurrentApart
  <1>4. /\ row[r].st # "free" => row[r].parent = s
        /\ \A q \in Rows : q # r => row'[q] = row[q]
    BY <1>2 DEF Written, OthersSame
  <1>5. ui.sel \in Reachable(row)
    BY DEF Watched, Shape, UiShape
  <1>6. PICK t : t = ui.sel
    OBVIOUS
  <1>7. /\ CurrentDef(ui.sel)' = CurrentDef(ui.sel)
        /\ DraftsOf(row', ui.sel) = DraftsOf(row, ui.sel)
    <2>1. CurrentDef(t)' = CurrentDef(t) /\ DraftsOf(row', t) = DraftsOf(row, t)
      BY <1>1, <1>3, <1>5, <1>6
    <2> QED
      BY <1>1, <1>6, <2>1
  <1>8. ASSUME NEW k \in Requests, req[k].pc # "idle"
        PROVE  /\ DraftsOf(row', req[k].to) = DraftsOf(row, req[k].to)
               /\ \A q \in DraftsOf(row, req[k].to) : row'[q] = row[q]
               /\ req[k].pc \in {"found", "stored"} =>
                     \A q \in req[k].found : row'[q] = row[q]
    <2>1. req[k].to \in Reachable(row) /\ req[k].to # s
      BY <1>1, <1>8 DEF Watched, Shape, ReqShape
    <2>2. PICK u : u = req[k].to
      OBVIOUS
    <2>3. DraftsOf(row', u) = DraftsOf(row, u) /\ \A q \in DraftsOf(row, u) : row'[q] = row[q]
      BY <1>3, <2>1, <2>2
    <2>4. ASSUME req[k].pc \in {"found", "stored"}, NEW q \in req[k].found
          PROVE  row'[q] = row[q]
      <3>1. row[q].st # "free" /\ row[q].parent = req[k].to /\ q \in Rows
        BY <1>8, <2>4, WatchedTypes DEF Watched, Shape, ReqShape
      <3> QED
        BY <1>4, <2>1, <3>1
    <2> QED
      BY <2>2, <2>3, <2>4
  <1>9. ASSUME pub.pc # "idle"
        PROVE  /\ DraftsOf(row', pub.from) = DraftsOf(row, pub.from)
               /\ CurrentDef(pub.from)' = CurrentDef(pub.from)
               /\ StartOf(pub.from)' = StartOf(pub.from)
    <2>1. pub.from \in Reachable(row)
      BY <1>9 DEF Watched, Shape, PubShape
    <2>2. PICK u : u = pub.from
      OBVIOUS
    <2>3. /\ DraftsOf(row', u) = DraftsOf(row, u)
          /\ CurrentDef(u)' = CurrentDef(u)
          /\ StartOf(u)' = StartOf(u)
      BY <1>1, <1>3, <2>1, <2>2
    <2> QED
      BY <1>1, <2>2, <2>3
  <1>10. \A q \in Named(row) : row'[q] = row[q]
    BY <1>2, <1>4 DEF Named
  <1> QED
    BY <1>1, <1>7, <1>8, <1>9, <1>10

LEMMA SaveCoversNext == ASSUME Watched PROVE SaveCovers'
  <1>0. SaveCovers /\ ReqShape /\ Requests = {"save", "open"}
    BY WatchedTypes DEF Watched, FitInv, Shape
  <1>r. ASSUME req'["save"].pc = req["save"].pc, req'["save"].found = req["save"].found,
               req'["save"].to = req["save"].to, req'["save"].def = req["save"].def,
               \A q \in DraftsOf(row', req["save"].to) :
                   /\ q \in DraftsOf(row, req["save"].to)
                   /\ row'[q].def = row[q].def,
               req["save"].pc = "found" =>
                   \A q \in req["save"].found : row'[q].def = row[q].def
        PROVE  SaveCovers'
    BY <1>0, <1>r DEF SaveCovers
  <1>1. CASE req'["save"].pc = "idle"
    BY <1>1 DEF SaveCovers
  <1>2. CASE StepSend
    <2>1. row' = row /\ req'["save"].pc = "sent" /\ req'["save"].def = Shown(ui)
          /\ req'["save"].to = ui.sel
      BY <1>2 DEF StepSend, SaveIsSent
    <2> QED
      BY <1>2, <2>1, SentFits DEF SaveCovers
  <1>3. CASE StepFind("save")
    <2>1. \A q, r \in DraftsOf(row, req["save"].to) : q = r
      BY DEF Watched, OneEach, DraftsOf
    <2> QED
      BY <1>0, <1>3, <2>1 DEF SaveCovers, StepFind
  <1>4. CASE StepWrite("save")
    BY <1>4 DEF SaveCovers, StepWrite
  <1>5. ASSUME req["save"].pc # "idle",
               req'["save"].pc = req["save"].pc, req'["save"].found = req["save"].found,
               req'["save"].to = req["save"].to, req'["save"].def = req["save"].def
        PROVE  SaveCovers'
    <2>1. CASE row' = row
      BY <1>r, <1>5, <2>1
    <2>2. ASSUME NEW e \in Edits, NEW s \in Slots, StepOther(e, s) PROVE SaveCovers'
      <3>1. /\ DraftsOf(row', req["save"].to) = DraftsOf(row, req["save"].to)
            /\ \A q \in DraftsOf(row, req["save"].to) : row'[q] = row[q]
            /\ req["save"].pc \in {"found", "stored"} =>
                  \A q \in req["save"].found : row'[q] = row[q]
        BY <1>0, <1>5, <2>2, OthersApart
      <3> QED
        BY <1>r, <1>5, <3>1
    <2>3. ~StepWrite("open")
      BY <1>5, OpenWrites DEF Saving
    <2>4. CASE StepPromote
      <3>1. \A q \in DraftsOf(row', req["save"].to) : q \in DraftsOf(row, req["save"].to)
        BY <2>4, PromoteNames
      <3>2. \A q \in Rows : row'[q].def = row[q].def
        BY <2>4, PromoteNames
      <3> QED
        BY <1>0, <1>r, <1>5, <3>1, <3>2, WatchedTypes
    <2> QED
      BY <1>4, <2>1, <2>2, <2>3, <2>4, RowSteps
  <1> QED
    BY <1>0, <1>1, <1>2, <1>3, <1>4, <1>5, RequestSteps

LEMMA OpensDraftsNext == ASSUME Watched PROVE OpensDrafts'
  <1>0. OpensDrafts /\ Requests = {"save", "open"}
    BY WatchedTypes DEF Watched, FitInv
  <1>1. CASE StepFind("open")
    BY <1>1 DEF StepFind, OpensDrafts, DraftsOf
  <1>2. CASE StepWrite("open")
    BY <1>2 DEF StepWrite, OpensDrafts
  <1>3. ASSUME req'["open"].pc = "found", req["open"].pc = "found",
               req'["open"].found = req["open"].found
        PROVE  OpensDrafts'
    <2>1. Opening
      BY <1>3 DEF Opening
    <2>2. CASE row' = row
      BY <1>0, <1>3, <2>2 DEF OpensDrafts
    <2>3. ASSUME NEW e \in Edits, NEW s \in Slots, StepOther(e, s) PROVE OpensDrafts'
      <3>1. \A q \in req["open"].found : row'[q] = row[q]
        BY <1>0, <1>3, <2>3, OthersApart
      <3> QED
        BY <1>0, <1>3, <3>1 DEF OpensDrafts
    <2>4. ~StepWrite("save")
      BY <2>1, SaveWrites
    <2>5. ~StepPromote
      BY <2>1 DEF StepPromote, Watched, OpensAlone
    <2> QED
      BY <1>2, <2>2, <2>3, <2>4, <2>5, RowSteps
  <1>4. ASSUME req'["open"].pc = "found"
        PROVE  \/ StepFind("open") \/ StepWrite("open")
               \/ req["open"].pc = "found" /\ req'["open"].found = req["open"].found
    BY <1>0, <1>4, RequestSteps
  <1>5. CASE req'["open"].pc # "found"
    BY <1>5 DEF OpensDrafts
  <1> QED
    BY <1>1, <1>2, <1>3, <1>4, <1>5

-----------------------------------------------------------------------------
(* The save under way is older than the canvas.                            *)

LEMMA PromotedElsewhere ==
    ASSUME Watched, StepPromoted, Saving
    PROVE  ui'.sel # req["save"].to
  <1>1. pub.pc = "stored" /\ ui'.sel = pub.as
    BY DEF StepPromoted
  <1>2. ui.sel = pub.from /\ ~ui.snap
    BY <1>1 DEF Watched, FitInv, PublishesShown
  <1>3. req["save"].to = pub.from
    BY <1>2 DEF Watched, FitInv, SaveIsOlder
  <1>4. pub.as \in Rows /\ row[pub.as].st # "free" /\ row[pub.as].parent = pub.from
    BY <1>1 DEF Watched, Shape, PubShape, Named
  <1>5. row[pub.as].parent # pub.as
    BY <1>4 DEF Watched, Shape, WellPlaced
  <1> QED
    BY <1>1, <1>3, <1>4, <1>5

LEMMA SaveIsOlderNext == ASSUME Watched PROVE SaveIsOlder'
  <1>0. /\ SaveIsOlder /\ Requests = {"save", "open"}
        /\ (ToDraft => Saving) /\ (Saving' <=> req'["save"].pc # "idle")
        /\ (ToDraft' => Saving')
    BY WatchedTypes DEF Watched, FitInv, ToDraft, Saving
  <1>1. CASE req'["save"].pc = "idle"
    BY <1>0, <1>1 DEF SaveIsOlder
  <1>2. ASSUME NEW e \in Edits, StepEdit(e) PROVE SaveIsOlder'
    <2>1. /\ ~ui.snap /\ ui'.sel = ui.sel /\ ui'.doc = ui.doc \cup {e} /\ ui'.dirty /\ ~ui'.snap
          /\ ~ui.dirty => ui.doc = CurrentDef(ui.sel)
          /\ row' = row /\ req' = req
      BY <1>2 DEF StepEdit
    <2>2. (ToDraft' <=> ToDraft) /\ (Saving' <=> Saving)
      BY <2>1 DEF ToDraft, Saving
    <2>3. Saving => req["save"].to = ui.sel
      BY <1>0, <2>1 DEF SaveIsOlder
    <2>4. ToDraft => req["save"].def \subseteq ui.doc
      BY <1>0, <2>1, <2>3 DEF SaveIsOlder
    <2> QED
      BY <2>1, <2>2, <2>3, <2>4 DEF SaveIsOlder
  <1>3. CASE StepSend
    <2>1. /\ row' = row /\ ui'.sel = ui.sel /\ ui'.doc = ui.doc /\ (ui'.dirty <=> ui.dirty)
          /\ ~ui'.snap
          /\ req'["save"].to = ui.sel /\ req'["save"].def = Shown(ui)
          /\ ui.dirty => Shown(ui) = ui.doc
          /\ ~ui.dirty => Shown(ui) = CurrentDef(ui.sel)
      BY <1>3 DEF StepSend, SaveIsSent
    <2>2. CurrentDef(ui.sel)' = CurrentDef(ui.sel)
      BY <2>1 DEF CurrentDef
    <2> QED
      BY <2>1, <2>2 DEF SaveIsOlder
  <1>4. ASSUME row' = row, Saving' => Saving, ToDraft' => ToDraft,
               ui'.sel = ui.sel, ui'.snap <=> ui.snap, ui'.dirty <=> ui.dirty,
               ui.dirty => ui'.doc = ui.doc,
               req'["save"].to = req["save"].to, req'["save"].def = req["save"].def
        PROVE  SaveIsOlder'
    <2>2. CurrentDef(ui.sel)' = CurrentDef(ui.sel)
      BY <1>4 DEF CurrentDef
    <2> QED
      BY <1>0, <1>4, <2>2 DEF SaveIsOlder
  <1>5. CASE row' = row /\ ui' = ui /\ req'["save"] = req["save"]
    <2>1. (ToDraft' => ToDraft) /\ (Saving' => Saving)
      BY <1>5 DEF ToDraft, Saving
    <2> QED
      BY <1>4, <1>5, <2>1
  <1>6. CASE StepFind("save")
    <2>1. /\ row' = row /\ ui' = ui
          /\ req'["save"].to = req["save"].to /\ req'["save"].def = req["save"].def
      BY <1>6 DEF StepFind
    <2>2. ToDraft /\ Saving
      BY <1>0, <1>6 DEF ToDraft, StepFind
    <2> QED
      BY <1>4, <2>1, <2>2
  <1>7. CASE StepFind("open")
    <2>1. row' = row /\ ui' = ui /\ req'["save"] = req["save"]
      BY <1>0, <1>7 DEF StepFind
    <2> QED
      BY <1>5, <2>1
  <1>8. CASE StepPublish \/ StepPromoteFails
    BY <1>5, <1>8 DEF StepPublish, StepPromoteFails
  <1>9. CASE StepWrite("save")
    <2>1. Saving /\ ui' = ui /\ req'["save"].pc = "stored" /\ req'["save"].to = req["save"].to
      BY <1>9, SaveWrites
    <2>2. ~ToDraft'
      BY <2>1 DEF ToDraft
    <2> QED
      BY <1>0, <2>1, <2>2 DEF SaveIsOlder
  <1>10. CASE StepWrite("open")
    <2>1. ~Saving /\ req'["save"] = req["save"]
      BY <1>10, OpenWrites
    <2> QED
      BY <1>1, <2>1 DEF Saving
  <1>11. ASSUME NEW e \in Edits, NEW s \in Slots, StepOther(e, s) PROVE SaveIsOlder'
    <2>1. /\ ui' = ui /\ req' = req
          /\ CurrentDef(ui.sel)' = CurrentDef(ui.sel)
          /\ req["save"].pc \in {"found", "stored"} =>
                \A q \in req["save"].found : row'[q] = row[q]
      BY <1>0, <1>11, OthersApart
    <2>2. (ToDraft' => ToDraft) /\ (Saving' => Saving)
      BY <2>1 DEF ToDraft, Saving
    <2> QED
      BY <1>0, <2>1, <2>2 DEF SaveIsOlder
  <1>12. CASE StepPromote
    <2>1. ui' = ui /\ req' = req /\ pub.pc = "sent"
      BY <1>12 DEF StepPromote
    <2>2. ui.sel = pub.from /\ ~ui.snap
      BY <2>1 DEF Watched, FitInv, PublishesShown
    <2>3. ToDraft' => ToDraft
      BY <1>0, <1>12, <2>1, PromoteNames, WatchedTypes DEF ToDraft
    <2>4. Saving' => Saving
      BY <2>1 DEF Saving
    <2>5. ASSUME ToDraft', ~ui.dirty, req["save"].to = ui.sel
          PROVE  req["save"].def = CurrentDef(ui.sel)'
      <3>1. CurrentDef(pub.from) = StartOf(pub.from)
        BY <1>0, <2>1, <2>3, <2>5 DEF Watched, FitInv, PublishesClean
      <3>2. DraftsOf(row', pub.from) = {}
        BY <1>12, PromoteNames
      <3>3. StartOf(pub.from)' = StartOf(pub.from)
        <4>1. pub'.from = pub.from /\ \A q \in Rows : row'[q].def = row[q].def
          BY <1>12, PromoteNames DEF StepPromote
        <4>2. pub.from = Root \/ pub.from \in Rows
          BY <2>1 DEF Watched, Shape, PubShape, Reachable, Named
        <4> QED
          BY <4>1, <4>2 DEF StartOf
      <3>4. CurrentDef(ui.sel)' = StartOf(pub.from)'
        BY <1>12, <2>1, <2>2, <3>2 DEF CurrentDef, StartOf, StepPromote
      <3> QED
        BY <1>0, <2>2, <2>3, <2>5, <3>1, <3>3, <3>4 DEF SaveIsOlder
    <2> QED
      BY <1>0, <2>1, <2>3, <2>4, <2>5 DEF SaveIsOlder
  <1>13. CASE StepPromoted
    <2>1. ui'.snap /\ req' = req
      BY <1>13 DEF StepPromoted
    <2>2. Saving => ui'.sel # req["save"].to
      BY <1>13, PromotedElsewhere
    <2>3. Saving' => Saving
      BY <2>1 DEF Saving
    <2> QED
      BY <1>0, <2>1, <2>2, <2>3 DEF SaveIsOlder
  <1>14. CASE StepCalm
    <2>1. row' = row /\ req' = req /\ ui'.sel = ui.sel /\ (ui'.snap <=> ui.snap)
          /\ (ui'.dirty <=> ui.dirty) /\ (ui.dirty => ui'.doc = ui.doc)
      BY <1>14 DEF StepCalm, CalmUi
    <2>2. (ToDraft' => ToDraft) /\ (Saving' => Saving)
      BY <2>1 DEF ToDraft, Saving
    <2> QED
      BY <1>4, <2>1, <2>2
  <1>15. CASE StepSaveEnds
    BY <1>0, <1>1, <1>15 DEF StepSaveEnds
  <1>16. CASE StepMove
    BY <1>1, <1>16 DEF StepMove, Saving
  <1> QED
    BY <1>0, <1>2, <1>3, <1>6, <1>7, <1>8, <1>9, <1>10, <1>11, <1>12, <1>13, <1>14, <1>15, <1>16
       DEF Watched, TrackedStep

LEMMA PublishesShownNext == ASSUME Watched PROVE PublishesShown'
  <1>0. /\ PublishesShown /\ Requests = {"save", "open"}
        /\ (Saving' <=> req'["save"].pc # "idle") /\ (Saving <=> req["save"].pc # "idle")
        /\ NoPub.pc = "idle"
    BY WatchedTypes DEF Watched, FitInv, Saving, NoPub
  <1>1. CASE pub'.pc = "idle"
    BY <1>1 DEF PublishesShown
  <1>2. ASSUME row' = row, pub' = pub, req'["save"] = req["save"], ui'.sel = ui.sel, ui'.snap <=> ui.snap
        PROVE  PublishesShown'
    BY <1>0, <1>2 DEF PublishesShown
  <1>3. ASSUME NEW e \in Edits, StepEdit(e) PROVE PublishesShown'
    BY <1>2, <1>3 DEF StepEdit
  <1>4. CASE StepSend
    <2>1. req'["save"].pc = "sent" /\ ui'.sel = ui.sel /\ ~ui'.snap /\ ~ui.snap /\ ~Saving
      BY <1>4 DEF StepSend, SaveIsSent
    <2> QED
      BY <1>0, <1>4, <2>1 DEF StepSend, PublishesShown
  <1>5. CASE StepPublish
    BY <1>0, <1>5 DEF StepPublish, PublishesShown
  <1>6. CASE StepSaveEnds
    <2>1. /\ ui'.sel = ui.sel /\ (ui'.snap <=> ui.snap)
          /\ req'["save"].pc = "idle"
          /\ pub'.pc # "idle" => pub'.from = pub.from /\ pub'.pc # "saving" /\ pub.pc # "idle"
      <3>1. pub \in Publication
        BY WatchedTypes
      <3> QED
        BY <1>0, <1>6, <3>1 DEF StepSaveEnds, CalmUi, NoReq, Publication
    <2> QED
      BY <1>0, <2>1 DEF PublishesShown
  <1>7. CASE StepPromoted \/ StepPromoteFails \/ StepMove
    BY <1>0, <1>1, <1>7 DEF StepPromoted, StepPromoteFails, StepMove
  <1>8. CASE StepCalm
    BY <1>2, <1>8 DEF StepCalm, CalmUi
  <1>9. CASE StepFind("open")
    BY <1>0, <1>2, <1>9 DEF StepFind
  <1>10. CASE StepFind("save")
    <2>1. /\ row' = row /\ ui' = ui /\ pub' = pub /\ Saving
          /\ req'["save"].pc = "found" /\ req'["save"].found = DraftsOf(row, req["save"].to)
      BY <1>0, <1>10 DEF StepFind
    <2>2. pub.pc # "idle" => req["save"].to = pub.from
      BY <1>0, <2>1 DEF Watched, FitInv, SaveIsOlder, PublishesShown
    <2> QED
      BY <1>0, <2>1, <2>2 DEF PublishesShown
  <1>11. CASE StepWrite("save")
    <2>1. ui' = ui /\ pub' = pub /\ Saving /\ req["save"].pc = "found" /\ req'["save"].pc = "stored"
      BY <1>11, SaveWrites
    <2>2. PICK r \in Rows :
             /\ Written(r, req["save"].to, req["save"].def)
             /\ req'["save"].found \subseteq {r}
             /\ row'[r].st = "draft" \/ (r \in req["save"].found /\ row[r].st = "named")
      BY <1>11, SaveWrites
    <2>3. ASSUME pub.pc \in {"saving", "sent"} PROVE r \in DraftsOf(row', pub.from)
      <3>1. req["save"].to = pub.from
        BY <1>0, <2>1, <2>3 DEF Watched, FitInv, SaveIsOlder, PublishesShown
      <3>2. row'[r].parent = pub.from
        BY <2>2, <3>1 DEF Written
      <3>3. req["save"].found \subseteq DraftsOf(row, pub.from)
        BY <1>0, <2>1, <2>3 DEF PublishesShown
      <3>4. row'[r].st = "draft"
        BY <2>2, <3>3 DEF DraftsOf
      <3> QED
        BY <3>2, <3>4 DEF DraftsOf
    <2> QED
      BY <1>0, <2>1, <2>2, <2>3 DEF PublishesShown
  <1>12. CASE StepWrite("open")
    BY <1>1, <1>12, OpenWrites
  <1>13. ASSUME NEW e \in Edits, NEW s \in Slots, StepOther(e, s) PROVE PublishesShown'
    <2>1. /\ ui' = ui /\ req' = req /\ pub' = pub
          /\ pub.pc # "idle" => DraftsOf(row', pub.from) = DraftsOf(row, pub.from)
      BY <1>13, OthersApart
    <2> QED
      BY <1>0, <2>1 DEF PublishesShown
  <1>14. CASE StepPromote
    BY <1>0, <1>14 DEF StepPromote, PublishesShown
  <1> QED
    BY <1>0, <1>3, <1>4, <1>5, <1>6, <1>7, <1>8, <1>9, <1>10, <1>11, <1>12, <1>13, <1>14
       DEF Watched, TrackedStep

-----------------------------------------------------------------------------
(* What is published has no unsaved edits, or a save that knows.           *)

LEMMA PublishesCleanNext == ASSUME Watched PROVE PublishesClean'
  <1>0. /\ PublishesClean /\ PublishesShown /\ Requests = {"save", "open"}
        /\ (Saving' <=> req'["save"].pc # "idle") /\ (Saving <=> req["save"].pc # "idle")
        /\ NoPub.pc = "idle"
    BY WatchedTypes DEF Watched, FitInv, Saving, NoPub
  <1>1. CASE pub'.pc # "sent" \/ ui'.dirty
    BY <1>1 DEF PublishesClean
  <1>2. CASE CurrentDef(pub.from)' = StartOf(pub.from)'
    BY <1>2 DEF PublishesClean
  <1>3. ASSUME row' = row, pub'.from = pub.from,
               CurrentDef(pub.from) = StartOf(pub.from)
        PROVE  PublishesClean'
    <2>1. CurrentDef(pub.from)' = StartOf(pub.from)'
      BY <1>3 DEF CurrentDef, StartOf
    <2> QED
      BY <1>2, <2>1
  <1>4. ASSUME row' = row, pub' = pub, Saving' => Saving, ui'.sel = ui.sel,
               ui.dirty => ui'.dirty, ui'.error = ui.error, ui'.list = ui.list \/ ui'.list = row
        PROVE  PublishesClean'
    <2>1. ASSUME pub.pc = "sent", ~ui.dirty, ~Saving, DraftsOf(row, pub.from) # {},
                 ~ui.error \/ ActiveDraft(ui) # {}
          PROVE  PublishesClean'
      <3>1. ui.sel = pub.from
        BY <1>0, <2>1 DEF PublishesShown
      <3>2. ~ui'.error \/ DraftsOf(ui'.list, ui'.sel) # {}
        BY <1>4, <2>1, <3>1 DEF ActiveDraft
      <3> QED
        BY <1>4, <2>1, <3>2 DEF PublishesClean, ActiveDraft
    <2>2. ASSUME pub.pc = "sent", ~ui.dirty, CurrentDef(pub.from) = StartOf(pub.from)
          PROVE  PublishesClean'
      BY <1>3, <1>4, <2>2
    <2>3. CASE pub.pc # "sent" \/ ui.dirty
      BY <1>1, <1>4, <2>3
    <2> QED
      BY <1>0, <2>1, <2>2, <2>3 DEF PublishesClean
  <1>5. ASSUME NEW e \in Edits, StepEdit(e) PROVE PublishesClean'
    BY <1>1, <1>5 DEF StepEdit
  <1>6. CASE StepSend
    <2>1. row' = row /\ (ui'.dirty <=> ui.dirty)
          /\ \/ pub'.pc = "saving"
             \/ pub' = pub /\ (~ui.dirty => ui.error /\ ActiveDraft(ui) = {})
      BY <1>6 DEF StepSend
    <2>2. CASE pub'.pc = "saving" \/ ui'.dirty \/ pub.pc # "sent"
      BY <1>1, <2>1, <2>2
    <2>3. CASE pub' = pub /\ ui.error /\ ActiveDraft(ui) = {} /\ ~ui.dirty /\ pub.pc = "sent"
      BY <1>0, <1>3, <2>1, <2>3 DEF PublishesClean
    <2> QED
      BY <2>1, <2>2, <2>3
  <1>7. CASE StepPublish
    <2>1. /\ ~Saving /\ ActiveDraft(ui) # {} /\ row' = row /\ ui' = ui /\ req' = req
          /\ pub'.from = ui.sel
      BY <1>7 DEF StepPublish
    <2>2. CASE DraftsOf(row, ui.sel) = {}
      <3>1. CurrentDef(pub.from)' = StartOf(pub.from)'
        BY <2>1, <2>2 DEF CurrentDef, StartOf
      <3> QED
        BY <1>2, <3>1
    <2>3. CASE DraftsOf(row, ui.sel) # {}
      BY <1>0, <2>1, <2>3 DEF PublishesClean
    <2> QED
      BY <2>2, <2>3
  <1>8. CASE StepSaveEnds
    <2>1. /\ row' = row /\ Saving /\ ~Saving' /\ ui'.sel = ui.sel
          /\ pub'.pc = "sent" => pub'.from = pub.from /\ pub.pc \in {"saving", "sent"}
      <3>1. pub \in Publication
        BY WatchedTypes
      <3> QED
        BY <1>0, <1>8, <3>1 DEF StepSaveEnds, CalmUi, Publication
    <2>2. CASE req["save"].pc = "stored" /\ ui'.error = ui.error /\ pub'.pc = "sent"
      <3>1. req["save"].found # {} /\ req["save"].found \subseteq DraftsOf(row, pub.from)
        BY <1>0, <2>1, <2>2 DEF PublishesShown, Watched, TypeInv, StoredSomewhere
      <3>2. ~ui'.error
        BY <2>1, <2>2 DEF Watched, Shape, UiShape
      <3> QED
        BY <2>1, <2>2, <3>1, <3>2 DEF PublishesClean
    <2>3. CASE /\ ui'.dirty <=> ui.dirty
               /\ pub' = IF pub.pc = "saving" THEN NoPub ELSE pub
      <3>1. CASE pub'.pc = "sent" /\ ~ui'.dirty
        <4>1. pub' = pub
          BY <1>0, <2>3, <3>1
        <4>2. CurrentDef(pub.from) = StartOf(pub.from)
          BY <1>0, <2>1, <2>3, <3>1, <4>1 DEF PublishesClean
        <4> QED
          BY <1>3, <2>1, <4>1, <4>2
      <3> QED
        BY <1>1, <3>1
    <2>4. CASE pub'.pc # "sent"
      BY <1>1, <2>4
    <2> QED
      BY <1>8, <2>2, <2>3, <2>4 DEF StepSaveEnds
  <1>9. CASE StepPromoted \/ StepPromoteFails \/ StepMove \/ StepPromote
    BY <1>0, <1>1, <1>9 DEF StepPromoted, StepPromoteFails, StepMove, StepPromote
  <1>10. CASE StepCalm
    <2>1. Saving' => Saving
      BY <1>10 DEF StepCalm, Saving
    <2> QED
      BY <1>4, <1>10, <2>1 DEF StepCalm, CalmUi
  <1>11. ASSUME NEW k \in Requests, StepFind(k) PROVE PublishesClean'
    <2>1. Saving' => Saving
      BY <1>0, <1>11 DEF StepFind
    <2> QED
      BY <1>4, <1>11, <2>1, FindIsQuiet
  <1>12. CASE StepWrite("open")
    BY <1>1, <1>12, OpenWrites
  <1>13. ASSUME NEW e \in Edits, NEW s \in Slots, StepOther(e, s) PROVE PublishesClean'
    <2>1. /\ ui' = ui /\ req' = req /\ pub' = pub
          /\ pub.pc # "idle" =>
                /\ DraftsOf(row', pub.from) = DraftsOf(row, pub.from)
                /\ CurrentDef(pub.from)' = CurrentDef(pub.from)
                /\ StartOf(pub.from)' = StartOf(pub.from)
      BY <1>13, OthersApart
    <2> QED
      BY <1>0, <2>1 DEF PublishesClean
  <1>14. CASE StepWrite("save")
    <2>1. ui' = ui /\ pub' = pub /\ Saving /\ req["save"].pc = "found"
      BY <1>14, SaveWrites
    <2>2. CASE pub.pc = "sent" /\ ~ui.dirty
      <3>1. req["save"].to = pub.from /\ pub.from = ui.sel
        BY <1>0, <2>1, <2>2 DEF Watched, FitInv, SaveIsOlder, PublishesShown
      <3>2. CurrentDef(pub.from) = StartOf(pub.from)
        BY <1>0, <2>1, <2>2 DEF PublishesClean
      <3>3. req["save"].found \subseteq DraftsOf(row, pub.from)
        BY <1>0, <2>1, <2>2 DEF PublishesShown
      <3>4. PICK r \in Rows :
               /\ Written(r, req["save"].to, req["save"].def)
               /\ \/ ToDraft /\ row'[r].st = "draft"
                  \/ r \in req["save"].found /\ row[r].st = "named"
               /\ row[r].st # "named" => ToDraft /\ row'[r].st = "draft"
        BY <1>14, SaveWrites
      <3>5. ToDraft /\ row'[r].st = "draft"
        BY <3>3, <3>4 DEF DraftsOf
      <3>6. req["save"].def = StartOf(pub.from)
        BY <2>2, <3>1, <3>2, <3>5 DEF Watched, FitInv, SaveIsOlder
      <3>7. /\ row'[r].parent = pub.from /\ row'[r].def = StartOf(pub.from)
            /\ \A q \in Rows : q # r => row'[q] = row[q]
        BY <3>1, <3>4, <3>6 DEF Written, OthersSame
      <3>8. PICK s : s = pub.from
        OBVIOUS
      <3>9. r \in DraftsOf(row', s)
        BY <3>5, <3>7, <3>8 DEF DraftsOf
      <3>10. CurrentDef(s)' = row'[r].def
        BY <3>9, CurrentIsDraftAfter
      <3>11. StartOf(s)' = StartOf(s)
        <4>1. s = Root \/ s \in Rows
          BY <2>2, <3>8 DEF Watched, Shape, PubShape, Reachable, Named
        <4>2. s # r
          <5>1. row'[r].st # "free"
            BY <3>5
          <5> QED
            BY <3>7, <3>8, <5>1 DEF Watched, Shape, WellPlaced
        <4> QED
          BY <3>7, <4>1, <4>2 DEF StartOf
      <3>12. CurrentDef(s)' = StartOf(s)'
        BY <3>7, <3>8, <3>10, <3>11
      <3> QED
        BY <1>2, <2>1, <3>8, <3>12
    <2> QED
      BY <1>1, <2>1, <2>2
  <1> QED
    BY <1>0, <1>5, <1>6, <1>7, <1>8, <1>9, <1>10, <1>11, <1>12, <1>13, <1>14
       DEF Watched, TrackedStep

TrackInv == Tracks => FitInv

LEMMA Watching ==
    ASSUME TypeInv, Shape, DraftInv, FitInv, [Next]_vars, Tracks'
    PROVE  Watched
  <1>1. /\ Tracks /\ slips' \cap Doubling = {} /\ OneEach /\ FoundNone /\ OpensAlone
    BY TracksTells
  <1>2. TypeInv' /\ Shape'
    BY TypeNext, ShapeNext
  <1>3. OneEach' /\ OpensAlone'
    BY <1>1, DraftRowsNext, OpensAloneNext
  <1>4. RowsStay
    BY RowsNext DEF Shape
  <1> QED
    BY <1>1, <1>2, <1>3, <1>4, StepForms, ListNext DEF Watched

LEMMA TrackInvNext ==
    ASSUME TypeInv, Shape, DraftInv, TrackInv, [Next]_vars
    PROVE  TrackInv'
  <1> SUFFICES ASSUME Tracks' PROVE FitInv'
    BY DEF TrackInv
  <1>1. Watched
    BY Watching, TracksTells DEF TrackInv
  <1> QED
    BY <1>1, RowsFitNext, ReqsFitNext, CanvasFitsNext, ListGrewNext, SaveCoversNext,
       OpensDraftsNext, SaveIsOlderNext, PublishesShownNext, PublishesCleanNext DEF FitInv

-----------------------------------------------------------------------------
(* The first state.                                                        *)

LEMMA StartsClean ==
    ASSUME Init
    PROVE  /\ \A r \in Rows : row[r].st # "draft"
           /\ \A r \in Rows : row[r].st # "free" => row[r].def = {Seed}
           /\ ui.list = row
           /\ ui.dirty => ui.doc = {Seed}
           /\ \A k \in Requests : req[k].pc = "idle"
           /\ pub.pc = "idle"
           /\ \A e \in Edits : made[e] = NoSlot
  <1>0. TypeInv /\ Shape
    BY InitType, ShapeInit
  <1>1. PICK n \in {{}, {First(Rows)}} :
          row = [r \in Rows |-> IF r \in n THEN [st |-> "named", parent |-> Root,
                                                 def |-> {Seed}] ELSE NoRow]
    BY DEF Init
  <1>2. \A r \in Rows : /\ row[r].st # "draft"
                        /\ row[r].st # "free" => row[r].def = {Seed}
    BY <1>1 DEF NoRow
  <1>3. req = [k \in Requests |-> NoReq]
    BY DEF Init, Requests
  <1>4. PICK s \in Slots, b \in BOOLEAN : ui = Page(row, s, b)
    <2>1. (IF Named(row) = {} THEN Root ELSE First(Rows)) \in Slots
      <3>1. CASE Named(row) # {}
        <4>1. Rows # {}
          BY <3>1 DEF Named
        <4> QED
          BY <3>1, <4>1, FirstIsOne DEF Slots
      <3> QED
        BY <3>1 DEF Slots
    <2> QED
      BY <2>1 DEF Init
  <1>p. PICK p : p = ui
    OBVIOUS
  <1>5. row \in [Rows -> Row]
    BY <1>0, EditorTypes DEF TypeInv
  <1>6. /\ p \in Ui /\ p.list = row /\ p.doc = ServerDef(p) \cup {Seed}
        /\ p.dirty = (Seed \notin ServerDef(p))
    BY <1>4, <1>p, <1>5, PageMakes
  <1>7. WellPlaced(p.list)
    BY <1>0, <1>6 DEF Shape
  <1>8. p.dirty => p.doc = {Seed}
    <2>1. CASE Empty(p.list)
      <3>1. ServerDef(p) = {}
        BY <1>6, <2>1, EmptyList
      <3> QED
        BY <1>6, <3>1
    <2>2. CASE ~Empty(p.list)
      BY <1>6, <1>7, <2>2, LoadsClean
    <2> QED
      BY <2>1, <2>2
  <1>9. pub.pc = "idle" /\ \A e \in Edits : made[e] = NoSlot
    BY DEF Init, NoPub
  <1>10. \A k \in Requests : req[k].pc = "idle"
    BY <1>3 DEF NoReq
  <1> QED
    BY <1>2, <1>p, <1>6, <1>8, <1>9, <1>10

LEMMA TrackInvInit == Init => TrackInv
  <1> SUFFICES ASSUME Init PROVE FitInv
    BY DEF TrackInv
  <1>0. Requests = {"save", "open"}
    BY DEF Requests
  <1>1. RowsFit /\ CanvasFits
    BY StartsClean DEF RowsFit, CanvasFits, Fits, DraftsOf
  <1>2. ListGrew
    BY StartsClean DEF ListGrew
  <1> QED
    BY <1>0, <1>1, <1>2, StartsClean DEF FitInv, ReqsFit, SaveCovers, OpensDrafts, SaveIsOlder,
       ToDraft, Saving, PublishesShown, PublishesClean

LEMMA EditorHolds == Spec => [](TypeInv /\ Shape /\ DraftInv /\ TrackInv)
  BY InitType, TypeNext, ShapeInit, ShapeNext, DraftInvInit, DraftInvNext,
     TrackInvInit, TrackInvNext, PTL DEF Spec

(* What is in a draft was made for its slot or was in the version it is a  *)
(* draft of, although saves are late, edits are made while they are under  *)
(* way, and "Edit" may act on an outdated list.                            *)
THEOREM DraftsSeparate == Spec => []DraftsStaySeparate
  <1>1. TrackInv => DraftsStaySeparate
    BY DEF TrackInv, Tracks, Harmless, FitInv, RowsFit, Fits, DraftsStaySeparate
  <1> QED
    BY <1>1, EditorHolds, PTL

-----------------------------------------------------------------------------
(* Without a slip nothing is lost: a save that was answered is in its row, *)
(* what is not saved is on the canvas, and a publication, from its save to *)
(* its answer, is about the definition its publisher saw.                  *)
PublishesDef ==
    /\ pub.pc = "saving" => req["save"].def = pub.def
    /\ pub.pc = "sent" =>
          /\ CurrentDef(pub.from) = pub.def
          /\ ~ui.dirty
          /\ Saving => req["save"].def = pub.def
    /\ pub.pc = "stored" => row[pub.as].def = pub.def /\ ~ui.dirty

SavesDef ==
    /\ req["save"].pc = "stored" =>
          \A r \in req["save"].found : row[r].def = req["save"].def
    /\ req["save"].pc = "found" =>
          \A r \in req["save"].found : row[r].st = "named" => row[r].def = req["save"].def
    /\ Saving /\ ui.dirty => ui.doc \cap Edits \subseteq req["save"].def

OpensNew == req["open"].pc \in {"sent", "found"} => DraftsOf(row, req["open"].to) = {}

Kept(e) ==
    \/ \E r \in Rows : row[r].st # "free" /\ e \in row[r].def
    \/ ui.dirty /\ e \in ui.doc
AllKept == \A e \in Edits : made[e] # NoSlot /\ e \notin gone => Kept(e)

KeptInv == PublishesDef /\ SavesDef /\ OpensNew /\ AllKept

Unslipped == Watched /\ slips' = {} /\ KeptInv

LEMMA SaveWritesDraft ==
    ASSUME Watched, StepWrite("save"), pub.pc = "sent"
    PROVE  CurrentDef(pub.from)' = req["save"].def
  <1>1. ui' = ui /\ pub' = pub /\ Saving /\ req["save"].pc = "found"
    BY SaveWrites
  <1>2. req["save"].to = pub.from
    BY <1>1 DEF Watched, FitInv, SaveIsOlder, PublishesShown
  <1>3. req["save"].found \subseteq DraftsOf(row, pub.from)
    BY <1>1 DEF Watched, FitInv, PublishesShown
  <1>4. PICK r \in Rows :
           /\ Written(r, req["save"].to, req["save"].def)
           /\ row'[r].st = "draft" \/ (r \in req["save"].found /\ row[r].st = "named")
    BY SaveWrites
  <1>5. row'[r].st = "draft"
    BY <1>3, <1>4 DEF DraftsOf
  <1>6. row'[r].parent = pub.from /\ row'[r].def = req["save"].def
    BY <1>2, <1>4 DEF Written
  <1>7. PICK s : s = pub.from
    OBVIOUS
  <1>8. r \in DraftsOf(row', s)
    BY <1>5, <1>6, <1>7 DEF DraftsOf
  <1>9. CurrentDef(s)' = row'[r].def
    BY <1>8, CurrentIsDraftAfter
  <1> QED
    BY <1>1, <1>6, <1>7, <1>9

LEMMA PublishesDefNext == ASSUME Unslipped PROVE PublishesDef'
  <1>w. Watched
    BY DEF Unslipped
  <1>0. /\ PublishesDef /\ PublishesShown /\ PubShape /\ Requests = {"save", "open"}
        /\ (Saving' <=> req'["save"].pc # "idle") /\ (Saving <=> req["save"].pc # "idle")
        /\ NoPub.pc = "idle" /\ pub \in Publication
    BY <1>w, WatchedTypes DEF Unslipped, KeptInv, Watched, FitInv, Shape, Saving, NoPub
  <1>1. CASE pub'.pc = "idle"
    BY <1>1 DEF PublishesDef
  <1>2. ASSUME row' = row, pub' = pub, ui'.dirty => ui.dirty, Saving' => Saving,
               req'["save"].def = req["save"].def
        PROVE  PublishesDef'
    <2>1. CurrentDef(pub.from)' = CurrentDef(pub.from)
      BY <1>2 DEF CurrentDef
    <2> QED
      BY <1>0, <1>2, <2>1 DEF PublishesDef
  <1>3. ASSUME NEW e \in Edits, StepEdit(e) PROVE PublishesDef'
    BY <1>1, <1>3 DEF StepEdit, Unslipped, Busy
  <1>4. ASSUME NEW e \in Edits, NEW s \in Slots, StepOther(e, s) PROVE PublishesDef'
    <2>1. /\ ui' = ui /\ req' = req /\ pub' = pub
          /\ \A q \in Named(row) : row'[q] = row[q]
          /\ pub.pc # "idle" => CurrentDef(pub.from)' = CurrentDef(pub.from)
      BY <1>w, <1>4, OthersApart
    <2>2. pub.pc = "stored" => row'[pub.as] = row[pub.as]
      BY <1>0, <2>1 DEF PubShape
    <2> QED
      BY <1>0, <2>1, <2>2 DEF PublishesDef
  <1>5. ASSUME NEW k \in Requests, StepFind(k) PROVE PublishesDef'
    <2>1. req'["save"].def = req["save"].def /\ (Saving' => Saving)
      BY <1>0, <1>5 DEF StepFind
    <2> QED
      BY <1>2, <1>5, <1>w, <2>1, FindIsQuiet
  <1>6. CASE StepWrite("open")
    BY <1>1, <1>6, <1>w, OpenWrites
  <1>7. CASE StepWrite("save")
    <2>1. /\ ui' = ui /\ pub' = pub /\ Saving /\ req["save"].pc = "found"
          /\ req'["save"].def = req["save"].def
      BY <1>7, <1>w, SaveWrites
    <2>2. CASE pub.pc = "sent"
      BY <1>0, <1>7, <1>w, <2>1, <2>2, SaveWritesDraft DEF PublishesDef
    <2>3. CASE pub.pc = "stored"
      <3>1. pub.as \in Rows /\ row[pub.as].st = "named"
        BY <1>0, <2>3 DEF PubShape, Named
      <3>2. PICK r \in Rows :
               /\ Written(r, req["save"].to, req["save"].def)
               /\ row[r].st = "named" => r \in req["save"].found
        BY <1>7, <1>w, SaveWrites
      <3>3. row'[r].def = req["save"].def /\ \A q \in Rows : q # r => row'[q] = row[q]
        BY <3>2 DEF Written, OthersSame
      <3>4. row[r].st = "named" => row[r].def = req["save"].def
        BY <2>1, <3>2 DEF Unslipped, KeptInv, SavesDef
      <3>5. row'[pub.as].def = row[pub.as].def
        BY <3>1, <3>3, <3>4
      <3> QED
        BY <1>0, <2>1, <2>3, <3>5 DEF PublishesDef
    <2>4. CASE pub.pc \notin {"sent", "stored"}
      BY <1>0, <2>1, <2>4 DEF PublishesDef
    <2> QED
      BY <2>2, <2>3, <2>4
  <1>8. CASE StepPromote
    <2>1. pub.pc = "sent" /\ pub'.pc = "stored" /\ pub'.def = pub.def /\ ui' = ui
      BY <1>8 DEF StepPromote
    <2>2. pub'.as \in DraftsOf(row, pub.from) /\ row'[pub'.as].def = row[pub'.as].def
      BY <1>8 DEF StepPromote, RowNamed
    <2>3. PICK s, r : s = pub.from /\ r = pub'.as
      OBVIOUS
    <2>4. CurrentDef(s) = row[r].def
      BY <1>w, <2>2, <2>3, CurrentIsDraft
    <2> QED
      BY <1>0, <2>1, <2>2, <2>3, <2>4 DEF PublishesDef
  <1>9. CASE StepSend
    <2>1. /\ row' = row /\ (ui'.dirty <=> ui.dirty) /\ ~Saving
          /\ req'["save"].def = Shown(ui)
          /\ ~ui.dirty => Shown(ui) = CurrentDef(ui.sel)
      BY <1>9 DEF StepSend, SaveIsSent
    <2>2. CASE pub' = pub
      <3>1. pub.pc # "saving"
        BY <1>0, <2>1 DEF PublishesShown
      <3>2. pub.pc = "sent" => Shown(ui) = pub.def
        BY <1>0, <2>1 DEF PublishesDef, PublishesShown
      <3>3. CurrentDef(pub.from)' = CurrentDef(pub.from)
        BY <2>1, <2>2 DEF CurrentDef
      <3> QED
        BY <1>0, <2>1, <2>2, <3>1, <3>2, <3>3 DEF PublishesDef
    <2>3. CASE pub'.pc = "saving" /\ pub'.def = Shown(ui)
      BY <2>1, <2>3 DEF PublishesDef
    <2> QED
      BY <1>9, <2>2, <2>3 DEF StepSend
  <1>10. CASE StepPublish
    <2>1. /\ row' = row /\ ui' = ui /\ req' = req /\ ~Saving /\ ~ui.dirty
          /\ pub'.pc = "sent" /\ pub'.from = ui.sel /\ pub'.def = CurrentDef(ui.sel)
      BY <1>10 DEF StepPublish
    <2>2. CurrentDef(pub.from)' = CurrentDef(ui.sel)
      BY <2>1 DEF CurrentDef
    <2> QED
      BY <1>0, <2>1, <2>2 DEF PublishesDef
  <1>11. CASE StepSaveEnds
    <2>1. row' = row /\ Saving /\ ~Saving' /\ (ui'.dirty => ui.dirty)
      BY <1>11 DEF StepSaveEnds, CalmUi
    <2>2. CASE pub.pc # "saving"
      <3>1. pub' = pub
        BY <1>11, <2>2 DEF StepSaveEnds
      <3>2. CurrentDef(pub.from)' = CurrentDef(pub.from)
        BY <2>1, <3>1 DEF CurrentDef
      <3> QED
        BY <1>0, <2>1, <2>2, <3>1, <3>2 DEF PublishesDef
    <2>3. CASE pub.pc = "saving" /\ pub' = NoPub
      BY <1>0, <1>1, <2>3
    <2>4. CASE /\ pub.pc = "saving" /\ pub' = [pub EXCEPT !.pc = "sent"]
               /\ req["save"].pc = "stored" /\ ~ui'.dirty
      <3>1. pub'.pc = "sent" /\ pub'.from = pub.from /\ pub'.def = pub.def
        BY <1>0, <2>4 DEF Publication
      <3>2. PICK r : r \in req["save"].found
        BY <1>0, <1>w, <2>4 DEF Watched, TypeInv, StoredSomewhere
      <3>3. PICK s : s = pub.from
        OBVIOUS
      <3>4. r \in DraftsOf(row, s)
        BY <1>0, <2>4, <3>2, <3>3 DEF PublishesShown
      <3>5. CurrentDef(s) = row[r].def
        BY <1>w, <3>4, CurrentIsDraft
      <3>6. row[r].def = pub.def
        BY <1>0, <2>4, <3>2 DEF PublishesDef, Unslipped, KeptInv, SavesDef
      <3>7. CurrentDef(s)' = CurrentDef(s)
        BY <2>1 DEF CurrentDef
      <3> QED
        BY <2>1, <2>4, <3>1, <3>3, <3>5, <3>6, <3>7 DEF PublishesDef
    <2> QED
      BY <1>11, <2>2, <2>3, <2>4 DEF StepSaveEnds
  <1>12. CASE StepPromoted \/ StepPromoteFails \/ StepMove
    BY <1>0, <1>1, <1>12 DEF StepPromoted, StepPromoteFails, StepMove
  <1>13. CASE StepCalm
    BY <1>0, <1>2, <1>13 DEF StepCalm
  <1> QED
    BY <1>0, <1>w, <1>3, <1>4, <1>5, <1>6, <1>7, <1>8, <1>9, <1>10, <1>11, <1>12, <1>13
       DEF Watched, TrackedStep

-----------------------------------------------------------------------------
(* Each part of this, step by step.                                        *)

LEMMA SavesDefNext == ASSUME Unslipped PROVE SavesDef'
  <1>w. Watched
    BY DEF Unslipped
  <1>0. /\ SavesDef /\ ReqShape /\ Requests = {"save", "open"}
        /\ (Saving' <=> req'["save"].pc # "idle") /\ (Saving <=> req["save"].pc # "idle")
        /\ req["save"].found \subseteq Rows
    BY <1>w, WatchedTypes DEF Unslipped, KeptInv, Watched, Shape, Saving
  <1>1. CASE req'["save"].pc = "idle"
    BY <1>0, <1>1 DEF SavesDef
  <1>2. CASE StepSend
    BY <1>2 DEF StepSend, SaveIsSent, SavesDef
  <1>3. CASE StepFind("save")
    <2>1. /\ row' = row /\ ui' = ui /\ req["save"].pc = "sent" /\ req'["save"].pc = "found"
          /\ req'["save"].def = req["save"].def
          /\ req'["save"].found = DraftsOf(row, req["save"].to)
      BY <1>3 DEF StepFind
    <2> QED
      BY <1>0, <2>1 DEF SavesDef, DraftsOf
  <1>4. CASE StepWrite("save")
    <2>1. /\ ui' = ui /\ Saving /\ req'["save"].pc = "stored"
          /\ req'["save"].def = req["save"].def
      BY <1>4, <1>w, SaveWrites
    <2>2. PICK r \in Rows :
             Written(r, req["save"].to, req["save"].def) /\ req'["save"].found \subseteq {r}
      BY <1>4, <1>w, SaveWrites
    <2>3. row'[r].def = req["save"].def
      BY <2>2 DEF Written
    <2> QED
      BY <1>0, <2>1, <2>2, <2>3 DEF SavesDef
  <1>5. ASSUME Saving, req'["save"].pc = req["save"].pc, req'["save"].found = req["save"].found,
               req'["save"].def = req["save"].def, req'["save"].pc # "idle"
        PROVE  SavesDef'
    <2>1. Saving' /\ ui'.dirty => ui'.doc \cap Edits \subseteq req["save"].def
      <3>1. CASE ui'.dirty => ui.dirty /\ ui'.doc = ui.doc
        BY <1>0, <1>5, <3>1 DEF SavesDef
      <3>2. CASE ui'.dirty => ui'.doc = {Seed}
        BY <3>2
      <3>3. ASSUME NEW e \in Edits PROVE ~StepEdit(e)
        BY <1>5 DEF StepEdit, Unslipped, Busy
      <3>4. ~StepMove /\ ~StepSend
        BY <1>5 DEF StepMove, StepSend, SaveIsSent
      <3>5. StepPromoted => (ui'.dirty => ui'.doc = {Seed})
        BY DEF StepPromoted
      <3>6. StepSaveEnds \/ StepCalm => (ui'.dirty => ui.dirty /\ ui'.doc = ui.doc)
        BY DEF StepSaveEnds, StepCalm, CalmUi
      <3>7. \/ \E e \in Edits : \E s \in Slots : StepOther(e, s)
            \/ \E k \in Requests : StepFind(k) \/ StepWrite(k)
            \/ StepPromote \/ StepPublish \/ StepPromoteFails
            => ui' = ui
        BY DEF StepOther, StepFind, StepWrite, StepPromote, StepPublish, StepPromoteFails
      <3> QED
        BY <1>w, <3>1, <3>2, <3>3, <3>4, <3>5, <3>6, <3>7 DEF Watched, TrackedStep
    <2>2. ASSUME NEW r \in req["save"].found, req["save"].pc \in {"found", "stored"}
          PROVE  /\ row'[r].def = row[r].def
                 /\ row'[r].st = "named" =>
                       row[r].st = "named" \/ row[r].def = req["save"].def
      <3>1. CASE row' = row
        BY <3>1
      <3>2. ASSUME NEW e \in Edits, NEW s \in Slots, StepOther(e, s)
            PROVE  row'[r] = row[r]
        BY <1>0, <1>5, <1>w, <2>2, <3>2, OthersApart
      <3>3. ~StepWrite("open") /\ ~StepWrite("save")
        BY <1>5, <1>w, OpenWrites DEF StepWrite
      <3>4. CASE StepPromote
        <4>1. row'[r].def = row[r].def
          BY <1>0, <1>w, <3>4, PromoteNames
        <4>2. pub.pc = "sent" /\ req["save"].def = pub.def
              /\ CurrentDef(pub.from) = pub.def
          BY <1>5, <3>4 DEF StepPromote, Unslipped, KeptInv, PublishesDef
        <4>3. r \in DraftsOf(row, pub.from)
          BY <1>w, <2>2, <4>2 DEF Watched, FitInv, PublishesShown
        <4>4. PICK s : s = pub.from
          OBVIOUS
        <4>5. CurrentDef(s) = row[r].def
          BY <1>w, <4>3, <4>4, CurrentIsDraft
        <4> QED
          BY <4>1, <4>2, <4>4, <4>5
      <3> QED
        BY <1>w, <3>1, <3>2, <3>3, <3>4, RowSteps
    <2> QED
      BY <1>0, <1>5, <2>1, <2>2 DEF SavesDef
  <1> QED
    BY <1>0, <1>1, <1>2, <1>3, <1>4, <1>5, <1>w, RequestSteps

LEMMA OpensNewNext == ASSUME Unslipped PROVE OpensNew'
  <1>w. Watched
    BY DEF Unslipped
  <1>0. OpensNew /\ Requests = {"save", "open"}
    BY <1>w, WatchedTypes DEF Unslipped, KeptInv
  <1>1. CASE req'["open"].pc \notin {"sent", "found"}
    BY <1>1 DEF OpensNew
  <1>2. ASSUME req["open"].pc \in {"sent", "found"}, req'["open"].to = req["open"].to,
               req'["open"].pc \in {"sent", "found"}
        PROVE  OpensNew'
    <2>1. Opening
      BY <1>2 DEF Opening
    <2>2. CASE row' = row
      BY <1>0, <1>2, <2>2 DEF OpensNew
    <2>3. ASSUME NEW e \in Edits, NEW s \in Slots, StepOther(e, s) PROVE OpensNew'
      <3>1. DraftsOf(row', req["open"].to) = DraftsOf(row, req["open"].to)
        BY <1>0, <1>2, <1>w, <2>3, OthersApart
      <3> QED
        BY <1>0, <1>2, <3>1 DEF OpensNew
    <2>4. ~StepWrite("save")
      BY <1>w, <2>1, SaveWrites
    <2>5. ~StepPromote
      BY <1>w, <2>1 DEF StepPromote, Watched, OpensAlone
    <2>6. ~StepWrite("open")
      BY <1>2 DEF StepWrite
    <2> QED
      BY <1>w, <2>2, <2>3, <2>4, <2>5, <2>6, RowSteps
  <1>3. CASE StepMove
    <2>1. CASE req' = req
      BY <1>1, <1>2, <2>1
    <2>2. CASE req'["open"] = NoReq
      BY <1>1, <2>2 DEF NoReq
    <2>3. CASE req'["open"].to = ui.sel /\ (slips' = {} => DraftsOf(row, ui.sel) = {})
      BY <1>3, <2>3 DEF StepMove, Unslipped, OpensNew
    <2> QED
      BY <1>3, <2>1, <2>2, <2>3 DEF StepMove
  <1>4. CASE StepFind("open")
    <2>1. /\ req["open"].pc = "sent" /\ req'["open"].to = req["open"].to
          /\ req'["open"].pc = "found"
      BY <1>4 DEF StepFind
    <2> QED
      BY <1>2, <2>1
  <1>5. CASE StepWrite("open")
    BY <1>1, <1>5 DEF StepWrite
  <1> QED
    BY <1>0, <1>1, <1>2, <1>3, <1>4, <1>5, <1>w, RequestSteps

(* What a row has, it keeps.                                               *)
LEMMA RowsKeep ==
    ASSUME Unslipped, NEW r \in Rows, row[r].st # "free"
    PROVE  row'[r].st # "free" /\ row[r].def \subseteq row'[r].def
  <1>w. Watched
    BY DEF Unslipped
  <1>0. row'[r].st # "free" /\ Requests = {"save", "open"}
    BY <1>w, WatchedTypes DEF Watched, RowsStay
  <1>1. ASSUME NEW w \in Rows, NEW s, NEW def, Written(w, s, def),
               row[w].st # "free" => row[w].def \subseteq def
        PROVE  row[r].def \subseteq row'[r].def
    <2>1. CASE w = r
      <3>1. row'[w].def = def
        BY <1>1 DEF Written
      <3> QED
        BY <1>1, <2>1, <3>1
    <2>2. CASE w # r
      <3>1. row'[r] = row[r]
        BY <1>1, <2>2 DEF Written, OthersSame
      <3> QED
        BY <3>1
    <2> QED
      BY <2>1, <2>2
  <1>2. ASSUME NEW e \in Edits, NEW s \in Slots, StepOther(e, s)
        PROVE  row[r].def \subseteq row'[r].def
    <2>1. PICK w \in Rows, def \in SUBSET Contents :
             Written(w, s, def) /\ row[w].def \subseteq def
      BY <1>2 DEF StepOther
    <2> QED
      BY <1>1, <2>1
  <1>3. CASE StepWrite("save")
    <2>1. PICK w \in Rows :
             /\ Written(w, req["save"].to, req["save"].def)
             /\ row[w].st = "free" \/ w \in req["save"].found
      BY <1>3 DEF StepWrite
    <2>2. w \in req["save"].found => row[w].def \subseteq req["save"].def
      BY <1>3, <1>w DEF StepWrite, Watched, FitInv, SaveCovers
    <2> QED
      BY <1>0, <1>1, <2>1, <2>2
  <1>4. CASE StepWrite("open")
    <2>1. PICK w \in Rows :
             /\ Written(w, req["open"].to, req["open"].def)
             /\ row[w].st = "free" \/ w \in req["open"].found
      BY <1>4 DEF StepWrite
    <2>2. req["open"].pc = "found" /\ DraftsOf(row, req["open"].to) = {}
      BY <1>4 DEF StepWrite, Unslipped, KeptInv, OpensNew
    <2>3. w \notin req["open"].found
      <3>1. \A q \in req["open"].found : row[q].st = "draft" /\ row[q].parent = req["open"].to
        BY <1>0, <1>w, <2>2 DEF Watched, FitInv, OpensDrafts, Shape, ReqShape
      <3> QED
        BY <2>2, <3>1 DEF DraftsOf
    <2> QED
      BY <1>0, <1>1, <2>1, <2>3
  <1>5. CASE StepPromote
    BY <1>0, <1>5, <1>w, PromoteNames
  <1> QED
    BY <1>0, <1>2, <1>3, <1>4, <1>5, <1>w, RowSteps

LEMMA AllKeptNext == ASSUME Unslipped PROVE AllKept'
  <1>w. Watched
    BY DEF Unslipped
  <1>0. AllKept /\ (\A k \in Requests : k \in {"save", "open"})
    BY <1>w, WatchedTypes DEF Unslipped, KeptInv
  <1> SUFFICES ASSUME NEW e \in Edits, made'[e] # NoSlot, e \notin gone' PROVE Kept(e)'
    BY DEF AllKept
  <1>1. ASSUME NEW r \in Rows, row[r].st # "free", e \in row[r].def PROVE Kept(e)'
    BY <1>1, RowsKeep DEF Kept
  <1>2. ASSUME ui'.dirty, e \in ui'.doc PROVE Kept(e)'
    BY <1>2 DEF Kept
  <1>3. ASSUME made'[e] = made[e], gone \subseteq gone',
               ui.dirty /\ e \in ui.doc => Kept(e)'
        PROVE  Kept(e)'
    <2>1. Kept(e)
      BY <1>0, <1>3 DEF AllKept
    <2> QED
      BY <1>1, <1>3, <2>1 DEF Kept
  <1>4. ASSUME NEW d \in Edits, StepEdit(d) PROVE Kept(e)'
    <2>1. CASE e = d
      BY <1>2, <1>4, <2>1 DEF StepEdit
    <2>2. CASE e # d
      <3>1. made'[e] = made[e] /\ gone' = gone /\ ui'.dirty /\ ui'.doc = ui.doc \cup {d}
        BY <1>4, <2>2 DEF StepEdit
      <3> QED
        BY <1>2, <1>3, <3>1
    <2> QED
      BY <2>1, <2>2
  <1>5. ASSUME NEW d \in Edits, NEW s \in Slots, StepOther(d, s) PROVE Kept(e)'
    <2>1. made' = [made EXCEPT ![d] = s] /\ gone' = gone \cup {d} /\ ui' = ui
      BY <1>5 DEF StepOther
    <2>2. e # d
      BY <2>1
    <2>3. made'[e] = made[e]
      BY <2>1, <2>2
    <2> QED
      BY <1>2, <1>3, <2>1, <2>3
  <1>6. CASE UNCHANGED <<ui, made, gone>>
    BY <1>2, <1>3, <1>6
  <1>7. CASE \/ \E k \in Requests : StepFind(k) \/ StepWrite(k)
             \/ StepPromote \/ StepPublish \/ StepPromoteFails
    BY <1>6, <1>7 DEF StepFind, StepWrite, StepPromote, StepPublish, StepPromoteFails
  <1>8. CASE StepSend
    BY <1>2, <1>3, <1>8 DEF StepSend
  <1>9. CASE StepSaveEnds
    <2>1. made' = made /\ gone' = gone /\ row' = row /\ (ui'.dirty => ui'.doc = ui.doc) /\ Saving
      BY <1>9 DEF StepSaveEnds, CalmUi
    <2>2. CASE ui'.dirty <=> ui.dirty
      BY <1>2, <1>3, <2>1, <2>2
    <2>3. CASE req["save"].pc = "stored"
      <3>1. PICK r : r \in req["save"].found
        BY <1>w, <2>3, WatchedTypes DEF Watched, TypeInv, StoredSomewhere
      <3>2. r \in Rows /\ row[r].st # "free"
        BY <1>w, <2>3, <3>1, WatchedTypes DEF Watched, Shape, ReqShape
      <3>3. row[r].def = req["save"].def
        BY <2>3, <3>1 DEF Unslipped, KeptInv, SavesDef
      <3>4. ui.dirty /\ e \in ui.doc => e \in row[r].def
        BY <2>1, <3>3 DEF Unslipped, KeptInv, SavesDef
      <3> QED
        BY <1>1, <1>3, <2>1, <3>2, <3>4
    <2> QED
      BY <1>9, <2>2, <2>3 DEF StepSaveEnds
  <1>10. CASE StepPromoted
    <2>1. ~ui.dirty
      BY <1>10 DEF StepPromoted, Unslipped, KeptInv, PublishesDef
    <2> QED
      BY <1>3, <1>10, <2>1 DEF StepPromoted
  <1>11. CASE StepCalm
    BY <1>2, <1>3, <1>11 DEF StepCalm, CalmUi
  <1>12. CASE StepMove
    <2>1. made' = made /\ gone \subseteq gone' /\ (ui.dirty => ui.doc \cap Edits \subseteq gone')
      BY <1>12 DEF StepMove
    <2>2. ~(ui.dirty /\ e \in ui.doc)
      BY <2>1
    <2> QED
      BY <1>3, <2>1, <2>2
  <1> QED
    BY <1>w, <1>4, <1>5, <1>7, <1>8, <1>9, <1>10, <1>11, <1>12 DEF Watched, TrackedStep

-----------------------------------------------------------------------------
(* What holds without a slip.                                              *)

CleanInv == slips = {} => KeptInv

LEMMA CleanInvInit == Init => CleanInv
  <1> SUFFICES ASSUME Init PROVE KeptInv
    BY DEF CleanInv
  <1>0. "save" \in Requests /\ "open" \in Requests
    BY DEF Requests
  <1> QED
    BY <1>0, StartsClean DEF KeptInv, PublishesDef, SavesDef, OpensNew, AllKept, Saving

LEMMA Unslipping ==
    ASSUME TypeInv, Shape, DraftInv, TrackInv, CleanInv, [Next]_vars, slips' = {}
    PROVE  Unslipped
  <1>1. slips = {}
    BY SlipsGrow
  <1>2. Tracks'
    BY DEF Tracks
  <1>3. FitInv
    BY <1>1 DEF TrackInv, Tracks
  <1> QED
    BY <1>1, <1>2, <1>3, Watching DEF Unslipped, CleanInv

LEMMA CleanInvNext ==
    ASSUME TypeInv, Shape, DraftInv, TrackInv, CleanInv, [Next]_vars
    PROVE  CleanInv'
  <1> SUFFICES ASSUME slips' = {} PROVE KeptInv'
    BY DEF CleanInv
  <1>1. Unslipped
    BY Unslipping
  <1> QED
    BY <1>1, PublishesDefNext, SavesDefNext, OpensNewNext, AllKeptNext DEF KeptInv

LEMMA CleanHolds == Spec => []CleanInv
  BY InitType, TypeNext, ShapeInit, ShapeNext, DraftInvInit, DraftInvNext,
     TrackInvInit, TrackInvNext, CleanInvInit, CleanInvNext, PTL DEF Spec

(* An edit is in a draft or a version, on a canvas that knows it is        *)
(* unsaved, or in a save under way, whatever fails or is late, as long as  *)
(* the editor does not lose track (no slip).                               *)
THEOREM NothingLost == Spec => []EditsKept
  <1>1. CleanInv => EditsKept
    BY DEF CleanInv, KeptInv, AllKept, Kept, EditsKept
  <1> QED
    BY <1>1, CleanHolds, PTL

(* A version that was published is the definition its publisher saw,       *)
(* whatever became of the save that precedes the promotion, without a      *)
(* slip.                                                                   *)
THEOREM PublishedIsShown == Spec => []PublishedAsShown
  <1>1. CleanInv => PublishedAsShown
    BY DEF CleanInv, KeptInv, PublishesDef, PublishedAsShown
  <1> QED
    BY <1>1, CleanHolds, PTL

(* A save that has looked up a draft which is published before it writes   *)
(* writes what the version already is.                                     *)
LEMMA NamedRowsStay ==
    ASSUME Unslipped, NEW v \in Named(row) PROVE row'[v] = row[v]
  <1>w. Watched
    BY DEF Unslipped
  <1>0. v \in Rows /\ row[v].st = "named" /\ row[v] \in Row /\ row'[v] \in Row
    BY <1>w, WatchedTypes, RowsAreRows DEF Named
  <1>1. ASSUME NEW e \in Edits, NEW s \in Slots, StepOther(e, s) PROVE row'[v] = row[v]
    BY <1>1, <1>w, OthersApart
  <1>2. CASE StepWrite("save")
    <2>1. PICK r \in Rows :
             /\ Written(r, req["save"].to, req["save"].def)
             /\ row[r].st = "free" \/ r \in req["save"].found
      BY <1>2 DEF StepWrite
    <2>2. CASE r = v
      <3>1. row[v].def = req["save"].def
        BY <1>0, <1>2, <2>1, <2>2 DEF StepWrite, Unslipped, KeptInv, SavesDef
      <3>2. /\ row'[v].st = row[v].st /\ row'[v].parent = row[v].parent
            /\ row'[v].def = row[v].def
        BY <1>0, <2>1, <2>2, <3>1 DEF Written
      <3> QED
        BY <1>0, <3>2 DEF Row
    <2> QED
      BY <1>0, <2>1, <2>2 DEF Written, OthersSame
  <1>3. CASE StepWrite("open")
    <2>1. PICK r \in Rows :
             /\ Written(r, req["open"].to, req["open"].def)
             /\ row[r].st # "named"
      BY <1>3, <1>w, OpenWrites
    <2> QED
      BY <1>0, <2>1 DEF Written, OthersSame
  <1>4. CASE StepPromote
    <2>1. v \notin DraftsOf(row, pub.from)
      BY <1>0 DEF DraftsOf
    <2> QED
      BY <1>0, <1>4, <1>w, <2>1, PromoteNames
  <1> QED
    BY <1>1, <1>2, <1>3, <1>4, <1>w, RowSteps

(* Without a slip a published version does not change, although its row is *)
(* the row of the draft that saves under way have looked up.               *)
THEOREM PublishedStays == Spec => PublishedIsFixed
  <1>1. ASSUME TypeInv, Shape, DraftInv, TrackInv, CleanInv, [Next]_vars
        PROVE  [slips' = {} => \A r \in Named(row) : row'[r] = row[r]]_vars
    BY <1>1, Unslipping, NamedRowsStay
  <1> QED
    BY <1>1, EditorHolds, CleanHolds, PTL DEF Spec, PublishedIsFixed
=============================================================================
