--------------------------- MODULE WorkflowEditor ---------------------------
(***************************************************************************)
(* The editor of one workflow: the canvas with its autosave, the history   *)
(* of versions and drafts, publishing (useVersionSync.ts,                  *)
(* useVersionActions.ts, canvas.ts), and the versions and drafts of the    *)
(* backend (version_service.py), which other clients write, too.           *)
(*                                                                         *)
(* A definition is the set of edits it contains; Seed stands for the start *)
(* and end nodes, without which a definition is seeded when it is loaded.  *)
(* A request is sent, reads the drafts, commits and is answered in steps   *)
(* of its own.  The effects of a component run with the render that        *)
(* follows a change and are part of the action that makes the change.      *)
(***************************************************************************)
EXTENDS Integers, FiniteSets

CONSTANTS
    Rows,     \* ids of graph_versions rows, in the order they are given out
    Root,     \* the slot of the root draft, which has no parent version
    Edits,    \* the edits that may be made, each of them once
    Others,   \* those of them that other clients make
    Seed,     \* start and end nodes
    Slips,    \* the kinds of slips (see below) that may happen
    MaxSlips, \* bound: kinds of slips a behaviour has
    NoSlot    \* "not made yet"

ASSUME EditorAssumption ==
    /\ Rows \subseteq Nat
    /\ IsFiniteSet(Rows)
    /\ MaxSlips \in Nat
    /\ Root \notin Rows
    /\ NoSlot \notin Rows \cup {Root}
    /\ Seed \notin Edits
    /\ Others \subseteq Edits

VARIABLES
    row,     \* the rows of graph_versions
    ui,      \* the editor: selection, canvas store, autosave, version list
    req,     \* draft upserts of the editor, from autosave and "Edit"
    pub,     \* handlePromoteCurrentDraft
    made,    \* the slot each edit was made for
    gone,    \* edits a user gave up, and what other clients write
    slips    \* situations in which the editor is known to lose track

vars == <<row, ui, req, pub, made, gone, slips>>

Slots    == Rows \cup {Root}
Contents == Edits \cup {Seed}

Row   == [st : {"free", "draft", "named"}, parent : Slots, def : SUBSET Contents]

(* What makes the editor lose track, in the code as it is:                 *)
(*   edit while busy        the answer of a save marks later edits saved   *)
(*                          (useVersionSync.ts:155), and a load discards   *)
(*                          them;                                          *)
(*   publish while saving   syncDraftNow returns at once (:145), so what   *)
(*                          is promoted is older; the save still comes;    *)
(*   switch while dirty     in the history the mode is "view", and nothing *)
(*                          is confirmed (useVersionActions.ts:56);        *)
(*   work while opening     the canvas is still usable while "Edit" waits  *)
(*                          for the draft it creates, and saves another;   *)
(*   outdated canvas        an edit starts from a definition that is not   *)
(*                          the draft's, and the autosave overwrites it;   *)
(*   outdated list          "Edit" overwrites a draft the list lacks;      *)
(*   another client         writes the same draft, or from an older copy.  *)
SlipKinds == {"edit while busy", "publish while saving", "switch while dirty",
              "work while opening", "outdated canvas", "outdated list",
              "another client"}

ASSUME SlipAssumption == Slips \subseteq SlipKinds

NoRow == [st |-> "free", parent |-> Root, def |-> {}]
NoReq == [pc |-> "idle", to |-> Root, def |-> {}, found |-> {}]
NoPub == [pc |-> "idle", from |-> Root, def |-> {}, as |-> Root]

TypeOK ==
    /\ row \in [Rows -> Row]
    /\ ui \in [sel : Slots, snap : BOOLEAN, tab : {"graph", "history"},
               doc : SUBSET Contents, dirty : BOOLEAN, base : Slots,
               timer : BOOLEAN, error : BOOLEAN, list : [Rows -> Row]]
    /\ req \in [{"save", "open"} ->
                  [pc : {"idle", "sent", "found", "stored"}, to : Slots,
                   def : SUBSET Contents, found : SUBSET Rows]]
    /\ pub \in [pc : {"idle", "saving", "sent", "stored"}, from : Slots,
                def : SUBSET Contents, as : Slots]
    /\ made \in [Edits -> Slots \cup {NoSlot}]
    /\ gone \subseteq Edits
    /\ slips \subseteq Slips

-----------------------------------------------------------------------------
(* Rows.                                                                   *)

(* Mutant: a version counts as the draft it was promoted from.             *)
RowsOf(rows, s) == {r \in Rows : rows[r].st # "free" /\ rows[r].parent = s}
DraftsOf(rows, s) == {r \in Rows : rows[r].st = "draft" /\ rows[r].parent = s}
Named(rows) == {r \in Rows : rows[r].st = "named"}
First(S) == CHOOSE r \in S : \A q \in S : r <= q
Newest(S) == CHOOSE r \in S : \A q \in S : q <= r

(* What the editor derives from the list of versions it has.               *)
ActiveDraft(u) == DraftsOf(u.list, u.sel)
Mode(u) == IF u.tab = "graph" /\ ~u.snap THEN "edit" ELSE "view"

(* The version selected, else the latest version, else the root draft.     *)
Base(u) ==
    IF u.sel \in Named(u.list) THEN {u.sel}
    ELSE IF Named(u.list) # {} THEN {Newest(Named(u.list))}
    ELSE DraftsOf(u.list, Root)

ServerDef(u) ==
    LET from == IF u.snap \/ ActiveDraft(u) = {} THEN Base(u) ELSE ActiveDraft(u)
    IN UNION {u.list[r].def : r \in from}

BaseKey(u) ==
    IF ActiveDraft(u) \cup Base(u) = {} THEN Root
    ELSE First(IF ActiveDraft(u) # {} THEN ActiveDraft(u) ELSE Base(u))

(* The definition the handlers of a render see.                            *)
Shown(u) == IF Mode(u) = "edit" THEN u.doc ELSE ServerDef(u)

(* setGraph of the canvas store seeds what has no start or end node.       *)
SetGraph(u, def) == [u EXCEPT !.doc = def \cup {Seed}, !.dirty = Seed \notin def]

(* Mutant: unsaved edits do not keep the canvas from being loaded.         *)
NothingPreserved(u) == FALSE
Preserved(u) == u.dirty

(* The load effect.                                                        *)
Loaded(u) ==
    IF Preserved(u) \/ u.base = BaseKey(u) THEN u
    ELSE SetGraph([u EXCEPT !.base = BaseKey(u)], ServerDef(u))

(* What the autosave effect depends on; it starts its timer anew when any  *)
(* of this changes, and the timer captures it.                             *)
AutosaveDeps(u) == <<u.doc, u.dirty, Mode(u), u.sel>>

(* A render after the editor's state became u.                             *)
Render(u) ==
    LET v == Loaded(u)
    IN ui' = IF AutosaveDeps(v) = AutosaveDeps(ui) THEN v
             ELSE [v EXCEPT !.timer = v.dirty /\ Mode(v) = "edit"]

(* loadDefinition.                                                         *)
LoadDefinition(u, s, def, base) ==
    [SetGraph(u, def) EXCEPT !.sel = s, !.base = base, !.error = FALSE]

Saving  == req["save"].pc # "idle"
Opening == req["open"].pc # "idle"
Busy    == Saving \/ Opening \/ pub.pc # "idle"

(* The canvas does not show the draft, or what a new draft starts from.    *)
CurrentDef(s) ==
    IF DraftsOf(row, s) # {} THEN row[First(DraftsOf(row, s))].def
    ELSE IF s = Root THEN {Seed} ELSE row[s].def
Outdated == ~ui.dirty /\ Shown(ui) # CurrentDef(ui.sel)

When(f, cond) == IF cond THEN {f} ELSE {}
Slip(S) ==
    /\ S \subseteq Slips
    /\ Cardinality(slips \cup S) <= MaxSlips
    /\ slips' = slips \cup S
Switching == When("switch while dirty", ui.dirty \/ Busy)
Working ==
    When("work while opening", Opening) \cup When("outdated canvas", Outdated)

(* The page as it is loaded: a stored selection, or a default.             *)
Page(rows, s, snap) ==
    LET u == [sel |-> s, snap |-> snap, tab |-> "graph", doc |-> {},
              dirty |-> FALSE, base |-> Root, timer |-> FALSE,
              error |-> FALSE, list |-> rows]
        v == SetGraph([u EXCEPT !.base = BaseKey(u)], ServerDef(u))
    IN [v EXCEPT !.timer = v.dirty /\ Mode(v) = "edit"]

(* A new workflow, or one with a version.                                  *)
Init ==
    /\ \E n \in {{}, {First(Rows)}} :
          row = [r \in Rows |-> IF r \in n THEN [st |-> "named", parent |-> Root,
                                                 def |-> {Seed}] ELSE NoRow]
    /\ ui = Page(row, IF Named(row) = {} THEN Root ELSE First(Rows), FALSE)
    /\ req = [k \in {"save", "open"} |-> NoReq]
    /\ pub = NoPub
    /\ made = [e \in Edits |-> NoSlot]
    /\ gone = {}
    /\ slips = {}

-----------------------------------------------------------------------------
(* The canvas.                                                             *)

Edit(e) ==
    /\ e \notin Others
    /\ Mode(ui) = "edit"
    /\ made[e] = NoSlot
    /\ made' = [made EXCEPT ![e] = ui.sel]
    /\ Render([ui EXCEPT !.doc = @ \cup {e}, !.dirty = TRUE])
    /\ Slip(Working \cup When("edit while busy", Busy /\ ~Opening))
    /\ UNCHANGED <<row, req, pub, gone>>

(* Mutant: a draft the server has is saved again only when ... never.      *)
NeverNeeded(u) == FALSE
NeedsSave(u) == u.dirty \/ ActiveDraft(u) = {}

(* Mutant: without a draft the root draft is written.                      *)
DraftSlot(u) == IF ActiveDraft(u) = {} THEN Root ELSE u.sel
(* Mutant: the selection is sent before it is resolved.                    *)
Unresolved(u) == IF ActiveDraft(u) = {} THEN NoSlot ELSE u.sel
SaveSlot(u) == u.sel

(* syncDraftNow, when no save is under way and there is something to save. *)
StartSave ==
    req' = [req EXCEPT !["save"] = [pc |-> "sent", to |-> SaveSlot(ui),
                                    def |-> Shown(ui), found |-> {}]]

(* 800 ms without a change; a save under way makes the timer do nothing.   *)
AutosaveFires ==
    /\ ui.timer
    /\ \/ /\ Saving
          /\ UNCHANGED req
       \/ /\ ~Saving
          /\ NeedsSave(ui)
          /\ StartSave
    /\ ui' = [ui EXCEPT !.timer = FALSE, !.error = Saving /\ @]
    /\ UNCHANGED <<row, pub, made, gone, slips>>

RetrySave ==
    /\ ui.error
    /\ Mode(ui) = "edit"
    /\ ~Saving
    /\ NeedsSave(ui)
    /\ StartSave
    /\ ui' = [ui EXCEPT !.error = FALSE]
    /\ Slip(Working)
    /\ UNCHANGED <<row, pub, made, gone>>

SaveAnswered ==
    /\ req["save"].pc = "stored"
    /\ req' = [req EXCEPT !["save"] = NoReq]
    /\ Render([ui EXCEPT !.dirty = FALSE])
    /\ pub' = IF pub.pc = "saving" THEN [pub EXCEPT !.pc = "sent"] ELSE pub
    /\ UNCHANGED <<row, made, gone, slips>>

(* Mutant: a save that fails leaves the autosave state as it was.          *)
FailsSilently ==
    /\ Saving
    /\ req' = [req EXCEPT !["save"] = NoReq]
    /\ pub' = IF pub.pc = "saving" THEN NoPub ELSE pub
    /\ UNCHANGED <<row, ui, made, gone, slips>>

(* The request, or only its answer, is lost, or the server finds two       *)
(* drafts where it expects one.                                            *)
SaveFails ==
    /\ Saving
    /\ req' = [req EXCEPT !["save"] = NoReq]
    /\ ui' = [ui EXCEPT !.error = TRUE]
    /\ pub' = IF pub.pc = "saving" THEN NoPub ELSE pub
    /\ UNCHANGED <<row, made, gone, slips>>

-----------------------------------------------------------------------------
(* upsert_draft in the backend: look for the draft, then write.            *)
FindDraft(k) ==
    /\ req[k].pc = "sent"
    /\ LET D == DraftsOf(row, req[k].to)
       IN /\ Cardinality(D) <= 1
          /\ req' = [req EXCEPT ![k].pc = "found", ![k].found = D]
    /\ UNCHANGED <<row, ui, pub, made, gone, slips>>

Free == {r \in Rows : row[r].st = "free"}

(* Mutant: an upsert inserts whatever it found.                            *)
Inserted(found) == TRUE
Inserts(found) == found = {}

WriteDraft(k) ==
    /\ req[k].pc = "found"
    /\ LET q == req[k] IN
       \/ /\ Inserts(q.found)
          /\ Free # {}
          /\ row' = [row EXCEPT ![First(Free)] =
                       [st |-> "draft", parent |-> q.to, def |-> q.def]]
          /\ req' = [req EXCEPT ![k].pc = "stored", ![k].found = {First(Free)}]
       \/ /\ ~Inserts(q.found)
          /\ row' = [row EXCEPT ![First(q.found)].def = q.def]
          /\ req' = [req EXCEPT ![k].pc = "stored"]
    /\ UNCHANGED <<ui, pub, made, gone, slips>>

(* A draft is saved by another client, which had loaded it before or after *)
(* the last change.                                                        *)
OtherSaves(s, e) ==
    /\ e \in Others
    /\ s \in Named(row) \/ s = Root
    /\ made[e] = NoSlot
    /\ LET D == DraftsOf(row, s)
           start == IF s = Root THEN {Seed} ELSE row[s].def
       IN /\ Cardinality(D) <= 1
          /\ \/ /\ D = {}
                /\ Free # {}
                /\ row' = [row EXCEPT ![First(Free)] =
                       [st |-> "draft", parent |-> s, def |-> start \cup {e}]]
             \/ /\ D # {}
                /\ \E def \in {start, CurrentDef(s)} :
                      row' = [row EXCEPT ![First(D)].def = def \cup {e}]
    /\ made' = [made EXCEPT ![e] = s]
    /\ gone' = gone \cup {e}
    /\ Slip(When("another client",
          \/ s \in {ui.sel, pub.from}
          \/ \E k \in {"save", "open"} : req[k].pc # "idle" /\ req[k].to = s
          \/ \E r \in Rows : ~(row[r].def \subseteq row'[r].def)))
    /\ UNCHANGED <<ui, req, pub>>

(* The list of versions is fetched again.                                  *)
Refetch ==
    /\ ui.list # row
    /\ Render([ui EXCEPT !.list = row])
    /\ UNCHANGED <<row, req, pub, made, gone, slips>>

-----------------------------------------------------------------------------
(* The history tab.                                                        *)

OpenTab(t) ==
    /\ ui.tab # t
    /\ Render([ui EXCEPT !.tab = t])
    /\ UNCHANGED <<row, req, pub, made, gone, slips>>

InHistory(u) ==
    /\ ui.tab = "history"
    /\ Render(u)
    /\ UNCHANGED <<row, pub, made, gone>>

(* selectHistoryItem: a version, as a snapshot ...                         *)
SelectVersion(v) ==
    /\ v \in Named(ui.list)
    /\ InHistory([ui EXCEPT !.sel = v, !.snap = TRUE])
    /\ Slip(Switching)
    /\ UNCHANGED req

(* ... or the draft of a version, or the root draft.                       *)
SelectDraft(s) ==
    /\ DraftsOf(ui.list, s) # {}
    /\ s = Root => ui.sel = Root
    /\ InHistory([ui EXCEPT !.sel = s, !.snap = FALSE])
    /\ Slip(Switching)
    /\ UNCHANGED req

(* The selected version is shown on the canvas.                            *)
ViewVersion ==
    /\ ui.sel \in Named(ui.list)
    /\ ui.snap \/ ActiveDraft(ui) = {}
    /\ InHistory([LoadDefinition(ui, ui.sel, ui.list[ui.sel].def, ui.sel)
                    EXCEPT !.snap = TRUE, !.tab = "graph"])
    /\ Slip(Switching)
    /\ UNCHANGED req

(* "Edit": the draft of the selected version is opened, and created when   *)
(* the version has none as far as the editor knows.                        *)
OpenVersion ==
    /\ ui.sel \in Named(ui.list)
    /\ ~Opening
    /\ LET D == ActiveDraft(ui) IN
       \/ /\ D # {}
          /\ InHistory([LoadDefinition(ui, ui.sel, ui.list[First(D)].def, First(D))
                          EXCEPT !.snap = FALSE, !.tab = "graph"])
          /\ Slip(Switching)
          /\ UNCHANGED req
       \/ /\ D = {}
          /\ InHistory([ui EXCEPT !.snap = FALSE])
          /\ Slip(Switching
                    \cup When("outdated list", DraftsOf(row, ui.sel) # {}))
          /\ req' = [req EXCEPT !["open"] = [pc |-> "sent", to |-> ui.sel,
                               def |-> ui.list[ui.sel].def, found |-> {}]]

OpenAnswered ==
    /\ req["open"].pc = "stored"
    /\ LET q == req["open"] IN
       Render([LoadDefinition(ui, q.to, q.def, First(q.found))
                 EXCEPT !.tab = "graph"])
    /\ Slip(When("switch while dirty", ui.dirty))
    /\ req' = [req EXCEPT !["open"] = NoReq]
    /\ UNCHANGED <<row, pub, made, gone>>

OpenFails ==
    /\ req["open"].pc # "idle"
    /\ req' = [req EXCEPT !["open"] = NoReq]
    /\ UNCHANGED <<row, ui, pub, made, gone, slips>>

-----------------------------------------------------------------------------
(* Publishing is offered on the canvas, and in the history for the root    *)
(* draft.                                                                  *)
PublishOffered(u) ==
    \/ Mode(u) = "edit"
    \/ u.tab = "history" /\ u.sel = Root /\ ActiveDraft(u) # {}

(* Save what is not saved, then promote the draft.                         *)
Publish ==
    /\ PublishOffered(ui)
    /\ pub.pc = "idle"
    /\ \/ /\ Saving \/ ~NeedsSave(ui)
          /\ pub' = [pc |-> "sent", from |-> ui.sel, def |-> Shown(ui), as |-> Root]
          /\ UNCHANGED <<req, ui>>
       \/ /\ ~Saving
          /\ NeedsSave(ui)
          /\ pub' = [pc |-> "saving", from |-> ui.sel, def |-> Shown(ui), as |-> Root]
          /\ StartSave
          /\ ui' = [ui EXCEPT !.error = FALSE]
    /\ Slip(Working \cup When("publish while saving", Saving)
              \cup When("switch while dirty", ui.dirty /\ Mode(ui) = "view"))
    /\ UNCHANGED <<row, made, gone>>

(* promote_draft_to_version: the draft becomes the version, in its row.    *)
Promote ==
    /\ pub.pc = "sent"
    /\ LET D == DraftsOf(row, pub.from) IN
       /\ Cardinality(D) = 1
       /\ pub.from = Root => \A r \in Named(row) : row[r].parent # Root
       /\ row' = [row EXCEPT ![First(D)].st = "named"]
       /\ pub' = [pub EXCEPT !.pc = "stored", !.as = First(D)]
    /\ UNCHANGED <<ui, req, made, gone, slips>>

PromoteAnswered ==
    /\ pub.pc = "stored"
    /\ Render([LoadDefinition(ui, pub.as, row[pub.as].def, pub.as)
                 EXCEPT !.snap = TRUE, !.tab = "history"])
    /\ pub' = NoPub
    /\ UNCHANGED <<row, req, made, gone, slips>>

(* Refused, or the answer is lost.                                         *)
PromoteFails ==
    /\ pub.pc \in {"sent", "stored"}
    /\ pub' = NoPub
    /\ UNCHANGED <<row, ui, req, made, gone, slips>>

(* The page is left, after a warning when there are unsaved edits, and     *)
(* opened again with the stored selection, or a default when that is gone. *)
Reload ==
    /\ ~Busy
    /\ IF ui.sel = Root /\ DraftsOf(row, Root) = {} /\ Named(row) # {}
       THEN \E v \in Named(row) : ui' = Page(row, v, FALSE)
       ELSE ui' = Page(row, ui.sel, ui.snap /\ ui.sel # Root)
    /\ gone' = IF ui.dirty THEN gone \cup (ui.doc \cap Edits) ELSE gone
    /\ UNCHANGED <<row, req, pub, made, slips>>

(* What happens to a request that was sent.                                *)
Save == SaveFails \/ SaveAnswered \/ FindDraft("save") \/ WriteDraft("save")
Open == OpenFails \/ OpenAnswered \/ FindDraft("open") \/ WriteDraft("open")
Promotion == PromoteFails \/ PromoteAnswered \/ Promote

Next ==
    \/ \E e \in Edits : Edit(e) \/ \E s \in Slots : OtherSaves(s, e)
    \/ AutosaveFires \/ RetrySave
    \/ Save \/ Open \/ Promotion
    \/ Refetch \/ Reload
    \/ \E t \in {"graph", "history"} : OpenTab(t)
    \/ \E v \in Rows : SelectVersion(v)
    \/ \E s \in Slots : SelectDraft(s)
    \/ ViewVersion \/ OpenVersion \/ Publish

Spec == Init /\ [][Next]_vars

(* Timers fire, and every request is answered or fails.                    *)
Fairness ==
    /\ WF_vars(AutosaveFires)
    /\ WF_vars(Save)

FairSpec == Spec /\ Fairness

-----------------------------------------------------------------------------
(* What follows is about behaviours without some of the slips, each of     *)
(* which loses track of edits in the code as it is.                        *)

(* No edit is lost without a word: it is in a draft or a version, or in a  *)
(* canvas that knows it is unsaved, or on its way to the backend, unless   *)
(* its user gave it up or another client made it (S9.1/validation.md, 2:   *)
(* "changes are lost on navigation" is a failure).                         *)
EditsKept ==
    slips = {} =>
       \A e \in Edits : made[e] # NoSlot /\ e \notin gone =>
          \/ \E r \in Rows : row[r].st # "free" /\ e \in row[r].def
          \/ ui.dirty /\ e \in ui.doc
          \/ req["save"].pc \in {"sent", "found"} /\ e \in req["save"].def

(* Drafts stay apart: what is in a row was made for its slot or comes from *)
(* the version it was branched from, even when edits are made during a     *)
(* save and when "Edit" overwrites a draft (S9.1/validation.md, 4).        *)
DraftsStaySeparate ==
    slips \subseteq {"edit while busy", "outdated list"} =>
       \A r \in Rows : row[r].st # "free" =>
          \A e \in row[r].def \cap Edits :
             \/ made[e] = row[r].parent
             \/ /\ row[r].parent \in Rows
                /\ e \in row[row[r].parent].def

(* There is one draft for a version (graphs/models.py:39), although looking *)
(* for it and inserting it are two steps: only another client, or "Edit"   *)
(* on a version whose first draft is just being saved, makes a second one. *)
OneDraft ==
    slips \cap {"another client", "switch while dirty", "work while opening"} = {}
    =>
       \A s \in Slots : Cardinality(DraftsOf(row, s)) <= 1

(* A published version is what its publisher saw, although publishing is a *)
(* save, whose failure or delay is seen or not, and then a promotion.      *)
PublishedAsShown ==
    pub.pc = "stored" /\ slips = {} => row[pub.as].def = pub.def

(* A published version does not change any more, although its row is the   *)
(* row of the draft that saves under way have looked up.                   *)
PublishedIsFixed ==
    [][slips' = {} => \A r \in Named(row) : row'[r] = row[r]]_vars

(* Unsaved edits do not stay so while the canvas is open: they are saved,  *)
(* or the editor shows that it could not.                                  *)
Settles ==
    ui.dirty /\ Mode(ui) = "edit" ~> ~ui.dirty \/ ui.error \/ Mode(ui) # "edit"
=============================================================================
