------------------------------- MODULE DBusMenu -------------------------------
(* The menu of another program: src/src/dbus/dbusmenu, and the openers of it *)
(* in src/src/core/qsmenu.{cpp,hpp}.  The program tells that its layout or   *)
(* some properties changed; the shell asks for the layout and makes, keeps   *)
(* or deletes an object for each item of the answer.  An item keeps its      *)
(* parent: one that moves is deleted by the parent it had (dbusmenu.cpp:379).*)
EXTENDS Integers, Sequences, FiniteSets, SequencesExt, ObjectModel

CONSTANTS
  Ids,         \* of menu items; 0 is the root
  ItemObjs,    \* DBusMenuItem objects; 0 is DBusMenu.rootItem
  Openers,     \* QsMenuOpener
  MaxMenuActs  \* bound: changes by the program and by the configuration

VARIABLES
  program,     \* the menu there is: children and properties of each item, ids used so far
  menuCalls,   \* AboutToShow and GetLayout calls to the program
  menuSignals, \* replies and signals from it
  handle,      \* DBusMenuHandle: path, whether loaded, the openers that reference it
  menu,        \* DBusMenu: items, the objects; crashed: a null item was dereferenced
  menuActs,    \* bound
  patched      \* history: items of which only the changed properties were told since the layout was

menuVars == <<program, menuCalls, menuSignals, handle, menu, menuActs, patched>>

Absent == -1  \* DBusMenu.items has no such id
Null   == -2  \* it has, without an object

\* DBusMenuItem
NewItem == [id |-> 0, parent |-> Null, children |-> <<>>, shown |-> <<>>,
            visible |-> TRUE, label |-> 0, showChildren |-> FALSE, alive |-> FALSE]
NoMenu == [exists |-> FALSE, items |-> [i \in {0} \cup Ids |-> IF i = 0 THEN 0 ELSE Absent],
           obj |-> [o \in {0} \cup ItemObjs |-> [NewItem EXCEPT !.alive = (o = 0)]],
           refs |-> 0, crashed |-> FALSE]

-----------------------------------------------------------------------------
(* updateProperties() and the layout                                         *)

\* onChildrenUpdated(): the model follows the visible children.
OnChildrenUpdated(m, o) ==
  LET objects == [i \in DOMAIN m.obj[o].children |-> m.items[m.obj[o].children[i]]]
  IN IF \E i \in DOMAIN objects : objects[i] < 0 THEN [m EXCEPT !.crashed = TRUE]
     ELSE [m EXCEPT !.obj[o].shown = DiffUpdate(@, SelectSeq(objects, LAMBDA c : m.obj[c].visible))]

\* updateProperties(): what is not given, and not told to be removed, is reset if nothing is
\* told to be removed.
Updated(given, name, removed, old, default) ==
  IF name \in DOMAIN given THEN given[name] ELSE IF removed = {} \/ name \in removed THEN default ELSE old
UpdateProperties(m, o, given, removed) ==
  IF DOMAIN given = {} /\ removed = {} THEN m
  ELSE LET new == [m EXCEPT !.obj[o].visible = Updated(given, "visible", removed, @, TRUE),
                            !.obj[o].label = Updated(given, "label", removed, @, 0)]
       IN IF new.obj[o].visible # m.obj[o].visible /\ m.obj[o].parent # Null
          THEN OnChildrenUpdated(new, m.obj[o].parent) ELSE new

RECURSIVE RemoveRecursive(_, _)
RemoveRecursive(m, id) ==
  LET o == m.items[id]
      rest == IF o < 0 THEN m ELSE FoldLeft(RemoveRecursive, m, m.obj[o].children)
  IN [rest EXCEPT !.items[id] = Absent, !.obj = IF o < 0 THEN @ ELSE [@ EXCEPT ![o].alive = FALSE]]

\* The item of a reserved id is made.
Create(m, id, parent) ==
  LET o == CHOOSE x \in ItemObjs : ~m.obj[x].alive /\ m.obj[x].id = 0
  IN [m EXCEPT !.items[id] = o,
               !.obj[o] = [NewItem EXCEPT !.id = id, !.parent = parent, !.alive = TRUE,
                                          !.showChildren = parent # Null /\ m.obj[parent].showChildren]]

RECURSIVE UpdateLayoutRecursive(_, _, _, _)
UpdateLayoutRecursive(m, layout, id, parent) ==
  LET made == IF m.items[id] = Null THEN Create(m, id, parent) ELSE m
      o    == made.items[id]
      kids == layout.children[id]
      Child(n, c) ==
        LET reserved == IF n.obj[o].showChildren /\ c \notin ToSet(n.obj[o].children)
                        THEN [n EXCEPT !.items[c] = Null] ELSE n
        IN UpdateLayoutRecursive(reserved, layout, c, o)
  IN IF o < 0 THEN made
     ELSE LET told == UpdateProperties(made, o, layout.properties[id], {})
              old  == told.obj[o].children
              show == told.obj[o].showChildren
              kept == SelectSeq(old, LAMBDA c : show /\ c \in ToSet(kids))
              gone == SelectSeq(old, LAMBDA c : c \notin ToSet(kept))
              pruned == [FoldLeft(RemoveRecursive, told, gone) EXCEPT !.obj[o].children = kept]
              filled == FoldLeft(Child, pruned, kids)
          IN IF gone # <<>> \/ (show /\ ToSet(kids) \ ToSet(kept) # {})
             THEN OnChildrenUpdated([filled EXCEPT !.obj[o].children = kids], o) ELSE filled

-----------------------------------------------------------------------------
(* The program (external): it answers in order, and the bus keeps order.     *)

\* Properties at their default are left out, but for the label.
Properties(i) == LET all == [visible |-> program.visible[i], label |-> program.label[i]] IN
  IF i = 0 THEN <<>> ELSE [n \in {"label"} \cup (IF all.visible THEN {} ELSE {"visible"}) |-> all[n]]
Layout == [children |-> program.children, properties |-> [i \in {0} \cup Ids |-> Properties(i)]]

Tells(kind, id, value) ==
  menuSignals' = IF menu.exists THEN Append(menuSignals, [kind |-> kind, id |-> id, value |-> value]) ELSE menuSignals

Act == menuActs < MaxMenuActs /\ menuActs' = menuActs + 1

Present == {i \in Ids : \E p \in {0} \cup Ids : i \in ToSet(program.children[p])}
Roots   == {0} \cup ToSet(program.children[0])

\* An id is used once; an item has children if it is one of the menu's own.
ItemAdded(i) ==
  /\ Act /\ i = program.used + 1
  /\ \E p \in Roots : \E at \in 1 .. Len(program.children[p]) + 1 :
       /\ program' = [program EXCEPT !.used = i, !.children[p] = InsertAt(@, at, i)]
       /\ Tells("LayoutUpdated", p, <<>>)
  /\ UNCHANGED <<menuCalls, handle, menu, patched>>

ItemRemoved(i) ==
  /\ Act /\ i \in Present
  /\ LET p == CHOOSE q \in {0} \cup Ids : i \in ToSet(program.children[q]) IN
       /\ program' = [program EXCEPT !.children = [@ EXCEPT ![p] = Remove(@, i), ![i] = <<>>]]
       /\ Tells("LayoutUpdated", p, <<>>)
  /\ UNCHANGED <<menuCalls, handle, menu, patched>>

\* ItemsPropertiesUpdated: what changed, or what went back to its default.
ItemChanged(i) ==
  /\ Act /\ i \in Present
  /\ \/ /\ program' = [program EXCEPT !.label[i] = 1 - @]
        /\ Tells("Updated", i, [label |-> program'.label[i]])
     \/ /\ program.visible[i] /\ program' = [program EXCEPT !.visible[i] = FALSE]
        /\ Tells("Updated", i, [visible |-> FALSE])
     \/ /\ ~program.visible[i] /\ program' = [program EXCEPT !.visible[i] = TRUE]
        /\ Tells("Removed", i, {"visible"})
  /\ UNCHANGED <<menuCalls, handle, menu, patched>>

ProgramAnswers ==
  /\ menuCalls # <<>> /\ menuCalls' = Tail(menuCalls)
  /\ menuSignals' = Append(menuSignals, [Head(menuCalls) EXCEPT !.value = Layout])
  /\ UNCHANGED <<program, handle, menu, menuActs, patched>>

-----------------------------------------------------------------------------
(* The shell                                                                 *)

Asks(kind, id) == Append(menuCalls, [kind |-> kind, id |-> id, value |-> <<>>])

\* onMenuPathChanged(): the menu that was is deleted, with its answers; menuChanged() has
\* the openers reference the menu's root only once that is loaded.
Reopened(path, openers) ==
  LET wanted == openers # {} /\ path # "" IN
  /\ handle' = [path |-> path, loaded |-> FALSE, openers |-> openers]
  /\ menu' = IF wanted THEN [NoMenu EXCEPT !.exists = TRUE, !.obj[0].showChildren = TRUE] ELSE NoMenu
  /\ menuCalls' = IF wanted THEN <<[kind |-> "AboutToShow", id |-> 0, value |-> <<>>]>> ELSE <<>>
  /\ menuSignals' = <<>> /\ patched' = {}

\* setAddress(), by the item of the tray.
SetAddress(path) ==
  /\ Act /\ path # handle.path /\ Reopened(path, handle.openers) /\ UNCHANGED program

\* QsMenuOpener::setMenu(), refHandle(): the first opens the menu, others have its layout
\* asked for again.
Open(opener) ==
  /\ Act /\ opener \notin handle.openers
  /\ LET openers == handle.openers \cup {opener} IN
       IF handle.openers = {} \/ ~menu.exists THEN Reopened(handle.path, openers)
       ELSE /\ handle' = [handle EXCEPT !.openers = openers]
            /\ menu' = [menu EXCEPT !.refs = IF handle.loaded THEN @ + 1 ELSE @]
            /\ menuCalls' = IF handle.loaded THEN Asks("GetLayout", 0) ELSE menuCalls
            /\ UNCHANGED <<menuSignals, patched>>
  /\ UNCHANGED program

\* The opener's menu is another, or the opener is destroyed: unref(), unrefHandle().
Close(opener) ==
  /\ Act /\ opener \in handle.openers
  /\ IF handle.openers = {opener} THEN Reopened(handle.path, {})
     ELSE /\ handle' = [handle EXCEPT !.openers = @ \ {opener}]
          /\ menu' = [menu EXCEPT !.refs = IF handle.loaded THEN @ - 1 ELSE @]
          /\ UNCHANGED <<menuCalls, menuSignals, patched>>
  /\ UNCHANGED program

\* The answer to GetLayout; that for the root is the first that makes the menu loaded, and
\* menuChanged() then has each opener reference it.
OnLayout(m) ==
  LET new == UpdateLayoutRecursive(menu, m.value, m.id, Null)
      first == ~handle.loaded /\ m.id = 0
  IN /\ menu' = IF first THEN [new EXCEPT !.refs = @ + Cardinality(handle.openers)] ELSE new
     /\ handle' = [handle EXCEPT !.loaded = @ \/ first]
     /\ patched' = IF m.id = 0 THEN {} ELSE patched
     /\ UNCHANGED menuCalls

OnItemPropertiesUpdated(m) ==
  LET o == menu.items[m.id] IN
  /\ menu' = IF o < 0 THEN menu
             ELSE IF m.kind = "Updated" THEN UpdateProperties(menu, o, m.value, {})
             ELSE UpdateProperties(menu, o, <<>>, m.value)
  /\ patched' = IF m.kind = "Updated" THEN patched \cup {m.id} ELSE patched
  /\ UNCHANGED <<handle, menuCalls>>

HearProgram ==
  /\ menuSignals # <<>> /\ menuSignals' = Tail(menuSignals)
  /\ LET m == Head(menuSignals) IN
       \/ m.kind = "AboutToShow" /\ menuCalls' = Asks("GetLayout", m.id) /\ UNCHANGED <<handle, menu, patched>>
       \/ m.kind = "LayoutUpdated" /\ menuCalls' = Asks("GetLayout", m.id) /\ UNCHANGED <<handle, menu, patched>>
       \/ m.kind = "GetLayout" /\ OnLayout(m)
       \/ m.kind \in {"Updated", "Removed"} /\ OnItemPropertiesUpdated(m)
  /\ UNCHANGED <<program, menuActs>>

-----------------------------------------------------------------------------
Init ==
  /\ program = [children |-> [i \in {0} \cup Ids |-> CASE i = 0 -> <<1, 2>> [] i = 1 -> <<3>> [] OTHER -> <<>>],
                visible |-> [i \in Ids |-> TRUE], label |-> [i \in Ids |-> 0], used |-> 3]
  /\ menuCalls = <<>> /\ menuSignals = <<>> /\ menuActs = 0 /\ patched = {}
  /\ handle = [path |-> "/menu", loaded |-> FALSE, openers |-> {}] /\ menu = NoMenu

Next ==
  \/ \E i \in Ids : ItemAdded(i) \/ ItemRemoved(i) \/ ItemChanged(i)
  \/ ProgramAnswers \/ HearProgram
  \/ \E path \in {"", "/menu", "/other"} : SetAddress(path)
  \/ \E p \in Openers : Open(p) \/ Close(p)

-----------------------------------------------------------------------------
\* Every child of an item has its object, a list shows no object that is deleted, none twice
\* and only those of the item's children (dbusmenu.cpp:260, :376, :391, :416).
MenuHolds ==
  /\ ~menu.crashed
  /\ \A i \in {0} \cup Ids : menu.items[i] >= 0 =>
       LET item == menu.obj[menu.items[i]] IN
         /\ item.alive /\ IsInjective(item.shown)
         /\ \A c \in ToSet(item.children) : menu.items[c] >= 0 /\ menu.obj[menu.items[c]].parent = menu.items[i]
         /\ \A k \in ToSet(item.shown) : menu.obj[k].alive /\ menu.obj[k].id \in ToSet(item.children)

\* The root is referenced once by each opener as soon as it is loaded, and there is a menu
\* as long as there is an opener and an address (dbusmenu.cpp:510, :532, qsmenu.cpp:60).
OpenersAreCounted ==
  /\ menu.exists <=> handle.openers # {} /\ handle.path # ""
  /\ menu.refs = IF handle.loaded THEN Cardinality(handle.openers) ELSE 0
  /\ handle.loaded => menu.exists

\* At rest the menu shows the items of the program below each item, in its order, without
\* the invisible ones: unless only what changed was told of one of them.
ShowsMenu ==
  menuCalls = <<>> /\ menuSignals = <<>> /\ menu.exists =>
    /\ handle.loaded
    /\ \A i \in {0} \cup Present : menu.items[i] >= 0 /\
         LET item == menu.obj[menu.items[i]] IN
           /\ item.children = program.children[i]
           /\ i \notin patched \cup {0} => item.label = program.label[i] /\ item.visible = program.visible[i]
           /\ ToSet(item.children) \cap patched = {} =>
                [k \in DOMAIN item.shown |-> menu.obj[item.shown[k]].id]
                  = SelectSeq(program.children[i], LAMBDA c : program.visible[c])
=============================================================================
