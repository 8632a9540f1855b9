--------------------------- MODULE DBusProperties ---------------------------
(***************************************************************************)
(* A DBusPropertyGroup (src/src/dbus/properties.{cpp,hpp}): the properties *)
(* of an object of another program, as those of a device, a player or a    *)
(* tray item, mirrored in bindable properties that QML reads and writes.   *)
(* A write is shown at once and sent; what the program makes of it comes   *)
(* back as a change.  The program is external: it handles calls in the     *)
(* order they come in, and the bus keeps the order of what it sends.       *)
(***************************************************************************)
EXTENDS Naturals, Sequences

CONSTANTS
  Properties,  \* DBusPropertyGroup.properties
  Values,
  Unset,       \* of a property before anything was heard of it, no value
  MaxMessages  \* bound: messages on their way, beyond which neither side says a
               \* thing that the other has not asked for

VARIABLES
  remote,   \* the values that the program has
  calls,    \* to it
  signals,  \* from it: replies and PropertiesChanged
  local,    \* the bindable properties
  refused   \* history: properties of which a call failed since a value was stored

propertyVars == <<remote, calls, signals, local, refused>>

Call(kind, props, value) == [kind |-> kind, props |-> props, value |-> value]
\* values: of some properties; invalidated: others, of which only that they changed.
Signal(values, invalidated) == [values |-> values, invalidated |-> invalidated]

Calls   == [kind : {"Get", "Set"}, props : SUBSET Properties, value : Values \cup {Unset}]
Signals == [values : UNION {[P -> Values] : P \in SUBSET Properties}, invalidated : SUBSET Properties]

Known(P) == [p \in P |-> remote[p]]

Room == Len(calls) + Len(signals) < MaxMessages

-----------------------------------------------------------------------------
(* The program *)

\* It changes some properties on its own account.
RemoteChanges ==
  /\ Room
  /\ \E P \in SUBSET Properties \ {{}}, told \in SUBSET Properties :
       \E new \in [P -> Values] :
         /\ \A p \in P : new[p] # remote[p]
         /\ remote' = [p \in Properties |-> IF p \in P THEN new[p] ELSE remote[p]]
         /\ told \subseteq P
         /\ signals' = Append(signals, Signal([p \in told |-> new[p]], P \ told))
  /\ UNCHANGED <<calls, local, refused>>

\* It answers a Get or a GetAll, or with an error.
RemoteReads ==
  /\ calls # <<>> /\ Head(calls).kind = "Get"
  /\ calls' = Tail(calls)
  /\ \/ signals' = Append(signals, Signal(Known(Head(calls).props), {})) /\ UNCHANGED refused
     \/ refused' = refused \cup Head(calls).props /\ UNCHANGED signals
  /\ UNCHANGED <<remote, local>>

\* It takes a value, and tells of it if it is another, or takes it not.
RemoteWrites ==
  /\ calls # <<>> /\ Head(calls).kind = "Set"
  /\ calls' = Tail(calls)
  /\ LET P == Head(calls).props
         v == Head(calls).value
     IN \/ /\ remote' = [p \in Properties |-> IF p \in P THEN v ELSE remote[p]]
           /\ IF remote' = remote THEN UNCHANGED signals
              ELSE \E told \in {{}, P} : signals' = Append(signals, Signal([p \in told |-> v], P \ told))
           /\ UNCHANGED refused
        \/ refused' = refused \cup P /\ UNCHANGED <<remote, signals>>
  /\ UNCHANGED local

-----------------------------------------------------------------------------
(* The shell *)

\* A setter, as BluetoothAdapter::setEnabled(), also from a handler between two
\* updates: the new value is shown and pushPropertyUpdate() sends it.
Write(p, v) ==
  /\ Room
  /\ local[p] # v
  /\ local' = [local EXCEPT ![p] = v]
  /\ calls' = Append(calls, Call("Set", {p}, v))
  /\ UNCHANGED <<remote, signals, refused>>

\* DBusBindableProperty::requestUpdate().
RequestUpdate(p) ==
  /\ Room
  /\ calls' = Append(calls, Call("Get", {p}, Unset))
  /\ UNCHANGED <<remote, signals, local, refused>>

\* onPropertiesChanged(), first half: a request for each invalidated property.
OnInvalidated ==
  /\ signals # <<>> /\ Head(signals).invalidated # {}
  /\ \E p \in Head(signals).invalidated :
       /\ calls' = Append(calls, Call("Get", {p}, Unset))
       /\ signals' = [signals EXCEPT ![1].invalidated = @ \ {p}]
  /\ UNCHANGED <<remote, local, refused>>

\* Mutant: the first value of a property is kept.
StoredOnce(p, value) == local' = IF local[p] = Unset THEN [local EXCEPT ![p] = value] ELSE local

\* updatePropertySet(): tryUpdateProperty() for each value there is, with handlers
\* (Write) between them.
Stored(p, value) == local' = [local EXCEPT ![p] = value]
UpdateProperty ==
  /\ signals # <<>> /\ Head(signals).invalidated = {}
  /\ \E p \in DOMAIN Head(signals).values :
       /\ Stored(p, Head(signals).values[p])
       /\ refused' = refused \ {p}
       /\ signals' = [signals EXCEPT ![1].values =
                        [q \in DOMAIN Head(signals).values \ {p} |-> Head(signals).values[q]]]
  /\ UNCHANGED <<remote, calls>>

Updated ==
  /\ signals # <<>> /\ Head(signals).invalidated = {} /\ DOMAIN Head(signals).values = {}
  /\ signals' = Tail(signals)
  /\ UNCHANGED <<remote, calls, local, refused>>

-----------------------------------------------------------------------------
\* updateAllViaGetAll() right after setInterface().
Init ==
  /\ remote \in [Properties -> Values]
  /\ calls = <<Call("Get", Properties, Unset)>> /\ signals = <<>>
  /\ local = [p \in Properties |-> Unset] /\ refused = {}

Next ==
  \/ RemoteChanges \/ RemoteReads \/ RemoteWrites
  \/ \E p \in Properties, v \in Values : Write(p, v)
  \/ \E p \in Properties : RequestUpdate(p)
  \/ OnInvalidated \/ UpdateProperty \/ Updated

Spec == Init /\ [][Next]_propertyVars

-----------------------------------------------------------------------------
TypeOK ==
  /\ remote \in [Properties -> Values] /\ local \in [Properties -> Values \cup {Unset}]
  /\ calls \in Seq(Calls) /\ signals \in Seq(Signals)
  /\ refused \subseteq Properties

\* When nothing is on its way a property shows the program's value, however
\* writes of the shell, changes of the program, invalidations and answers crossed:
\* unless the last that was heard of it is that a call failed.
MirrorsRemote ==
  calls = <<>> /\ signals = <<>> =>
    \A p \in Properties \ refused : local[p] = remote[p]
=============================================================================
