------------------------------- MODULE Bluetooth -------------------------------
(* Bluetooth adapters and devices: src/src/bluetooth, and the object manager *)
(* of src/src/dbus it hears of them from.  BlueZ, another program, tells of  *)
(* adapters and devices in any order, and answers calls while things change. *)
EXTENDS Integers, Sequences, FiniteSets, SequencesExt, ObjectModel

CONSTANTS
  Adapters,    \* paths of adapters
  Devices,     \* paths of devices
  Of,          \* the adapter of each device
  None,        \* a null pointer
  MaxSignals,  \* bound: messages under way, beyond which BlueZ does nothing by itself
  MaxActs      \* bound: acts of BlueZ and of the user

VARIABLES
  bluez,       \* what BlueZ has: adapters, devices, those connected, those with a battery
  btCalls,     \* calls it has not handled
  btSignals,   \* replies and signals the shell has not handled
  listed,      \* Bluez: mAdapters, mDevices, bDefaultAdapter, the devices of each adapter
  dev,         \* BluetoothDevice by path: what it shows
  btActs       \* bound

bluetoothVars == <<bluez, btCalls, btSignals, listed, dev, btActs>>

NoDevice == [alive |-> FALSE, connected |-> FALSE, state |-> "Disconnected", pairing |-> FALSE,
             battery |-> FALSE]
Msg(kind, path, value) == [kind |-> kind, path |-> path, value |-> value]
Settled(connected) == IF connected THEN "Connected" ELSE "Disconnected"

-----------------------------------------------------------------------------
(* BlueZ (external).                                                         *)

BluezActs(b, told) ==
  /\ btActs < MaxActs /\ Len(btSignals) < MaxSignals /\ btActs' = btActs + 1
  /\ bluez' = b /\ btSignals' = btSignals \o told
  /\ UNCHANGED <<btCalls, listed, dev>>

\* InterfacesAdded tells the properties, and whether there is a battery.
Added(p, b) == Msg("added", p, [connected |-> p \in b.connected, battery |-> p \in b.battery])

AdapterAppears(a) ==
  /\ a \notin bluez.adapters
  /\ LET b == [bluez EXCEPT !.adapters = @ \cup {a}] IN BluezActs(b, <<Added(a, b)>>)
\* Its devices go first.
AdapterGoes(a) ==
  /\ a \in bluez.adapters /\ \A d \in bluez.devices : Of[d] # a
  /\ BluezActs([bluez EXCEPT !.adapters = @ \ {a}], <<Msg("removed", a, {"Adapter1"})>>)
DeviceAppears(d) ==
  /\ d \notin bluez.devices /\ Of[d] \in bluez.adapters
  /\ LET b == [bluez EXCEPT !.devices = @ \cup {d}] IN BluezActs(b, <<Added(d, b)>>)
DeviceGoes(d) ==
  /\ d \in bluez.devices
  /\ BluezActs([bluez EXCEPT !.devices = @ \ {d}, !.connected = @ \ {d}, !.battery = @ \ {d}],
               <<Msg("removed", d, {"Device1"})>>)
BatteryChanges(d) ==
  /\ d \in bluez.devices
  /\ IF d \in bluez.battery
     THEN BluezActs([bluez EXCEPT !.battery = @ \ {d}], <<Msg("removed", d, {"Battery1"})>>)
     ELSE LET b == [bluez EXCEPT !.battery = @ \cup {d}] IN BluezActs(b, <<Added(d, b)>>)
ConnectionChanges(d) ==
  /\ d \in bluez.devices
  /\ LET c == IF d \in bluez.connected THEN bluez.connected \ {d} ELSE bluez.connected \cup {d}
     IN BluezActs([bluez EXCEPT !.connected = c], <<Msg("connected", d, d \in c)>>)

\* It answers calls in order, and tells of what they change before.
BluezHandles ==
  /\ btCalls # <<>> /\ btCalls' = Tail(btCalls)
  /\ LET c == Head(btCalls)
         here == c.path \in bluez.devices
         reply(ok) == Msg("reply", c.path, [call |-> c.kind, ok |-> ok])
         sets(to) == /\ bluez' = [bluez EXCEPT !.connected = IF to THEN @ \cup {c.path} ELSE @ \ {c.path}]
                     /\ btSignals' = btSignals \o (IF bluez'.connected = bluez.connected THEN <<>>
                                        ELSE <<Msg("connected", c.path, to)>>) \o <<reply(TRUE)>>
     IN \/ /\ c.kind = "GetManagedObjects" /\ UNCHANGED bluez
           /\ \E order \in SetToSeqs(bluez.adapters \cup bluez.devices) :
                btSignals' = btSignals \o [i \in DOMAIN order |-> Added(order[i], bluez)]
        \/ c.kind = "Connect" /\ here /\ sets(TRUE)
        \/ c.kind = "Disconnect" /\ here /\ sets(FALSE)
        \/ /\ c.kind # "GetManagedObjects" /\ UNCHANGED bluez
           /\ \E ok \in (IF c.kind = "Pair" /\ here THEN BOOLEAN ELSE {FALSE}) :
                btSignals' = Append(btSignals, reply(ok))
  /\ UNCHANGED <<listed, dev, btActs>>

-----------------------------------------------------------------------------
(* What the shell hears.                                                     *)

Lists(a) == a \in {listed.adapters[i] : i \in DOMAIN listed.adapters}
DevicesOf(a) == SelectSeq(listed.devices, LAMBDA d : Of[d] = a)

\* updateDefaultAdapter().
WithDefault(l) == [l EXCEPT !.default = IF l.adapters = <<>> THEN None ELSE Head(l.adapters)]

\* addInterface(): Device1 and Battery1.  onConnectedChanged(), if that is another value.
SetConnected(k, c) == IF c = k.connected THEN k ELSE [k EXCEPT !.connected = c, !.state = Settled(c)]
AddInterfaces(k, v) == [SetConnected(k, v.connected) EXCEPT !.alive = TRUE, !.battery = @ \/ v.battery]

\* onInterfacesAdded(): an adapter takes the devices there are already, a device goes to
\* its adapter if that is there.
OnInterfacesAdded(p, v) ==
  IF p \in Adapters
  THEN /\ listed' = IF Lists(p) THEN listed
                    ELSE WithDefault([listed EXCEPT !.adapters = AppendObject(@, p), !.of[p] = DevicesOf(p)])
       /\ UNCHANGED dev
  ELSE /\ dev' = [dev EXCEPT ![p] = AddInterfaces(@, v)]
       /\ listed' = IF dev[p].alive THEN listed
                    ELSE [listed EXCEPT !.devices = AppendObject(@, p),
                                        !.of[Of[p]] = IF Lists(Of[p]) THEN AppendObject(@, p) ELSE @]

\* onInterfacesRemoved(), removeInterface().
OnInterfacesRemoved(p, interfaces) ==
  IF p \in Adapters
  THEN /\ listed' = WithDefault([listed EXCEPT !.adapters = RemoveObject(@, p), !.of[p] = <<>>])
       /\ UNCHANGED dev
  ELSE IF "Device1" \in interfaces
       THEN /\ listed' = [listed EXCEPT !.devices = RemoveObject(@, p), !.of[Of[p]] = RemoveObject(@, p)]
            /\ dev' = [dev EXCEPT ![p] = NoDevice]
       ELSE dev' = [dev EXCEPT ![p].battery = FALSE] /\ UNCHANGED listed

\* The replies of connect(), disconnect(), pair() and cancelPair(): an error sets the
\* state back.  A device that is gone hears nothing.
OnReply(p, r) ==
  /\ dev' = IF ~dev[p].alive THEN dev
            ELSE IF r.call \in {"Pair", "CancelPairing"} THEN [dev EXCEPT ![p].pairing = FALSE]
            ELSE IF r.ok THEN dev
            ELSE [dev EXCEPT ![p].state = Settled(dev[p].connected)]
  /\ UNCHANGED listed

Handle ==
  /\ btSignals # <<>> /\ btSignals' = Tail(btSignals)
  /\ LET m == Head(btSignals) IN
       CASE m.kind = "added"     -> OnInterfacesAdded(m.path, m.value)
         [] m.kind = "removed"   -> OnInterfacesRemoved(m.path, m.value)
         [] m.kind = "connected" -> /\ dev' = [dev EXCEPT ![m.path] = IF @.alive THEN SetConnected(@, m.value) ELSE @]
                                    /\ UNCHANGED listed
         [] m.kind = "reply"     -> OnReply(m.path, m.value)
  /\ UNCHANGED <<bluez, btCalls, btActs>>

-----------------------------------------------------------------------------
(* What the user asks for.                                                   *)

Calls(d, kind) ==
  /\ btActs < MaxActs /\ btActs' = btActs + 1 /\ btCalls' = Append(btCalls, Msg(kind, d, None))
  /\ UNCHANGED <<bluez, btSignals, listed>>

Connect(d) ==
  /\ dev[d].alive /\ ~dev[d].connected /\ dev[d].state # "Connecting"
  /\ dev' = [dev EXCEPT ![d].state = "Connecting"] /\ Calls(d, "Connect")
Disconnect(d) ==
  /\ dev[d].alive /\ dev[d].connected /\ dev[d].state # "Disconnecting"
  /\ dev' = [dev EXCEPT ![d].state = "Disconnecting"] /\ Calls(d, "Disconnect")
Pair(d) ==
  /\ dev[d].alive /\ ~dev[d].pairing
  /\ dev' = [dev EXCEPT ![d].pairing = TRUE] /\ Calls(d, "Pair")
CancelPair(d) == dev[d].pairing /\ UNCHANGED dev /\ Calls(d, "CancelPairing")

-----------------------------------------------------------------------------
\* setInterface() listens, then fetchInitialObjects() asks.
Init ==
  /\ bluez \in [adapters : SUBSET Adapters, devices : {{}, Devices}, connected : {{}}, battery : {{}}]
  /\ \A d \in bluez.devices : Of[d] \in bluez.adapters
  /\ btCalls = <<Msg("GetManagedObjects", None, None)>> /\ btSignals = <<>> /\ btActs = 0
  /\ listed = [adapters |-> <<>>, devices |-> <<>>, default |-> None, of |-> [a \in Adapters |-> <<>>]]
  /\ dev = [d \in Devices |-> NoDevice]

Next ==
  \/ \E a \in Adapters : AdapterAppears(a) \/ AdapterGoes(a)
  \/ \E d \in Devices : \/ DeviceAppears(d) \/ DeviceGoes(d) \/ BatteryChanges(d) \/ ConnectionChanges(d)
                        \/ Connect(d) \/ Disconnect(d) \/ Pair(d) \/ CancelPair(d)
  \/ BluezHandles \/ Handle

-----------------------------------------------------------------------------
\* No list has a device or adapter that is gone or twice, a device is with its adapter and
\* no other, and the default adapter is one of those (bluez.cpp:67, :130).
ListsAgree ==
  /\ IsInjective(listed.adapters) /\ IsInjective(listed.devices)
  /\ listed.default = IF listed.adapters = <<>> THEN None ELSE Head(listed.adapters)
  /\ \A d \in Devices : dev[d].alive <=> d \in ToSet(listed.devices)
  /\ \A a \in Adapters : /\ IsInjective(listed.of[a])
                         /\ ToSet(listed.of[a]) = IF Lists(a) THEN ToSet(DevicesOf(a)) ELSE {}

\* At rest the shell has the adapters and devices of BlueZ, and a device shows whether it
\* is connected, with no call left over (device.cpp:88, :127, :166, :289).
MirrorsBluez ==
  btCalls = <<>> /\ btSignals = <<>> =>
    /\ ToSet(listed.adapters) = bluez.adapters /\ ToSet(listed.devices) = bluez.devices
    /\ \A d \in bluez.devices :
         /\ dev[d].connected = (d \in bluez.connected) /\ dev[d].state = Settled(dev[d].connected)
         /\ ~dev[d].pairing /\ dev[d].battery = (d \in bluez.battery)
=============================================================================
