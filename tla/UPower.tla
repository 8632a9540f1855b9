-------------------------------- MODULE UPower --------------------------------
(* src/src/services/upower.  The power devices of UPower, another program:   *)
(* the shell starts it if it has to, listens for devices, asks which there   *)
(* are, and lists each once its properties are here.  And power profiles:    *)
(* their daemon, another program again, has some of which one is active; the *)
(* shell starts it too, shows what it tells and sets the profile, which it   *)
(* shows at once.  The two share no state.                                   *)
EXTENDS Naturals, Sequences, FiniteSets, SequencesExt, ObjectModel

CONSTANTS
  PowerDevices,  \* paths
  DeviceObjs,    \* UPowerDevice objects
  NoDeviceObj,   \* a null pointer
  MaxPowerActs,  \* bound: devices that come and go
  ExtraProfiles,  \* profiles of the daemon that the shell has no name for
  MaxProfileActs  \* bound: changes by the daemon and by the user

VARIABLES
  upower,        \* whether it runs, its devices, whether it can be started
  upCalls,       \* calls to it
  upSignals,     \* replies and signals from it
  power,         \* UPower: its state, mDevices, readyDevices, the display device
  powerObj,      \* UPowerDevice: path and bReady; the path is None for one that is not made
  powerActs,     \* bound
  returned,      \* history: devices that went and came back while their properties were asked
  ppd,        \* whether it runs, its profiles, the active one
  ppCalls,    \* calls to it
  ppSignals,  \* replies and PropertiesChanged from it
  profiles,   \* PowerProfiles: its state, bProfiles, bProfile
  profileActs,\* bound
  ppRefused   \* history: the daemon refused the last profile, and told of none since

upowerVars == <<upower, upCalls, upSignals, power, powerObj, powerActs, returned>>
profileVars == <<ppd, ppCalls, ppSignals, profiles, profileActs, ppRefused>>

Message(kind, path, obj) == [kind |-> kind, path |-> path, obj |-> obj]

-----------------------------------------------------------------------------
(* UPower (external): it answers in order, with an error for a device that   *)
(* is gone, and the bus keeps the order of its signals and answers.          *)

\* The shell is to ask, or has asked, for the properties of a device.
AskedFor(p) ==
  \/ \E i \in DOMAIN upCalls : upCalls[i].kind = "GetAll" /\ upCalls[i].path = p
  \/ Message("added", p, NoDeviceObj) \in ToSet(upSignals)
  \/ \E m \in ToSet(upSignals) : m.kind = "devices" /\ p \in ToSet(m.paths)

DeviceComes(p) ==
  /\ upower.runs /\ p \notin upower.devices /\ powerActs < MaxPowerActs /\ powerActs' = powerActs + 1
  /\ upower' = [upower EXCEPT !.devices = @ \cup {p}]
  /\ upSignals' = IF power.state = "ready" THEN Append(upSignals, Message("added", p, NoDeviceObj)) ELSE upSignals
  /\ returned' = IF AskedFor(p) THEN returned \cup {p} ELSE returned
  /\ UNCHANGED <<upCalls, power, powerObj>>

DeviceLeaves(p) ==
  /\ p \in upower.devices /\ powerActs < MaxPowerActs /\ powerActs' = powerActs + 1
  /\ upower' = [upower EXCEPT !.devices = @ \ {p}]
  /\ upSignals' = IF power.state = "ready" THEN Append(upSignals, Message("removed", p, NoDeviceObj)) ELSE upSignals
  /\ UNCHANGED <<upCalls, power, powerObj, returned>>

UPowerAnswers ==
  /\ upCalls # <<>> /\ upCalls' = Tail(upCalls)
  /\ LET c == Head(upCalls) IN
       \/ /\ c.kind = "Start"
          /\ \E ok \in BOOLEAN : /\ upower' = [upower EXCEPT !.runs = ok]
                                 /\ upSignals' = Append(upSignals, [kind |-> "started", ok |-> ok])
       \/ /\ c.kind = "GetDisplayDevice" /\ UNCHANGED upower
          /\ \E ok \in BOOLEAN : upSignals' = Append(upSignals, [kind |-> "display", ok |-> ok])
       \/ /\ c.kind = "Enumerate" /\ UNCHANGED upower
          /\ \E order \in SetToSeqs(upower.devices) :
               upSignals' = Append(upSignals, [kind |-> "devices", paths |-> order])
       \/ /\ c.kind = "GetAll" /\ UNCHANGED upower
          /\ upSignals' = IF c.path \in upower.devices
                          THEN Append(upSignals, Message("all", c.path, c.obj)) ELSE upSignals
  /\ UNCHANGED <<power, powerObj, powerActs, returned>>

-----------------------------------------------------------------------------
(* The shell *)

\* UPower::init(): listen, then ask for the display device and for all devices.
Asks == <<Message("GetDisplayDevice", NoDeviceObj, NoDeviceObj), Message("Enumerate", NoDeviceObj, NoDeviceObj)>>

\* UPower::UPower().
StartUp ==
  /\ power.state = "new"
  /\ IF upower.runs
     THEN power' = [power EXCEPT !.state = "ready"] /\ upCalls' = Asks
     ELSE power' = [power EXCEPT !.state = "starting"] /\ upCalls' = <<Message("Start", NoDeviceObj, NoDeviceObj)>>
  /\ UNCHANGED <<upower, upSignals, powerObj, powerActs, returned>>

\* tryLaunchService()'s answer.
Launched(ok) ==
  /\ power' = [power EXCEPT !.state = IF ok THEN "ready" ELSE "failed"]
  /\ upCalls' = IF ok THEN upCalls \o Asks ELSE upCalls
  /\ UNCHANGED powerObj

\* Paths in the order given, each with an object that is not used.
Fresh(paths) == {f \in [ToSet(paths) -> {o \in DeviceObjs : powerObj[o].path = NoDeviceObj}] : IsInjective(f)}

\* Mutant: a path gets an object each time it is told.
RegisterAgain(paths) ==
  \E f \in {CHOOSE g \in Fresh(paths) : TRUE} :
    /\ power' = [power EXCEPT !.devices = [p \in PowerDevices |-> IF p \in ToSet(paths) THEN f[p] ELSE @[p]]]
    /\ powerObj' = [o \in DeviceObjs |->
                      IF \E p \in ToSet(paths) : f[p] = o
                      THEN [path |-> CHOOSE p \in ToSet(paths) : f[p] = o, ready |-> FALSE] ELSE powerObj[o]]
    /\ upCalls' = upCalls \o [i \in DOMAIN paths |-> Message("GetAll", paths[i], f[paths[i]])]
\* registerDevice(), for each path that is not registered.
RegisterDevices(paths) ==
  LET new == SelectSeq(paths, LAMBDA p : power.devices[p] = NoDeviceObj) IN
    \E f \in {CHOOSE g \in Fresh(new) : TRUE} :
      /\ power' = [power EXCEPT !.devices = [p \in PowerDevices |-> IF p \in ToSet(new) THEN f[p] ELSE @[p]]]
      /\ powerObj' = [o \in DeviceObjs |->
                        IF \E p \in ToSet(new) : f[p] = o
                        THEN [path |-> CHOOSE p \in ToSet(new) : f[p] = o, ready |-> FALSE] ELSE powerObj[o]]
      /\ upCalls' = upCalls \o [i \in DOMAIN new |-> Message("GetAll", new[i], f[new[i]])]

\* onDeviceRemoved(): the object is forgotten, not deleted.
OnDeviceRemoved(p) ==
  /\ power' = IF power.devices[p] = NoDeviceObj THEN power
              ELSE [power EXCEPT !.devices[p] = NoDeviceObj, !.ready = RemoveObject(@, power.devices[p])]
  /\ UNCHANGED <<upCalls, powerObj>>

\* onGetAllFinished(), readyChanged(), UPower::onDeviceReady().
OnDeviceReady(o) ==
  /\ powerObj' = [powerObj EXCEPT ![o].ready = TRUE]
  /\ power' = IF powerObj[o].ready THEN power ELSE [power EXCEPT !.ready = AppendObject(@, o)]
  /\ UNCHANGED upCalls

HearUPower ==
  /\ upSignals # <<>> /\ upSignals' = Tail(upSignals)
  /\ LET m == Head(upSignals) IN
       CASE m.kind = "started" -> Launched(m.ok)
         [] m.kind = "display" -> /\ power' = [power EXCEPT !.display = m.ok] /\ UNCHANGED <<upCalls, powerObj>>
         [] m.kind = "devices" -> RegisterDevices(m.paths)
         [] m.kind = "added"   -> RegisterDevices(<<m.path>>)
         [] m.kind = "removed" -> OnDeviceRemoved(m.path)
         [] m.kind = "all"     -> OnDeviceReady(m.obj)
  /\ UNCHANGED <<upower, powerActs, returned>>

-----------------------------------------------------------------------------
Init ==
  /\ upower \in [runs : BOOLEAN, devices : SUBSET PowerDevices] /\ (upower.devices # {} => upower.runs)
  /\ upCalls = <<>> /\ upSignals = <<>> /\ powerActs = 0 /\ returned = {}
  /\ power = [state |-> "new", devices |-> [p \in PowerDevices |-> NoDeviceObj], ready |-> <<>>, display |-> FALSE]
  /\ powerObj = [o \in DeviceObjs |-> [path |-> NoDeviceObj, ready |-> FALSE]]

Next ==
  \/ \E p \in PowerDevices : DeviceComes(p) \/ DeviceLeaves(p)
  \/ UPowerAnswers \/ StartUp \/ HearUPower

-----------------------------------------------------------------------------
\* No object is listed twice, each registered object is that of its path, and none is
\* listed before its properties came (core.cpp:131, :137).
DevicesListedReady ==
  /\ IsInjective(power.ready)
  /\ \A i \in DOMAIN power.ready : powerObj[power.ready[i]].ready
  /\ \A p \in PowerDevices : power.devices[p] # NoDeviceObj => powerObj[power.devices[p]].path = p

\* At rest the list has the devices of UPower, each once, whichever of the answer to
\* EnumerateDevices and the signals told of them first: unless one went and came back
\* while its properties were on their way (core.cpp:84, :115, :117, :131).
ListsPowerDevices ==
  upCalls = <<>> /\ upSignals = <<>> /\ power.state = "ready" /\ returned = {} =>
    /\ {powerObj[power.ready[i]].path : i \in DOMAIN power.ready} = upower.devices
    /\ Len(power.ready) = Cardinality(upower.devices)

-----------------------------------------------------------------------------
\* PowerProfile::Enum.
Enum == {"power-saver", "balanced", "performance"}
\* What the daemon may have: the first two always ("performance" is the driver's).
Offers == {{"power-saver", "balanced"} \cup x : x \in SUBSET ({"performance"} \cup ExtraProfiles)}

All == [ActiveProfile |-> ppd.active, Profiles |-> ppd.has]

-----------------------------------------------------------------------------
(* The daemon of the power profiles (external)                               *)

\* The driver changes what it can do; a profile that is lost is not active any more.
DaemonChanges ==
  /\ ppd.runs /\ profileActs < MaxProfileActs /\ profileActs' = profileActs + 1
  /\ \E has \in Offers, active \in Enum \cup ExtraProfiles :
       /\ active \in has /\ <<has, active>> # <<ppd.has, ppd.active>>
       /\ ppd' = [ppd EXCEPT !.has = has, !.active = active]
  /\ ppSignals' = IF profiles.state = "ready" THEN Append(ppSignals, All') ELSE ppSignals
  /\ UNCHANGED <<ppCalls, profiles, ppRefused>>

DaemonAnswers ==
  /\ ppCalls # <<>> /\ ppCalls' = Tail(ppCalls)
  /\ LET c == Head(ppCalls) IN
       \/ /\ c = "Start"
          /\ \E ok \in BOOLEAN : /\ ppd' = [ppd EXCEPT !.runs = ok]
                                 /\ ppSignals' = Append(ppSignals, [started |-> ok])
          /\ UNCHANGED ppRefused
       \/ c = "GetAll" /\ ppSignals' = Append(ppSignals, All) /\ UNCHANGED <<ppd, ppRefused>>
       \/ /\ c \in Enum
          /\ IF c \in ppd.has
             THEN /\ ppd' = [ppd EXCEPT !.active = c]
                  /\ ppSignals' = IF c = ppd.active THEN ppSignals
                                  ELSE Append(ppSignals, [ActiveProfile |-> c])
                  /\ UNCHANGED ppRefused
             ELSE ppRefused' = TRUE /\ UNCHANGED <<ppd, ppSignals>>
  /\ UNCHANGED <<profiles, profileActs>>

-----------------------------------------------------------------------------
(* The shell's PowerProfiles                                                 *)

\* init(): updateAllViaGetAll().
StartProfiles ==
  /\ profiles.state = "new"
  /\ profiles' = [profiles EXCEPT !.state = IF ppd.runs THEN "ready" ELSE "starting"]
  /\ ppCalls' = IF ppd.runs THEN <<"GetAll">> ELSE <<"Start">>
  /\ UNCHANGED <<ppd, ppSignals, profileActs, ppRefused>>

HasPerformanceProfile == "performance" \in profiles.known

\* setProfile()
SetProfile(p) ==
  /\ profiles.state = "ready" /\ (p = "performance" => HasPerformanceProfile)
  /\ profileActs < MaxProfileActs /\ profileActs' = profileActs + 1
  /\ profiles' = [profiles EXCEPT !.shown = p]
  /\ ppCalls' = Append(ppCalls, p)
  /\ UNCHANGED <<ppd, ppSignals, ppRefused>>

\* fromWire(): a profile, and a list of profiles, of which none may be unknown.
FromWire(p, old) == IF p \in Enum THEN p ELSE old
ListFromWire(has, old) == IF has \subseteq Enum THEN has ELSE old

HearDaemon ==
  /\ ppSignals # <<>> /\ ppSignals' = Tail(ppSignals)
  /\ LET m == Head(ppSignals) IN
       IF "started" \in DOMAIN m
       THEN /\ profiles' = [profiles EXCEPT !.state = IF m.started THEN "ready" ELSE "failed"]
            /\ ppCalls' = IF m.started THEN Append(ppCalls, "GetAll") ELSE ppCalls
            /\ UNCHANGED ppRefused
       ELSE /\ profiles' = [profiles EXCEPT
                              !.shown = FromWire(m.ActiveProfile, @),
                              !.known = IF "Profiles" \in DOMAIN m THEN ListFromWire(m.Profiles, @) ELSE @]
            /\ ppRefused' = FALSE /\ UNCHANGED ppCalls
  /\ UNCHANGED <<ppd, profileActs>>

-----------------------------------------------------------------------------
InitProfiles ==
  /\ ppd \in [runs : BOOLEAN, has : Offers, active : {"balanced"}]
  /\ ppCalls = <<>> /\ ppSignals = <<>> /\ profileActs = 0 /\ ppRefused = FALSE
  /\ profiles = [state |-> "new", known |-> {}, shown |-> "balanced"]

NextProfiles == DaemonChanges \/ DaemonAnswers \/ StartProfiles \/ HearDaemon \/ \E p \in Enum : SetProfile(p)

-----------------------------------------------------------------------------
\* At rest the shell shows the daemon's profile, unless that has no name here or the daemon
\* refused the last that was set; and knows whether there is a performance profile, unless
\* the daemon has a profile without a name (powerprofiles.cpp:106, :155, :176).
ShowsProfile ==
  ppCalls = <<>> /\ ppSignals = <<>> /\ profiles.state = "ready" =>
    /\ ppd.active \in Enum /\ ~ppRefused => profiles.shown = ppd.active
    /\ ppd.has \subseteq Enum => (HasPerformanceProfile <=> "performance" \in ppd.has)
=============================================================================
