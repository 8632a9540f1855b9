--------------------------------- MODULE BusMC ---------------------------------
(* What the shell shows of other programs, for TLC: PipeWire's nodes, links   *)
(* and volumes, media players, menus, BlueZ, UPower, the power profiles and   *)
(* NetworkManager.  They share no state: a behaviour explores one of them,    *)
(* and the others stay in their initial states.                               *)
EXTENDS Naturals, Sequences

CONSTANTS
  Explored,
  NodeIds, NodeNames, NoName, MaxWire, MaxTurns, MaxStarts,
  Sources, Sinks, Monitors, LinkIds, Nothing, MaxLinks,
  OnDevice, Alone, Volumes, Step, MaxSets, MaxBinds,
  Rates, Tracks, Positions, MaxPlayers, MaxTime, MaxPlayerActs,
  Adapters, Devices, MaxSignals, MaxBluezActs,
  PowerDevices, DeviceObjs, MaxPowerActs, ExtraProfiles, MaxProfileActs,
  Ids, ItemObjs, Openers, MaxMenuActs,
  NetPaths, NetObjs, MaxNetActs, Points, Profiles, MaxWifiActs

VARIABLES which,
  daemon, stirred, wire, asks, conn, reg, defs, turns,
  link, group, held, linksOf, appeared, dropped,
  daemonVolumes, subscribed, out, in, node, device, sets, binds, forgotten,
  media, calls, signals, now, watcher, player, acts, lost,
  bluez, btCalls, btSignals, listed, dev, btActs,
  upower, upCalls, upSignals, power, powerObj, powerActs, returned,
  ppd, ppCalls, ppSignals, profiles, profileActs, ppRefused,
  program, menuCalls, menuSignals, handle, menu, menuActs, patched,
  nm, nmCalls, nmSignals, backend, netObj, netActs, twice,
  wifi, wifiCalls, wifiSignals, radio, nets, wifiActs, unscanned,
  caps, adhoc, privacy, apWpa, apRsn

\* Every device is that of one adapter, and every point and profile of one network.
Of     == [d \in Devices |-> CHOOSE a \in Adapters : TRUE]
SsidOf == [x \in Points \cup Profiles |-> "ssid"]
\* A profile is protected by Sae, the others are open to all (wifi.hpp:22).
Strength == [c \in Profiles |-> IF c = CHOOSE d \in Profiles : TRUE THEN 1 ELSE 10]
\* Devices without RSN, with it, and with all; flags of one cipher.
DeviceCaps == {{"Wpa", "Ccmp"}, {"Rsn", "Ccmp"}, {"Wpa", "Rsn", "IbssRsn", "Ccmp"}}
Cipher     == {<<"Pair", "Ccmp">>, <<"Group", "Ccmp">>}
WpaFlags   == SUBSET (Cipher \cup {<<"KeyMgmt", k>> : k \in {"Psk", "8021x"}})
RsnFlags   == SUBSET (Cipher \cup {<<"KeyMgmt", k>> : k \in {"Psk", "Sae"}})

Registry == INSTANCE PipewireRegistry
Audio    == INSTANCE PipewireVolumes WITH None <- Nothing
Player   == INSTANCE Mpris WITH program <- media, MaxActs <- MaxPlayerActs
Blue     == INSTANCE Bluetooth WITH None <- Nothing, MaxActs <- MaxBluezActs
Up       == INSTANCE UPower WITH NoDeviceObj <- Nothing
Menu     == INSTANCE DBusMenu
Wifi     == INSTANCE Wireless WITH Nil <- Nothing, NoNetObj <- Nothing

regVars      == <<daemon, stirred, wire, asks, conn, reg, defs, turns>>
linkVars     == <<link, group, held, linksOf, appeared, dropped>>
volumeVars   == <<daemonVolumes, subscribed, out, in, node, device, sets, binds, forgotten>>
playerVars   == <<media, calls, signals, now, watcher, player, acts, lost>>
blueVars     == <<bluez, btCalls, btSignals, listed, dev, btActs>>
upVars       == <<upower, upCalls, upSignals, power, powerObj, powerActs, returned>>
ppdVars      == <<ppd, ppCalls, ppSignals, profiles, profileActs, ppRefused>>
menuVars     == <<program, menuCalls, menuSignals, handle, menu, menuActs, patched>>
netVars      == <<nm, nmCalls, nmSignals, backend, netObj, netActs, twice>>
wifiVars     == <<wifi, wifiCalls, wifiSignals, radio, nets, wifiActs, unscanned>>
securityVars == <<caps, adhoc, privacy, apWpa, apRsn>>
soundVars    == <<regVars, linkVars, volumeVars, playerVars>>
otherVars    == <<blueVars, upVars, ppdVars, menuVars, netVars, wifiVars, securityVars>>
vars         == <<which, soundVars, otherVars>>

Init ==
  /\ which \in Explored
  /\ Registry!Init /\ Registry!InitLinks /\ Audio!Init /\ Player!Init /\ Menu!Init
  /\ Blue!Init     /\ (which # "bluetooth" => bluez.adapters = {})
  /\ Up!Init       /\ (which # "upower" => ~upower.runs /\ upower.devices = {})
  /\ Up!InitProfiles      /\ (which # "profiles" => ~ppd.runs /\ "performance" \in ppd.has /\ ppd.has \subseteq Up!Enum)
  /\ Wifi!InitDevices /\ (which # "devices" => \A p \in NetPaths : nm[p] = Wifi!Gone)
  /\ Wifi!Init     /\ (which # "wireless" => wifi.points = {} /\ wifi.profiles = {})
  /\ Wifi!InitSecurity /\ (which # "security" => ~adhoc /\ ~privacy /\ caps = {"Wpa", "Ccmp"})

\* One part steps, and the others are as they were.
Sound ==
  /\ UNCHANGED <<which, otherVars>>
  /\ \/ which = "registry" /\ Registry!Next /\ UNCHANGED <<linkVars, volumeVars, playerVars>>
     \/ which = "links"    /\ Registry!NextLinks  /\ UNCHANGED <<regVars, volumeVars, playerVars>>
     \/ which = "volumes"  /\ Audio!Next    /\ UNCHANGED <<regVars, linkVars, playerVars>>
     \/ which = "player"   /\ Player!Next   /\ UNCHANGED <<regVars, linkVars, volumeVars>>
Other ==
  /\ UNCHANGED <<which, soundVars>>
  /\ \/ which = "bluetooth" /\ Blue!Next /\ UNCHANGED <<upVars, ppdVars, menuVars, netVars, wifiVars, securityVars>>
     \/ which = "upower"    /\ Up!Next   /\ UNCHANGED <<blueVars, ppdVars, menuVars, netVars, wifiVars, securityVars>>
     \/ which = "profiles"  /\ Up!NextProfiles  /\ UNCHANGED <<blueVars, upVars, menuVars, netVars, wifiVars, securityVars>>
     \/ which = "menu"      /\ Menu!Next /\ UNCHANGED <<blueVars, upVars, ppdVars, netVars, wifiVars, securityVars>>
     \/ which = "devices"   /\ Wifi!NextDevices /\ UNCHANGED <<blueVars, upVars, ppdVars, menuVars, wifiVars, securityVars>>
     \/ which = "wireless"  /\ Wifi!Next /\ UNCHANGED <<blueVars, upVars, ppdVars, menuVars, netVars, securityVars>>
     \/ which = "security"  /\ Wifi!NextSecurity /\ UNCHANGED <<blueVars, upVars, ppdVars, menuVars, netVars, wifiVars>>
Next == Sound \/ Other

Spec == Init /\ [][Next]_vars

-----------------------------------------------------------------------------
\* The properties of the modules, stated there.

\* What the shell refers to exists, is listed once, and is held by those that hold it
\* (PipewireRegistry, PipewireVolumes, Mpris, Bluetooth, UPower, DBusMenu, Wireless).
PointersHold ==
  CASE which = "registry"  -> Registry!DefaultsExist
    [] which = "links"     -> Registry!PointersHold /\ Registry!HeldIsBound
    [] which = "volumes"   -> Audio!WaitsForDevice
    [] which = "player"    -> Player!ShownPlayersExist
    [] which = "bluetooth" -> Blue!ListsAgree
    [] which = "upower"    -> Up!DevicesListedReady
    [] which = "menu"      -> Menu!MenuHolds /\ Menu!OpenersAreCounted
    [] which = "devices"   -> Wifi!NetDevicesHold
    [] which = "wireless"  -> Wifi!NetworksHold
    [] OTHER               -> TRUE

\* At rest the shell has PipeWire's nodes and defaults, the links of a node, and the volumes.
AudioIsMirrored ==
  /\ which = "registry" => Registry!MirrorsDaemon
  /\ which = "links"    => Registry!ShowsLinks
  /\ which = "volumes"  => Audio!ShowsVolumes

\* At rest the shell shows a media player with its state and position, a menu with its items,
\* the devices and networks of BlueZ, UPower and NetworkManager, the power profile, and the
\* security of an access point.
ProgramsAreMirrored ==
  CASE which = "player"    -> Player!ShowsPosition
    [] which = "menu"      -> Menu!ShowsMenu
    [] which = "bluetooth" -> Blue!MirrorsBluez
    [] which = "upower"    -> Up!ListsPowerDevices
    [] which = "profiles"  -> Up!ShowsProfile
    [] which = "devices"   -> Wifi!ShowsNetDevices
    [] which = "wireless"  -> Wifi!ShowsNetworks
    [] which = "security"  -> Wifi!SecurityIsTold
    [] OTHER               -> TRUE

\* What an access point announces in addition makes it look no weaker.
SecurityOnlyGrows == Wifi!SecurityOnlyGrows
=============================================================================
