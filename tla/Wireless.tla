------------------------------- MODULE Wireless -------------------------------
(* NetworkManager, another program, and what src/src/network shows of it.     *)
(* Of each path of a device the shell hears of, it asks the type; of a wifi   *)
(* device it makes an object that asks its properties, and shows it while     *)
(* NetworkManager manages it (nm/backend.cpp, network.cpp).  A wifi device    *)
(* has networks (nm/wireless.cpp, device.cpp, connection.cpp,                 *)
(* accesspoint.cpp): NetworkManager tells paths of access points, connections *)
(* and the active connection; each gets an object that asks for its           *)
(* properties and joins the network of its SSID when they are here.  And the  *)
(* security shown for an access point, by findBestWirelessSecurity()          *)
(* (utils.cpp), from the capabilities of the device and the flags the access  *)
(* point announces, which may change.  The three share no state.              *)
EXTENDS FiniteSets, Naturals, ObjectModel, Sequences, SequencesExt, TLAPS

CONSTANTS
  Points,      \* paths of access points
  Profiles,    \* paths of connections
  SsidOf,      \* the network of each access point and connection
  Strength,    \* WifiSecurityType of each connection: 0 is the strongest
  Nil,         \* a null pointer, the path "/"
  MaxWifiActs, \* bound: what NetworkManager and the user do
  DeviceCaps,  \* sets of NMWirelessCapabilities
  WpaFlags,    \* sets of NM80211ApSecurityFlags announced for WPA
  RsnFlags,    \* sets of NM80211ApSecurityFlags announced for RSN
  NetPaths,   \* paths of devices
  NetObjs,    \* NMDevice objects; the device shown has the same number
  NoNetObj,   \* a null pointer
  MaxNetActs  \* bound: changes by NetworkManager

VARIABLES
  wifi,        \* NetworkManager: access points, available connections, the active connection
  wifiCalls,   \* calls to it
  wifiSignals, \* replies and signals from it
  radio,       \* NMWirelessDevice: mAccessPoints, mConnections, mActiveConnection, scanning
  nets,        \* mNetworks by SSID, and mFrontendNetworks
  wifiActs,    \* bound
  unscanned,   \* history: scanning was wished before the device was ready for it
  caps, adhoc, privacy, apWpa, apRsn,  \* of the device, and what an access point announces
  nm,         \* its devices: type, whether managed
  nmCalls,    \* calls to it
  nmSignals,  \* replies and signals from it
  backend,    \* NetworkManager: mDevices (paths known, object), mFrontendDevices, and the list shown
  netObj,     \* NMDevice: path, managed, whether it is there
  netActs,    \* bound
  twice       \* history: a path was asked for its type while it was being asked, or its properties were

wirelessVars == <<wifi, wifiCalls, wifiSignals, radio, nets, wifiActs, unscanned>>
securityVars == <<caps, adhoc, privacy, apWpa, apRsn>>
networkVars == <<nm, nmCalls, nmSignals, backend, netObj, netActs, twice>>

Ssids == {SsidOf[x] : x \in Points \cup Profiles}
WMsg(kind, path, value) == [kind |-> kind, path |-> path, value |-> value]

-----------------------------------------------------------------------------
(* NMWirelessNetwork                                                         *)

NoNet == [exists |-> FALSE, points |-> {}, profiles |-> {}, refPoint |-> Nil, refProfile |-> Nil,
          active |-> Nil, known |-> FALSE, activated |-> FALSE, shown |-> FALSE]

\* updateReferenceConnection(): the active connection's, or the first of the largest
\* security, whose number is that of the weakest.
UpdateReferenceConnection(n) ==
  IF n.profiles = {} THEN {[n EXCEPT !.refProfile = Nil]}
  ELSE IF n.active # Nil
  THEN {[n EXCEPT !.refProfile = IF n.active.profile \in n.profiles THEN n.active.profile ELSE @]}
  ELSE {[n EXCEPT !.refProfile = c] : c \in {d \in n.profiles : \A e \in n.profiles : Strength[d] >= Strength[e]}}

\* updateReferenceAp(), from any order of signal strengths.
UpdateReferencePoint(n) ==
  IF n.points = {} THEN {[n EXCEPT !.refPoint = Nil]} ELSE {[n EXCEPT !.refPoint = p] : p \in n.points}

\* bVisible, registerFrontendNetwork(), removeFrontendNetwork(), and disappeared().
Visible(n) == radio.scanning \/ n.activated \/ n.known
Shown(n) == IF n.points = {} /\ n.profiles = {} THEN NoNet ELSE [n EXCEPT !.shown = Visible(n)]

AddPoint(n, p) == {[m EXCEPT !.exists = TRUE] : m \in UpdateReferencePoint([n EXCEPT !.points = @ \cup {p}])}
DropPoint(n, p) == IF p \in n.points THEN UpdateReferencePoint([n EXCEPT !.points = @ \ {p}]) ELSE {n}
AddProfile(n, c) ==
  UpdateReferenceConnection([n EXCEPT !.exists = TRUE, !.profiles = @ \cup {c}, !.known = TRUE])
DropProfile(n, c) ==
  IF c \notin n.profiles THEN {n}
  ELSE {[m EXCEPT !.known = m.profiles # {}] :
          m \in UpdateReferenceConnection([n EXCEPT !.profiles = @ \ {c}])}
AddActive(n, a) ==
  IF n.active # Nil THEN {n}
  ELSE UpdateReferenceConnection([n EXCEPT !.active = [id |-> a.id, profile |-> a.profile], !.activated = a.activated])
DropActive(n, id) ==
  IF n.active = Nil \/ n.active.id # id THEN {n}
  ELSE {[m EXCEPT !.activated = FALSE] : m \in UpdateReferenceConnection([n EXCEPT !.active = Nil])}

-----------------------------------------------------------------------------
(* NetworkManager (external)                                                 *)

WifiAct(w, told) ==
  /\ wifiActs < MaxWifiActs /\ wifiActs' = wifiActs + 1
  /\ wifi' = w /\ wifiSignals' = wifiSignals \o told
  /\ UNCHANGED <<wifiCalls, radio, nets, unscanned>>

PointAppears(p) ==
  p \notin wifi.points /\ WifiAct([wifi EXCEPT !.points = @ \cup {p}], <<WMsg("apAdded", p, 0)>>)
PointGoes(p) ==
  p \in wifi.points /\ WifiAct([wifi EXCEPT !.points = @ \ {p}], <<WMsg("apRemoved", p, 0)>>)

\* The active connection is available; it ends before it gets unavailable.
ProfileChanges(c) ==
  /\ (wifi.active # Nil => wifi.active.profile # c)
  /\ LET now == IF c \in wifi.profiles THEN wifi.profiles \ {c} ELSE wifi.profiles \cup {c}
     IN WifiAct([wifi EXCEPT !.profiles = now], <<WMsg("available", Nil, now)>>)

Activates(c) ==
  /\ c \in wifi.profiles
  /\ LET a == [id |-> wifi.ids + 1, profile |-> c, activated |-> FALSE]
     IN WifiAct([wifi EXCEPT !.active = a, !.ids = @ + 1], <<WMsg("active", Nil, a.id)>>)
Activated ==
  /\ wifi.active # Nil /\ ~wifi.active.activated
  /\ WifiAct([wifi EXCEPT !.active.activated = TRUE], <<WMsg("state", Nil, wifi.active.id)>>)
Deactivates ==
  /\ wifi.active # Nil /\ WifiAct([wifi EXCEPT !.active = Nil], <<WMsg("active", Nil, Nil)>>)

\* Calls in their order; one for an object that is gone fails.
WifiAnswers ==
  /\ wifiCalls # <<>> /\ wifiCalls' = Tail(wifiCalls)
  /\ LET c == Head(wifiCalls) IN
       wifiSignals' = wifiSignals \o
         (CASE c.kind = "device"   -> <<WMsg("available", Nil, wifi.profiles)>> \o
                                      (IF wifi.active = Nil THEN <<>> ELSE <<WMsg("active", Nil, wifi.active.id)>>)
            [] c.kind = "wireless" -> <<WMsg("wireless", Nil, 0)>>
            [] c.kind = "points"   -> <<WMsg("points", Nil, wifi.points)>>
            [] c.kind = "point"    -> IF c.path \in wifi.points THEN <<WMsg("pointProps", c.path, c.value)>> ELSE <<>>
            [] c.kind = "profile"  -> <<WMsg("settings", c.path, c.value)>>
            [] c.kind = "active"   -> IF wifi.active # Nil /\ wifi.active.id = c.value
                                      THEN <<WMsg("activeProps", Nil, wifi.active)>> ELSE <<>>)
  /\ UNCHANGED <<wifi, radio, nets, wifiActs, unscanned>>

-----------------------------------------------------------------------------
(* The shell: each change of the device, then of one network                 *)

Asks(new) == wifiCalls' = wifiCalls \o new

\* A network after one of its changes is taken over, and shown if it is visible.
Becomes(ssid, results) == \E n \in results : nets' = [nets EXCEPT ![ssid] = Shown(n)]

\* initWireless(): only now do loaded objects and the scanner have an effect.
InitWireless ==
  /\ radio' = [radio EXCEPT !.ready = TRUE] /\ Asks(<<WMsg("points", Nil, 0)>>)
  /\ UNCHANGED <<nets, unscanned>>

\* registerAccessPoint(), by signal or by the list.
RegisterPoints(new) ==
  LET fresh == SetToSeq({p \in new : radio.points[p] = 0}) IN
  /\ radio' = [radio EXCEPT !.points = [p \in Points |-> IF p \in ToSet(fresh) THEN radio.objects + 1 ELSE @[p]],
                            !.objects = IF fresh = <<>> THEN @ ELSE @ + 1]
  /\ Asks([i \in DOMAIN fresh |-> WMsg("point", fresh[i], radio.objects + 1)])
  /\ UNCHANGED <<nets, unscanned>>
RemovePoint(p) ==
  /\ radio' = [radio EXCEPT !.points[p] = 0]
  /\ Becomes(SsidOf[p], DropPoint(nets[SsidOf[p]], p))
  /\ UNCHANGED <<wifiCalls, unscanned>>
\* onAccessPointLoaded(), of an object that is still there.
PointLoaded(p, object) ==
  /\ IF radio.points[p] = object THEN Becomes(SsidOf[p], AddPoint(nets[SsidOf[p]], p)) ELSE UNCHANGED nets
  /\ UNCHANGED <<radio, wifiCalls, unscanned>>

\* onAvailableConnectionPathsChanged()
OnAvailable(paths) ==
  LET fresh == SetToSeq({c \in paths : radio.profiles[c] = 0})
      gone  == {c \in Profiles \ paths : radio.profiles[c] # 0}
      After(n, ssid) == FoldLeft(LAMBDA ms, c : UNION {DropProfile(m, c) : m \in ms},
                                 {n}, SetToSeq({c \in gone : SsidOf[c] = ssid}))
  IN /\ radio' = [radio EXCEPT
                    !.profiles = [c \in Profiles |-> IF c \in gone THEN 0
                                                     ELSE IF c \in ToSet(fresh) THEN radio.objects + 1 ELSE @[c]],
                    !.objects = IF fresh = <<>> THEN @ ELSE @ + 1]
     /\ Asks([i \in DOMAIN fresh |-> WMsg("profile", fresh[i], radio.objects + 1)])
     /\ \E new \in [Ssids -> UNION {After(nets[s], s) : s \in Ssids}] :
          /\ \A s \in Ssids : new[s] \in After(nets[s], s)
          /\ nets' = [s \in Ssids |-> Shown(new[s])]
     /\ UNCHANGED unscanned
\* onConnectionLoaded(): the network, and the active connection if it is this one's.
ProfileLoaded(c, object) ==
  /\ IF radio.profiles[c] # object \/ ~radio.ready THEN UNCHANGED nets
     ELSE Becomes(SsidOf[c], UNION {IF radio.active # Nil /\ radio.active.profile = c
                                    THEN AddActive(n, radio.active) ELSE {n} : n \in AddProfile(nets[SsidOf[c]], c)})
  /\ UNCHANGED <<radio, wifiCalls, unscanned>>

\* onActiveConnectionPathChanged(): the old object is deleted, a new one asks.
OnActivePath(id) ==
  /\ radio' = [radio EXCEPT !.active = IF id = Nil THEN Nil ELSE [id |-> id, profile |-> Nil, activated |-> FALSE]]
  /\ IF id = Nil THEN UNCHANGED wifiCalls ELSE Asks(<<WMsg("active", Nil, id)>>)
  /\ LET old == IF radio.active = Nil THEN 0 ELSE radio.active.id IN
       \E new \in [Ssids -> UNION {DropActive(nets[s], old) : s \in Ssids}] :
         /\ \A s \in Ssids : new[s] \in DropActive(nets[s], old)
         /\ nets' = [s \in Ssids |-> Shown(new[s])]
  /\ UNCHANGED unscanned
\* onActiveConnectionLoaded(): to the network that has its connection, if one has.
ActiveLoaded(a) ==
  /\ IF radio.active = Nil \/ radio.active.id # a.id THEN UNCHANGED <<radio, nets>>
     ELSE /\ radio' = [radio EXCEPT !.active = a]
          /\ IF radio.ready /\ a.profile \in nets[SsidOf[a.profile]].profiles
             THEN Becomes(SsidOf[a.profile], AddActive(nets[SsidOf[a.profile]], a)) ELSE UNCHANGED nets
  /\ UNCHANGED <<wifiCalls, unscanned>>
\* The state of the active connection, to which its network's is bound.
ActiveState(id) ==
  /\ IF radio.active = Nil \/ radio.active.id # id THEN UNCHANGED <<radio, nets>>
     ELSE /\ radio' = [radio EXCEPT !.active.activated = TRUE]
          /\ nets' = [s \in Ssids |-> IF nets[s].active # Nil /\ nets[s].active.id = id
                                      THEN Shown([nets[s] EXCEPT !.activated = TRUE]) ELSE nets[s]]
  /\ UNCHANGED <<wifiCalls, unscanned>>

HearWifi ==
  /\ wifiSignals # <<>> /\ wifiSignals' = Tail(wifiSignals)
  /\ LET m == Head(wifiSignals) IN
       CASE m.kind = "wireless"    -> InitWireless
         [] m.kind = "points"      -> RegisterPoints(m.value)
         [] m.kind = "apAdded"     -> IF radio.ready THEN RegisterPoints({m.path})
                                      ELSE UNCHANGED <<radio, nets, wifiCalls, unscanned>>
         [] m.kind = "apRemoved"   -> IF radio.ready /\ radio.points[m.path] # 0 THEN RemovePoint(m.path)
                                      ELSE UNCHANGED <<radio, nets, wifiCalls, unscanned>>
         [] m.kind = "pointProps"  -> PointLoaded(m.path, m.value)
         [] m.kind = "available"   -> OnAvailable(m.value)
         [] m.kind = "settings"    -> ProfileLoaded(m.path, m.value)
         [] m.kind = "active"      -> OnActivePath(m.value)
         [] m.kind = "activeProps" -> ActiveLoaded(m.value)
         [] m.kind = "state"       -> ActiveState(m.value)
  /\ UNCHANGED <<wifi, wifiActs>>

\* setScannerEnabled(), onScanningChanged(): the timer of scans starts or stops.
SetScanner(on) ==
  /\ wifiActs < MaxWifiActs /\ wifiActs' = wifiActs + 1 /\ on # radio.scanning
  /\ radio' = [radio EXCEPT !.scanning = on, !.timer = IF radio.ready THEN on ELSE @]
  /\ nets' = [s \in Ssids |-> IF nets[s].exists
                              THEN [nets[s] EXCEPT !.shown = on \/ nets[s].activated \/ nets[s].known] ELSE nets[s]]
  /\ unscanned' = IF radio.ready THEN FALSE ELSE on
  /\ UNCHANGED <<wifi, wifiCalls, wifiSignals>>

-----------------------------------------------------------------------------
Init ==
  /\ wifi \in [points : SUBSET Points, profiles : SUBSET Profiles, active : {Nil}, ids : {0}]
  /\ wifiCalls = <<WMsg("device", Nil, 0), WMsg("wireless", Nil, 0)>> /\ wifiSignals = <<>> /\ wifiActs = 0
  /\ radio = [ready |-> FALSE, points |-> [p \in Points |-> 0], profiles |-> [c \in Profiles |-> 0],
              objects |-> 0, active |-> Nil, scanning |-> FALSE, timer |-> FALSE]
  /\ nets = [s \in Ssids |-> NoNet] /\ unscanned = FALSE

Next ==
  \/ \E p \in Points : PointAppears(p) \/ PointGoes(p)
  \/ \E c \in Profiles : ProfileChanges(c) \/ Activates(c)
  \/ Activated \/ Deactivates \/ WifiAnswers \/ HearWifi
  \/ \E on \in BOOLEAN : SetScanner(on)

-----------------------------------------------------------------------------
\* A network references access points and connections that it has, it is there as long as it
\* has one, it is shown if it is known, connected or scanned for, and the scanner runs when
\* wished, unless that was before the device was ready (wireless.cpp:45, :113, :129, :361, :432).
NetworksHold ==
  /\ \A s \in Ssids : LET n == nets[s] IN
       /\ n.exists <=> n.points \cup n.profiles # {}
       /\ n.points \subseteq {p \in Points : radio.points[p] # 0}
       /\ n.profiles \subseteq {c \in Profiles : radio.profiles[c] # 0}
       /\ n.refPoint \in n.points \cup {Nil} /\ (n.refPoint = Nil <=> n.points = {})
       /\ n.refProfile = Nil <=> n.profiles = {}
       /\ n.active # Nil /\ radio.active # Nil => n.active.id = radio.active.id
       /\ n.known <=> n.profiles # {}
       /\ n.shown <=> n.exists /\ Visible(n)
       /\ n.refProfile \in n.profiles \cup {Nil}
  /\ ~unscanned /\ radio.ready => radio.timer = radio.scanning

\* At rest every network has the access points and connections of NetworkManager, and the
\* active connection's is connected (wireless.cpp:224, :236, :264, device.cpp:50, :79).
ShowsNetworks ==
  wifiCalls = <<>> /\ wifiSignals = <<>> =>
    \A s \in Ssids :
      /\ nets[s].points = {p \in wifi.points : SsidOf[p] = s}
      /\ nets[s].profiles = {c \in wifi.profiles : SsidOf[c] = s}
      /\ nets[s].activated = (wifi.active # Nil /\ SsidOf[wifi.active.profile] = s /\ wifi.active.activated)
      /\ wifi.active # Nil /\ SsidOf[wifi.active.profile] = s => nets[s].refProfile = wifi.active.profile

-----------------------------------------------------------------------------
(* The security of an access point                                           *)

\* WifiSecurityType, from the strongest on.
Types == <<"Wpa3SuiteB192", "Sae", "Wpa2Eap", "Wpa2Psk", "WpaEap", "WpaPsk", "StaticWep",
           "DynamicWep", "Leap", "Owe", "Open">>

\* deviceSupportsApCiphers(): a cipher that both have for the pair and one for the group.
DeviceSupportsApCiphers(flags, static) ==
  /\ static \/ \E c \in {"Wep40", "Wep104", "Tkip", "Ccmp"} : c \in caps /\ <<"Pair", c>> \in flags
  /\ \E c \in (IF static THEN {"Wep40", "Wep104"} ELSE {"Wep40", "Wep104", "Tkip", "Ccmp"}) :
       c \in caps /\ <<"Group", c>> \in flags

\* Mutant: the flags are compared as a whole, not masked.
OnlyKeyMgmt(k, flags) == {f \in flags : f[1] = "KeyMgmt"} = {<<"KeyMgmt", k>>}
KeyMgmt(k, flags) == <<"KeyMgmt", k>> \in flags
Pairwise(ciphers, flags) == \E c \in ciphers : c \in caps /\ <<"Pair", c>> \in flags
\* Of an ad hoc network only CCMP counts.
RsnWithKey(k) ==
  /\ "Rsn" \in caps
  /\ IF adhoc THEN "IbssRsn" \in caps /\ Pairwise({"Ccmp"}, apRsn)
     ELSE KeyMgmt(k, apRsn) /\ Pairwise({"Tkip", "Ccmp"}, apRsn)
Wep == /\ privacy
       /\ apWpa \cup apRsn # {} => DeviceSupportsApCiphers(apWpa, TRUE) \/ DeviceSupportsApCiphers(apRsn, TRUE)

\* securityIsValid()
SecurityIsValid(type) ==
  CASE type = "Open"       -> ~privacy /\ apWpa = {} /\ apRsn = {}
    [] type = "Leap"       -> ~adhoc /\ Wep
    [] type = "StaticWep"  -> Wep
    [] type = "DynamicWep" -> /\ ~adhoc /\ apRsn = {} /\ privacy
                              /\ apWpa # {} => KeyMgmt("8021x", apWpa) /\ DeviceSupportsApCiphers(apWpa, FALSE)
    [] type = "WpaPsk"     -> ~adhoc /\ "Wpa" \in caps /\ KeyMgmt("Psk", apWpa) /\ Pairwise({"Tkip", "Ccmp"}, apWpa)
    [] type = "Wpa2Psk"    -> RsnWithKey("Psk")
    [] type = "WpaEap"     -> ~adhoc /\ "Wpa" \in caps /\ KeyMgmt("8021x", apWpa) /\ DeviceSupportsApCiphers(apWpa, FALSE)
    [] type = "Wpa2Eap"    -> ~adhoc /\ "Rsn" \in caps /\ KeyMgmt("8021x", apRsn) /\ DeviceSupportsApCiphers(apRsn, FALSE)
    [] type = "Sae"        -> RsnWithKey("Sae")
    [] type = "Owe"        -> ~adhoc /\ "Rsn" \in caps /\ (KeyMgmt("Owe", apRsn) \/ KeyMgmt("OweTm", apRsn))
    [] type = "Wpa3SuiteB192" -> ~adhoc /\ "Rsn" \in caps /\ KeyMgmt("EapSuiteB192", apRsn)

\* findBestWirelessSecurity()
ValidTypes == {i \in DOMAIN Types : SecurityIsValid(Types[i])}
Best == IF ValidTypes = {} THEN "Unknown" ELSE Types[Min(ValidTypes)]
Rank(type) == IF type = "Unknown" THEN Len(Types) + 1 ELSE CHOOSE i \in DOMAIN Types : Types[i] = type

-----------------------------------------------------------------------------
InitSecurity == /\ caps \in DeviceCaps /\ adhoc \in BOOLEAN /\ privacy \in BOOLEAN
                /\ apWpa = {} /\ apRsn = {}

\* The access point announces others; bSecurity is computed anew.
FlagsChange == /\ apWpa' \in WpaFlags /\ apRsn' \in RsnFlags /\ privacy' \in BOOLEAN
               /\ UNCHANGED <<caps, adhoc>>

NextSecurity == FlagsChange

-----------------------------------------------------------------------------
\* A network that is protected never looks open, and what is shown needs a cipher that both
\* have (utils.cpp:99, :209).
SecurityIsTold ==
  /\ privacy \/ apWpa # {} \/ apRsn # {} => Best # "Open"
  /\ Best \in {"Sae", "Wpa2Psk"} => Pairwise({"Tkip", "Ccmp"}, apRsn)
  /\ Best \in {"WpaPsk", "WpaEap"} => "Wpa" \in caps /\ ~adhoc

\* What is announced in addition makes no network look weaker than it did, but for one that
\* looked open, or had WEP alone (utils.cpp:209).
SecurityOnlyGrows ==
  [][(apWpa \subseteq apWpa' /\ apRsn \subseteq apRsn' /\ privacy = privacy' /\ Rank(Best) <= 6)
       => Rank(Best)' <= Rank(Best)]_securityVars

\* Eleven types, all different (WifiSecurityType).
LEMMA TypesDiffer == DOMAIN Types = 1..11 /\ Len(Types) = 11 /\ \A i, j \in 1..11 : Types[i] = Types[j] => i = j
  BY DEF Types

\* The rank of the first type there is, is its place.
LEMMA RankOfFirst ==
  ASSUME NEW V \in SUBSET (1..11), V # {}
  PROVE  Min(V) \in V /\ Rank(Types[Min(V)]) = Min(V) /\ \A j \in V : Min(V) <= j
<1>1. \E i \in V : \A j \in V : i <= j
  <2>1. PICK k \in V : TRUE
    OBVIOUS
  <2> DEFINE Least(n) == n \in V /\ \A j \in V : n <= j
  <2>2. \/ Least(1) \/ Least(2) \/ Least(3) \/ Least(4) \/ Least(5) \/ Least(6)
        \/ Least(7) \/ Least(8) \/ Least(9) \/ Least(10) \/ Least(11)
    BY <2>1
  <2> QED BY <2>2
<1>2. Min(V) \in V /\ \A j \in V : Min(V) <= j
  BY <1>1 DEF Min
<1> DEFINE m == Min(V)
<1> HIDE DEF m
<1>3. m \in 1..11
  BY <1>2 DEF m
<1>4. Types[m] # "Unknown"
  BY <1>3 DEF Types
<1>5. (CHOOSE i \in DOMAIN Types : Types[i] = Types[m]) = m
  BY <1>3, TypesDiffer
<1> QED BY <1>2, <1>4, <1>5 DEF Rank, m

\* The six strongest types stay valid whatever is announced in addition.
LEMMA StaysValid ==
  ASSUME apWpa \subseteq apWpa', apRsn \subseteq apRsn', UNCHANGED <<privacy, caps, adhoc>>,
         NEW i \in 1..6, SecurityIsValid(Types[i])
  PROVE  SecurityIsValid(Types[i])'
<1>1. Types[i] \in {"Wpa3SuiteB192", "Sae", "Wpa2Eap", "Wpa2Psk", "WpaEap", "WpaPsk"}
  BY DEF Types
<1>2. \A k : /\ KeyMgmt(k, apWpa) => KeyMgmt(k, apWpa')
             /\ KeyMgmt(k, apRsn) => KeyMgmt(k, apRsn')
  BY DEF KeyMgmt
<1>3. \A C : /\ Pairwise(C, apWpa) => Pairwise(C, apWpa)'
             /\ Pairwise(C, apRsn) => Pairwise(C, apRsn)'
  BY DEF Pairwise
<1>4. /\ DeviceSupportsApCiphers(apWpa, FALSE) => DeviceSupportsApCiphers(apWpa, FALSE)'
      /\ DeviceSupportsApCiphers(apRsn, FALSE) => DeviceSupportsApCiphers(apRsn, FALSE)'
  BY DEF DeviceSupportsApCiphers
<1> QED BY <1>1, <1>2, <1>3, <1>4 DEF SecurityIsValid, RsnWithKey

\* What is announced in addition makes no network look weaker (findBestWirelessSecurity()), whatever
\* the device can do and an access point may announce.
THEOREM StrongerByMore == InitSecurity /\ [][NextSecurity]_securityVars => SecurityOnlyGrows
<1>1. ASSUME [NextSecurity]_securityVars, apWpa \subseteq apWpa', apRsn \subseteq apRsn', privacy = privacy', Rank(Best) <= 6
      PROVE  Rank(Best)' <= Rank(Best)
  <2>1. UNCHANGED <<privacy, caps, adhoc>>
    BY <1>1 DEF NextSecurity, FlagsChange, securityVars
  <2>2. ValidTypes \in SUBSET (1..11) /\ ValidTypes' \in SUBSET (1..11)
    BY TypesDiffer DEF ValidTypes
  <2>3. ValidTypes # {}
    BY <1>1, TypesDiffer DEF Best, Rank
  <2>4. PICK m \in 1..11 : m = Min(ValidTypes)
    BY <2>2, <2>3, RankOfFirst
  <2>5. m \in ValidTypes /\ Rank(Best) = m
    BY <2>2, <2>3, <2>4, RankOfFirst DEF Best
  <2>6. m \in 1..6 /\ SecurityIsValid(Types[m])
    BY <1>1, <2>4, <2>5 DEF ValidTypes
  <2>7. m \in ValidTypes'
    <3>1. SecurityIsValid(Types[m])'
      BY <1>1, <2>1, <2>6, StaysValid
    <3> QED BY <2>4, <3>1, TypesDiffer DEF ValidTypes
  <2>8. Rank(Best)' = Min(ValidTypes)' /\ Min(ValidTypes)' <= m
    BY <2>2, <2>7, RankOfFirst DEF Best
  <2> QED BY <2>5, <2>8
<1>2. [NextSecurity]_securityVars
        => [(apWpa \subseteq apWpa' /\ apRsn \subseteq apRsn' /\ privacy = privacy' /\ Rank(Best) <= 6)
              => Rank(Best)' <= Rank(Best)]_securityVars
  BY <1>1
<1> QED BY <1>2, PTL DEF SecurityOnlyGrows

-----------------------------------------------------------------------------
(* Devices.                                                                 *)

Gone == [type |-> "none", managed |-> FALSE]
NetMsg(kind, path, value) == [kind |-> kind, path |-> path, value |-> value]

-----------------------------------------------------------------------------
(* NetworkManager (external)                                                 *)

NetAct(path, device, told) ==
  /\ netActs < MaxNetActs /\ netActs' = netActs + 1
  /\ nm' = [nm EXCEPT ![path] = device] /\ nmSignals' = Append(nmSignals, told)
  /\ UNCHANGED <<nmCalls, backend, netObj, twice>>

DeviceAdded(p) ==
  /\ nm[p] = Gone
  /\ \E type \in {"wifi", "other"}, managed \in BOOLEAN :
       NetAct(p, [type |-> type, managed |-> managed], NetMsg("added", p, 0))
DeviceRemoved(p) == nm[p] # Gone /\ NetAct(p, Gone, NetMsg("removed", p, 0))
ManagedChanges(p) ==
  /\ nm[p].type = "wifi"
  /\ NetAct(p, [nm[p] EXCEPT !.managed = ~@], NetMsg("managed", p, ~nm[p].managed))

\* A call for a device that is gone fails.
NmAnswers ==
  /\ nmCalls # <<>> /\ nmCalls' = Tail(nmCalls)
  /\ LET c == Head(nmCalls) IN
       \/ /\ c.kind = "GetAllDevices"
          /\ \E order \in SetToSeqs({p \in NetPaths : nm[p] # Gone}) :
               nmSignals' = Append(nmSignals, NetMsg("devices", "all", order))
       \/ c.kind = "DeviceType" /\ nmSignals' = Append(nmSignals, NetMsg("type", c.path, nm[c.path].type))
       \/ /\ c.kind = "GetAll"
          /\ nmSignals' = IF nm[c.path] = Gone THEN nmSignals
                          ELSE Append(nmSignals, NetMsg("managed", c.path, nm[c.path].managed))
  /\ UNCHANGED <<nm, backend, netObj, netActs, twice>>

-----------------------------------------------------------------------------
(* The shell                                                                 *)

Asking(p) ==
  \/ \E i \in DOMAIN nmCalls : nmCalls[i].kind = "DeviceType" /\ nmCalls[i].path = p
  \/ \E i \in DOMAIN nmSignals : nmSignals[i].kind = "type" /\ nmSignals[i].path = p

\* registerDevice(): the type is asked of each path that is not registered yet.
RegisterNetDevices(paths) ==
  LET new == SelectSeq(paths, LAMBDA p : p \notin backend.known) IN
  /\ nmCalls' = nmCalls \o [i \in DOMAIN new |-> NetMsg("DeviceType", new[i], 0)]
  /\ twice' = (twice \/ \E p \in ToSet(new) : Asking(p))
  /\ UNCHANGED <<backend, netObj>>

\* The answer: a wifi device gets its object, which listens and asks for its properties.
OnDeviceType(p, type) ==
  /\ IF type = "none" THEN UNCHANGED <<backend, netObj, nmCalls>>
     ELSE IF type = "other"
     THEN /\ backend' = [backend EXCEPT !.known = @ \cup {p}, !.object[p] = NoNetObj]
          /\ UNCHANGED <<netObj, nmCalls>>
     ELSE LET o == CHOOSE x \in NetObjs : netObj[x].path = NoNetObj IN
          /\ backend' = [backend EXCEPT !.known = @ \cup {p}, !.object[p] = o]
          /\ netObj' = [netObj EXCEPT ![o] = [path |-> p, managed |-> FALSE, exists |-> TRUE]]
          /\ nmCalls' = Append(nmCalls, NetMsg("GetAll", p, 0))
  /\ UNCHANGED twice

\* removeFrontendDevice()
WithoutFrontend(b, p) ==
  IF b.frontend[p] = NoNetObj THEN b
  ELSE [b EXCEPT !.shown = RemoveObject(@, b.frontend[p]), !.frontend[p] = NoNetObj]

\* managedChanged() of each object of the path that is there: registerFrontendDevice(),
\* removeFrontendDevice().
OnManaged(p, managed) ==
  LET changed == {o \in NetObjs : netObj[o].exists /\ netObj[o].path = p /\ netObj[o].managed # managed}
      Show(b, o) == IF managed THEN [b EXCEPT !.frontend[p] = o, !.shown = AppendObject(@, o)]
                    ELSE WithoutFrontend(b, p)
  IN /\ netObj' = [o \in NetObjs |-> IF o \in changed THEN [netObj[o] EXCEPT !.managed = managed] ELSE netObj[o]]
     /\ backend' = FoldLeft(Show, backend, SetToSeq(changed))
     /\ UNCHANGED <<nmCalls, twice>>

\* onDevicePathRemoved()
OnDevicePathRemoved(p) ==
  /\ IF p \notin backend.known THEN UNCHANGED <<backend, netObj>>
     ELSE LET o == backend.object[p]
              forgotten == [backend EXCEPT !.known = @ \ {p}, !.object[p] = NoNetObj]
          IN /\ backend' = IF o = NoNetObj THEN forgotten ELSE WithoutFrontend(forgotten, p)
             /\ netObj' = IF o = NoNetObj THEN netObj ELSE [netObj EXCEPT ![o].exists = FALSE]
  /\ UNCHANGED <<nmCalls, twice>>

HearNm ==
  /\ nmSignals # <<>> /\ nmSignals' = Tail(nmSignals)
  /\ LET m == Head(nmSignals) IN
       CASE m.kind = "devices" -> RegisterNetDevices(m.value)
         [] m.kind = "added"   -> RegisterNetDevices(<<m.path>>)
         [] m.kind = "removed" -> OnDevicePathRemoved(m.path)
         [] m.kind = "type"    -> OnDeviceType(m.path, m.value)
         [] m.kind = "managed" -> OnManaged(m.path, m.value)
  /\ UNCHANGED <<nm, netActs>>

-----------------------------------------------------------------------------
\* init(): listens, then asks for all devices.
InitDevices ==
  /\ nm \in [NetPaths -> [type : {"wifi", "other"}, managed : {TRUE}] \cup {Gone}]
  /\ nmCalls = <<NetMsg("GetAllDevices", "all", 0)>> /\ nmSignals = <<>> /\ netActs = 0 /\ twice = FALSE
  /\ backend = [known |-> {}, object |-> [p \in NetPaths |-> NoNetObj],
                frontend |-> [p \in NetPaths |-> NoNetObj], shown |-> <<>>]
  /\ netObj = [o \in NetObjs |-> [path |-> NoNetObj, managed |-> FALSE, exists |-> FALSE]]

NextDevices ==
  \/ \E p \in NetPaths : DeviceAdded(p) \/ DeviceRemoved(p) \/ ManagedChanges(p)
  \/ NmAnswers \/ HearNm

-----------------------------------------------------------------------------
\* No device is shown that is deleted or shown twice, and a device is shown as long as its
\* object is managed, if no path was asked for twice (backend.cpp:126, :193, :197, :209).
NetDevicesHold ==
  ~twice => /\ IsInjective(backend.shown)
            /\ {o \in NetObjs : netObj[o].exists /\ netObj[o].managed} = ToSet(backend.shown)

\* At rest the devices shown are the wifi devices that are managed, each once, if no path was
\* asked for twice (backend.cpp:76, :106, :205, :209).
ShowsNetDevices ==
  nmCalls = <<>> /\ nmSignals = <<>> /\ ~twice =>
    /\ {netObj[backend.shown[i]].path : i \in DOMAIN backend.shown}
         = {p \in NetPaths : nm[p].type = "wifi" /\ nm[p].managed}
    /\ \A i, j \in DOMAIN backend.shown : netObj[backend.shown[i]].path = netObj[backend.shown[j]].path => i = j

\* "Skipping duplicate registration of device" (backend.cpp:95): a device is shown once.
SkipsDuplicates ==
  \A i, j \in DOMAIN backend.shown : netObj[backend.shown[i]].path = netObj[backend.shown[j]].path => i = j
=============================================================================
