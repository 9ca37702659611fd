--------------------------- MODULE TcpLink_proofs ---------------------------
(***************************************************************************)
(* Theorems of TcpLink, for every number of sockets, failure limit, bound  *)
(* on the name queries and set of admitted disturbances.                   *)
(***************************************************************************)
EXTENDS TcpLink, TLAPS

\* The flags of TypeOK ...
FlagTypes == /\ tcpTimer \in BOOLEAN /\ watch90 \in BOOLEAN /\ id \in BOOLEAN
             /\ auth \in BOOLEAN /\ updating \in BOOLEAN /\ rtc \in BOOLEAN

\* ... and the rest of it, which needs a bound on the sockets that are open
\* together.
SocketInv ==
  /\ state \in States
  /\ sock \in {"none", "open", "connecting", "connected"}
  /\ pdp \in {"off", "activating", "on", "deactivating"}
  /\ leaked \in 0 .. MaxSockets /\ Abandoned <= MaxSockets
  /\ failures \in 0 .. FailLimit
  /\ dns \in 0 .. MaxDns
  /\ sender \in {"none", "sending", "closed"}

\* The disturbances under which a machine can be left without a motor.
Stalls == {"slow_dns", "sync_connect"}

\* The disturbances under which it can be left stranded.
Strands == Stalls \cup {"close_success", "deauthorise", "deactivate_fails"}

\* Those under which a socket can be forgotten.
Forgets == Stalls \cup {"deactivate_fails", "gsm_drop", "slow_send"}

\* The states before the context is up.
Early == {"get_simstate", "query_state", "gprs_register", "gprs_config",
          "gprs_activate", "gprs_activating", "gprs_deactivate"}

\* Why the motor never stops outside soc_close: the watchdog never runs there,
\* and an activation or a connection is under way only in the states that can
\* receive its result.
MotorInv ==
  /\ state # "soc_close" => tcpTimer = TRUE
  /\ watch90 = TRUE => state # "soc_close"
  /\ pdp = "activating" =>
       /\ sock = "none" /\ updating = FALSE
       /\ state \in {"gprs_activating", "gprs_deactivate"}
  /\ pdp = "off" /\ updating = FALSE =>
       sock = "none" /\ state \in Early \cup {"get_dnsaddress"}
  /\ state \in Early \ {"gprs_deactivate"} => updating = FALSE
  /\ auth = TRUE /\ sock = "connected" => state = "soc_close"
  /\ updating \in BOOLEAN

\* Why a machine at rest is not stranded.
StrandInv ==
  /\ MotorInv
  /\ pdp \in {"off", "activating", "on", "deactivating"}
  /\ state = "soc_close" => \/ auth = TRUE \/ updating = TRUE
                            \/ pdp = "deactivating"

\* Why no socket is forgotten: m_socketid names an open one until the machine
\* creates the next, which it cannot reach while the context of the old one is
\* still going down, and no other task is in the middle of a send.
Below == Early \ {"gprs_activating", "gprs_deactivate"}

NamedInv ==
  /\ MotorInv
  /\ pdp \in {"off", "activating", "on", "deactivating"}
  /\ leaked = 0 /\ sender = "none"
  /\ id \in BOOLEAN /\ (id = FALSE => sock = "none")
  /\ sock # "none" => \/ state \in {"soc_connect", "idle", "soc_close"}
                      \/ pdp = "deactivating" /\ state \in Below

\* WaitsAreWatched, with the flag compared as a value.
Watched == state \in {"idle", "gprs_activating"} => watch90 = TRUE

\* The initial state satisfies every invariant.
LEMMA InitLinkInv == Init => FlagTypes /\ SocketInv /\ StrandInv /\ Watched
<1> SUFFICES ASSUME Init
             PROVE  FlagTypes /\ SocketInv /\ StrandInv /\ Watched
  OBVIOUS
<1>1. FlagTypes
  BY DEF Init, FlagTypes
<1>2. SocketInv
  BY MaxSocketsAssumption, FailLimitAssumption, MaxDnsAssumption
     DEF Init, SocketInv, States, Abandoned
<1>3. StrandInv
  BY DEF Init, StrandInv, MotorInv, Early
<1>4. Watched
  BY DEF Init, Watched
<1> QED
  BY <1>1, <1>2, <1>3, <1>4

-----------------------------------------------------------------------------
\* No step leaves a wait unwatched.
LEMMA NextWatched == Watched /\ [Next]_vars => Watched'
<1> SUFFICES ASSUME Watched, [Next]_vars PROVE Watched'
  OBVIOUS
<1> USE DEF Watched, machine
<1>1. CASE TcpTick
  <2>1. CASE SimReady
    BY <2>1 DEF SimReady, Tick, Goto
  <2>2. CASE SimNotReady
    BY <2>2 DEF SimNotReady, Tick
  <2>3. CASE Registered
    BY <2>3 DEF Registered, Tick, Goto
  <2>4. CASE NotRegistered
    BY <2>4 DEF NotRegistered, Tick, WatchWait
  <2>5. CASE GprsRegister
    BY <2>5 DEF GprsRegister, Tick, Goto
  <2>6. CASE GprsConfig
    BY <2>6 DEF GprsConfig, Tick, Goto
  <2>7. CASE Activate
    BY <2>7 DEF Activate, Tick, Goto
  <2>8. CASE ActivateLater
    BY <2>8 DEF ActivateLater, Tick, WatchWait
  <2>9. CASE DnsAddress
    BY <2>9 DEF DnsAddress, Tick, Goto
  <2>10. CASE NoDnsAddress
    BY <2>10 DEF NoDnsAddress, Tick, Goto
  <2>11. CASE LocalIp
    BY <2>11 DEF LocalIp, Tick, Goto
  <2>12. CASE ServerByAddress
    BY <2>12 DEF ServerByAddress, Tick, Goto
  <2>13. CASE ServerByName
    BY <2>13 DEF ServerByName, Tick
  <2>14. CASE ServerNameFails
    BY <2>14 DEF ServerNameFails, Tick, Goto, AfterError
  <2>15. CASE SocRegister
    BY <2>15 DEF SocRegister, Tick, Goto
  <2>16. CASE SocCreate
    BY <2>16 DEF SocCreate, Tick, Goto, Abandoned
  <2>17. CASE SocCreateFails
    BY <2>17 DEF SocCreateFails, Tick, Abandoned
  <2>18. CASE ConnectLater
    BY <2>18 DEF ConnectLater, Tick, WatchWait
  <2>19. CASE ConnectNow
    BY <2>19 DEF ConnectNow, Tick
  <2>20. CASE ConnectFails
    BY <2>20 DEF ConnectFails, Tick, Goto, CloseSocket, SocClose, AfterError
  <2>21. CASE Deactivate
    BY <2>21 DEF Deactivate, Tick, Goto, Deactivating
  <2> QED
    BY <1>1, <2>1, <2>2, <2>3, <2>4, <2>5, <2>6, <2>7, <2>8, <2>9, <2>10, <2>11, <2>12, <2>13, <2>14, <2>15, <2>16, <2>17, <2>18, <2>19, <2>20, <2>21 DEF TcpTick
<1>2. CASE Timeout90
  BY <1>2 DEF Timeout90, CloseSocket, SocClose, GivesUp, Restart
<1>3. CASE Callback
  <2>1. CASE GprsActived
    BY <2>1 DEF GprsActived, Goto
  <2>2. CASE GprsNotActived
    BY <2>2 DEF GprsNotActived, Goto
  <2>3. CASE GprsDeactived
    BY <2>3 DEF GprsDeactived, StartTimer
  <2>4. CASE GprsNotDeactived
    BY <2>4 DEF GprsNotDeactived
  <2>5. CASE NameResolved
    BY <2>5 DEF NameResolved, Goto
  <2>6. CASE NameUnknown
    BY <2>6 DEF NameUnknown
  <2>7. CASE Connected
    BY <2>7 DEF Connected
  <2>8. CASE SleepAtLogin
    BY <2>8 DEF SleepAtLogin, Restart
  <2>9. CASE NotConnected
    BY <2>9 DEF NotConnected, StartTimer
  <2>10. CASE SocketClosed
    BY <2>10 DEF SocketClosed, StartTimer, AfterError
  <2>11. CASE ReadError
    BY <2>11 DEF ReadError, StartTimer, AfterError
  <2>12. CASE GsmDrop
    BY <2>12 DEF GsmDrop, StartTimer, Deactivating
  <2> QED
    BY <1>3, <2>1, <2>2, <2>3, <2>4, <2>5, <2>6, <2>7, <2>8, <2>9, <2>10, <2>11, <2>12 DEF Callback
<1>4. CASE Others
  <2>1. CASE SendError
    BY <2>1 DEF SendError, CloseSocket, SocClose
  <2>2. CASE GiveUpLink
    BY <2>2 DEF GiveUpLink, Net_First_Close, SocClose, Deactivating
  <2>3. CASE Deauthorise
    BY <2>3 DEF Deauthorise
  <2>4. CASE StartUpdate
    BY <2>4 DEF StartUpdate, Net_First_Close, SocClose, Deactivating
  <2>5. CASE EndUpdate
    BY <2>5 DEF EndUpdate, Restart
  <2>6. CASE SlowSend
    BY <2>6 DEF SlowSend, SendStarts, SendDone, SendCloses, SendForgets, SocClose
  <2> QED
    BY <1>4, <2>1, <2>2, <2>3, <2>4, <2>5, <2>6 DEF Others
<1>5. CASE UNCHANGED vars
  BY <1>5 DEF vars
<1> QED
  BY <1>1, <1>2, <1>3, <1>4, <1>5 DEF Next

-----------------------------------------------------------------------------
\* Every step keeps the flags Boolean.
LEMMA NextFlagTypes == FlagTypes /\ [Next]_vars => FlagTypes'
<1> SUFFICES ASSUME FlagTypes, [Next]_vars PROVE FlagTypes'
  OBVIOUS
<1> USE DEF FlagTypes, machine, socket, flags
<1>1. CASE TcpTick
  <2>1. CASE SimReady
    BY <2>1 DEF SimReady, Tick, Goto
  <2>2. CASE SimNotReady
    BY <2>2 DEF SimNotReady, Tick
  <2>3. CASE Registered
    BY <2>3 DEF Registered, Tick, Goto
  <2>4. CASE NotRegistered
    BY <2>4 DEF NotRegistered, Tick, WatchWait
  <2>5. CASE GprsRegister
    BY <2>5 DEF GprsRegister, Tick, Goto
  <2>6. CASE GprsConfig
    BY <2>6 DEF GprsConfig, Tick, Goto
  <2>7. CASE Activate
    BY <2>7 DEF Activate, Tick, Goto
  <2>8. CASE ActivateLater
    BY <2>8 DEF ActivateLater, Tick, WatchWait
  <2>9. CASE DnsAddress
    BY <2>9 DEF DnsAddress, Tick, Goto
  <2>10. CASE NoDnsAddress
    BY <2>10 DEF NoDnsAddress, Tick, Goto
  <2>11. CASE LocalIp
    BY <2>11 DEF LocalIp, Tick, Goto
  <2>12. CASE ServerByAddress
    BY <2>12 DEF ServerByAddress, Tick, Goto
  <2>13. CASE ServerByName
    BY <2>13 DEF ServerByName, Tick
  <2>14. CASE ServerNameFails
    BY <2>14 DEF ServerNameFails, Tick, Goto, AfterError
  <2>15. CASE SocRegister
    BY <2>15 DEF SocRegister, Tick, Goto
  <2>16. CASE SocCreate
    BY <2>16 DEF SocCreate, Tick, Goto, Abandoned
  <2>17. CASE SocCreateFails
    BY <2>17 DEF SocCreateFails, Tick, Abandoned
  <2>18. CASE ConnectLater
    BY <2>18 DEF ConnectLater, Tick, WatchWait
  <2>19. CASE ConnectNow
    BY <2>19 DEF ConnectNow, Tick
  <2>20. CASE ConnectFails
    BY <2>20 DEF ConnectFails, Tick, Goto, CloseSocket, SocClose, AfterError
  <2>21. CASE Deactivate
    BY <2>21 DEF Deactivate, Tick, Goto, Deactivating
  <2> QED
    BY <1>1, <2>1, <2>2, <2>3, <2>4, <2>5, <2>6, <2>7, <2>8, <2>9, <2>10, <2>11, <2>12, <2>13, <2>14, <2>15, <2>16, <2>17, <2>18, <2>19, <2>20, <2>21 DEF TcpTick
<1>2. CASE Timeout90
  BY <1>2 DEF Timeout90, CloseSocket, SocClose, GivesUp, Restart
<1>3. CASE Callback
  <2>1. CASE GprsActived
    BY <2>1 DEF GprsActived, Goto
  <2>2. CASE GprsNotActived
    BY <2>2 DEF GprsNotActived, Goto
  <2>3. CASE GprsDeactived
    BY <2>3 DEF GprsDeactived, StartTimer
  <2>4. CASE GprsNotDeactived
    BY <2>4 DEF GprsNotDeactived
  <2>5. CASE NameResolved
    BY <2>5 DEF NameResolved, Goto
  <2>6. CASE NameUnknown
    BY <2>6 DEF NameUnknown
  <2>7. CASE Connected
    BY <2>7 DEF Connected
  <2>8. CASE SleepAtLogin
    BY <2>8 DEF SleepAtLogin, Restart
  <2>9. CASE NotConnected
    BY <2>9 DEF NotConnected, StartTimer
  <2>10. CASE SocketClosed
    BY <2>10 DEF SocketClosed, StartTimer, AfterError
  <2>11. CASE ReadError
    BY <2>11 DEF ReadError, StartTimer, AfterError
  <2>12. CASE GsmDrop
    BY <2>12 DEF GsmDrop, StartTimer, Deactivating
  <2> QED
    BY <1>3, <2>1, <2>2, <2>3, <2>4, <2>5, <2>6, <2>7, <2>8, <2>9, <2>10, <2>11, <2>12 DEF Callback
<1>4. CASE Others
  <2>1. CASE SendError
    BY <2>1 DEF SendError, CloseSocket, SocClose
  <2>2. CASE GiveUpLink
    BY <2>2 DEF GiveUpLink, Net_First_Close, SocClose, Deactivating
  <2>3. CASE Deauthorise
    BY <2>3 DEF Deauthorise
  <2>4. CASE StartUpdate
    BY <2>4 DEF StartUpdate, Net_First_Close, SocClose, Deactivating
  <2>5. CASE EndUpdate
    BY <2>5 DEF EndUpdate, Restart
  <2>6. CASE SlowSend
    BY <2>6 DEF SlowSend, SendStarts, SendDone, SendCloses, SendForgets, SocClose
  <2> QED
    BY <1>4, <2>1, <2>2, <2>3, <2>4, <2>5, <2>6 DEF Others
<1>5. CASE UNCHANGED vars
  BY <1>5 DEF vars
<1> QED
  BY <1>1, <1>2, <1>3, <1>4, <1>5 DEF Next

-----------------------------------------------------------------------------
\* Every step keeps the other types and the bound on the open sockets.
LEMMA NextSocketInv == SocketInv /\ [Next]_vars => SocketInv'
<1> SUFFICES ASSUME SocketInv, [Next]_vars PROVE SocketInv'
  OBVIOUS
<1> USE MaxSocketsAssumption, FailLimitAssumption, MaxDnsAssumption
    DEF SocketInv, States, Abandoned, machine, socket, flags
<1>1. CASE TcpTick
  <2>1. CASE SimReady
    BY <2>1 DEF SimReady, Tick, Goto
  <2>2. CASE SimNotReady
    BY <2>2 DEF SimNotReady, Tick
  <2>3. CASE Registered
    BY <2>3 DEF Registered, Tick, Goto
  <2>4. CASE NotRegistered
    BY <2>4 DEF NotRegistered, Tick, WatchWait
  <2>5. CASE GprsRegister
    BY <2>5 DEF GprsRegister, Tick, Goto
  <2>6. CASE GprsConfig
    BY <2>6 DEF GprsConfig, Tick, Goto
  <2>7. CASE Activate
    BY <2>7 DEF Activate, Tick, Goto
  <2>8. CASE ActivateLater
    BY <2>8 DEF ActivateLater, Tick, WatchWait
  <2>9. CASE DnsAddress
    BY <2>9 DEF DnsAddress, Tick, Goto
  <2>10. CASE NoDnsAddress
    BY <2>10 DEF NoDnsAddress, Tick, Goto
  <2>11. CASE LocalIp
    BY <2>11 DEF LocalIp, Tick, Goto
  <2>12. CASE ServerByAddress
    BY <2>12 DEF ServerByAddress, Tick, Goto
  <2>13. CASE ServerByName
    BY <2>13 DEF ServerByName, Tick
  <2>14. CASE ServerNameFails
    BY <2>14 DEF ServerNameFails, Tick, Goto, AfterError
  <2>15. CASE SocRegister
    BY <2>15 DEF SocRegister, Tick, Goto
  <2>16. CASE SocCreate
    BY <2>16 DEF SocCreate, Tick, Goto, Abandoned
  <2>17. CASE SocCreateFails
    BY <2>17 DEF SocCreateFails, Tick, Abandoned
  <2>18. CASE ConnectLater
    BY <2>18 DEF ConnectLater, Tick, WatchWait
  <2>19. CASE ConnectNow
    BY <2>19 DEF ConnectNow, Tick
  <2>20. CASE ConnectFails
    BY <2>20 DEF ConnectFails, Tick, Goto, CloseSocket, SocClose, AfterError
  <2>21. CASE Deactivate
    BY <2>21 DEF Deactivate, Tick, Goto, Deactivating
  <2> QED
    BY <1>1, <2>1, <2>2, <2>3, <2>4, <2>5, <2>6, <2>7, <2>8, <2>9, <2>10, <2>11, <2>12, <2>13, <2>14, <2>15, <2>16, <2>17, <2>18, <2>19, <2>20, <2>21 DEF TcpTick
<1>2. CASE Timeout90
  BY <1>2 DEF Timeout90, CloseSocket, SocClose, GivesUp, Restart
<1>3. CASE Callback
  <2>1. CASE GprsActived
    BY <2>1 DEF GprsActived, Goto
  <2>2. CASE GprsNotActived
    BY <2>2 DEF GprsNotActived, Goto
  <2>3. CASE GprsDeactived
    BY <2>3 DEF GprsDeactived, StartTimer
  <2>4. CASE GprsNotDeactived
    BY <2>4 DEF GprsNotDeactived
  <2>5. CASE NameResolved
    BY <2>5 DEF NameResolved, Goto
  <2>6. CASE NameUnknown
    BY <2>6 DEF NameUnknown
  <2>7. CASE Connected
    BY <2>7 DEF Connected
  <2>8. CASE SleepAtLogin
    BY <2>8 DEF SleepAtLogin, Restart
  <2>9. CASE NotConnected
    BY <2>9 DEF NotConnected, StartTimer
  <2>10. CASE SocketClosed
    BY <2>10 DEF SocketClosed, StartTimer, AfterError
  <2>11. CASE ReadError
    BY <2>11 DEF ReadError, StartTimer, AfterError
  <2>12. CASE GsmDrop
    BY <2>12 DEF GsmDrop, StartTimer, Deactivating
  <2> QED
    BY <1>3, <2>1, <2>2, <2>3, <2>4, <2>5, <2>6, <2>7, <2>8, <2>9, <2>10, <2>11, <2>12 DEF Callback
<1>4. CASE Others
  <2>1. CASE SendError
    BY <2>1 DEF SendError, CloseSocket, SocClose
  <2>2. CASE GiveUpLink
    BY <2>2 DEF GiveUpLink, Net_First_Close, SocClose, Deactivating
  <2>3. CASE Deauthorise
    BY <2>3 DEF Deauthorise
  <2>4. CASE StartUpdate
    BY <2>4 DEF StartUpdate, Net_First_Close, SocClose, Deactivating
  <2>5. CASE EndUpdate
    BY <2>5 DEF EndUpdate, Restart
  <2>6. CASE SlowSend
    BY <2>6 DEF SlowSend, SendStarts, SendDone, SendCloses, SendForgets, SocClose
  <2> QED
    BY <1>4, <2>1, <2>2, <2>3, <2>4, <2>5, <2>6 DEF Others
<1>5. CASE UNCHANGED vars
  BY <1>5 DEF vars
<1> QED
  BY <1>1, <1>2, <1>3, <1>4, <1>5 DEF Next

-----------------------------------------------------------------------------
\* Every step keeps the motor running.
LEMMA NextMotorInv ==
  ASSUME Hazards \cap Stalls = {}
  PROVE  MotorInv /\ [Next]_vars => MotorInv'
<1> SUFFICES ASSUME MotorInv, [Next]_vars PROVE MotorInv'
  OBVIOUS
<1> USE DEF MotorInv, Early, Stalls, machine, socket, flags
<1>1. CASE TcpTick
  <2>1. CASE SimReady
    BY <2>1 DEF SimReady, Tick, Goto
  <2>2. CASE SimNotReady
    BY <2>2 DEF SimNotReady, Tick
  <2>3. CASE Registered
    BY <2>3 DEF Registered, Tick, Goto
  <2>4. CASE NotRegistered
    BY <2>4 DEF NotRegistered, Tick, WatchWait
  <2>5. CASE GprsRegister
    BY <2>5 DEF GprsRegister, Tick, Goto
  <2>6. CASE GprsConfig
    BY <2>6 DEF GprsConfig, Tick, Goto
  <2>7. CASE Activate
    BY <2>7 DEF Activate, Tick, Goto
  <2>8. CASE ActivateLater
    BY <2>8 DEF ActivateLater, Tick, WatchWait
  <2>9. CASE DnsAddress
    BY <2>9 DEF DnsAddress, Tick, Goto
  <2>10. CASE NoDnsAddress
    BY <2>10 DEF NoDnsAddress, Tick, Goto
  <2>11. CASE LocalIp
    BY <2>11 DEF LocalIp, Tick, Goto
  <2>12. CASE ServerByAddress
    BY <2>12 DEF ServerByAddress, Tick, Goto
  <2>13. CASE ServerByName
    BY <2>13 DEF ServerByName, Tick
  <2>14. CASE ServerNameFails
    BY <2>14 DEF ServerNameFails, Tick, Goto, AfterError
  <2>15. CASE SocRegister
    BY <2>15 DEF SocRegister, Tick, Goto
  <2>16. CASE SocCreate
    BY <2>16 DEF SocCreate, Tick, Goto, Abandoned
  <2>17. CASE SocCreateFails
    BY <2>17 DEF SocCreateFails, Tick, Abandoned
  <2>18. CASE ConnectLater
    BY <2>18 DEF ConnectLater, Tick, WatchWait
  <2>19. CASE ConnectNow
    BY <2>19 DEF ConnectNow, Tick
  <2>20. CASE ConnectFails
    BY <2>20 DEF ConnectFails, Tick, Goto, CloseSocket, SocClose, AfterError
  <2>21. CASE Deactivate
    BY <2>21 DEF Deactivate, Tick, Goto, Deactivating
  <2> QED
    BY <1>1, <2>1, <2>2, <2>3, <2>4, <2>5, <2>6, <2>7, <2>8, <2>9, <2>10, <2>11, <2>12, <2>13, <2>14, <2>15, <2>16, <2>17, <2>18, <2>19, <2>20, <2>21 DEF TcpTick
<1>2. CASE Timeout90
  BY <1>2 DEF Timeout90, CloseSocket, SocClose, GivesUp, Restart
<1>3. CASE Callback
  <2>1. CASE GprsActived
    BY <2>1 DEF GprsActived, Goto
  <2>2. CASE GprsNotActived
    BY <2>2 DEF GprsNotActived, Goto
  <2>3. CASE GprsDeactived
    BY <2>3 DEF GprsDeactived, StartTimer
  <2>4. CASE GprsNotDeactived
    BY <2>4 DEF GprsNotDeactived
  <2>5. CASE NameResolved
    BY <2>5 DEF NameResolved, Goto
  <2>6. CASE NameUnknown
    BY <2>6 DEF NameUnknown
  <2>7. CASE Connected
    BY <2>7 DEF Connected
  <2>8. CASE SleepAtLogin
    BY <2>8 DEF SleepAtLogin, Restart
  <2>9. CASE NotConnected
    BY <2>9 DEF NotConnected, StartTimer
  <2>10. CASE SocketClosed
    BY <2>10 DEF SocketClosed, StartTimer, AfterError
  <2>11. CASE ReadError
    BY <2>11 DEF ReadError, StartTimer, AfterError
  <2>12. CASE GsmDrop
    BY <2>12 DEF GsmDrop, StartTimer, Deactivating
  <2> QED
    BY <1>3, <2>1, <2>2, <2>3, <2>4, <2>5, <2>6, <2>7, <2>8, <2>9, <2>10, <2>11, <2>12 DEF Callback
<1>4. CASE Others
  <2>1. CASE SendError
    BY <2>1 DEF SendError, CloseSocket, SocClose
  <2>2. CASE GiveUpLink
    BY <2>2 DEF GiveUpLink, Net_First_Close, SocClose, Deactivating
  <2>3. CASE Deauthorise
    BY <2>3 DEF Deauthorise
  <2>4. CASE StartUpdate
    BY <2>4 DEF StartUpdate, Net_First_Close, SocClose, Deactivating
  <2>5. CASE EndUpdate
    BY <2>5 DEF EndUpdate, Restart
  <2>6. CASE SlowSend
    BY <2>6 DEF SlowSend, SendStarts, SendDone, SendCloses, SendForgets, SocClose
  <2> QED
    BY <1>4, <2>1, <2>2, <2>3, <2>4, <2>5, <2>6 DEF Others
<1>5. CASE UNCHANGED vars
  BY <1>5 DEF vars
<1> QED
  BY <1>1, <1>2, <1>3, <1>4, <1>5 DEF Next

-----------------------------------------------------------------------------
\* No step strands a machine at rest.
LEMMA NextStrandInv ==
  ASSUME Hazards \cap Strands = {}
  PROVE  StrandInv /\ [Next]_vars => StrandInv'
<1> SUFFICES ASSUME StrandInv, [Next]_vars PROVE StrandInv'
  OBVIOUS
<1>a. Hazards \cap Stalls = {}
  BY DEF Strands
<1>b. MotorInv'
  BY <1>a, NextMotorInv DEF StrandInv
<1> USE <1>b DEF StrandInv, MotorInv, Early, Strands, Stalls, machine, socket, flags
<1>1. CASE TcpTick
  <2>1. CASE SimReady
    BY <2>1 DEF SimReady, Tick, Goto
  <2>2. CASE SimNotReady
    BY <2>2 DEF SimNotReady, Tick
  <2>3. CASE Registered
    BY <2>3 DEF Registered, Tick, Goto
  <2>4. CASE NotRegistered
    BY <2>4 DEF NotRegistered, Tick, WatchWait
  <2>5. CASE GprsRegister
    BY <2>5 DEF GprsRegister, Tick, Goto
  <2>6. CASE GprsConfig
    BY <2>6 DEF GprsConfig, Tick, Goto
  <2>7. CASE Activate
    BY <2>7 DEF Activate, Tick, Goto
  <2>8. CASE ActivateLater
    BY <2>8 DEF ActivateLater, Tick, WatchWait
  <2>9. CASE DnsAddress
    BY <2>9 DEF DnsAddress, Tick, Goto
  <2>10. CASE NoDnsAddress
    BY <2>10 DEF NoDnsAddress, Tick, Goto
  <2>11. CASE LocalIp
    BY <2>11 DEF LocalIp, Tick, Goto
  <2>12. CASE ServerByAddress
    BY <2>12 DEF ServerByAddress, Tick, Goto
  <2>13. CASE ServerByName
    BY <2>13 DEF ServerByName, Tick
  <2>14. CASE ServerNameFails
    BY <2>14 DEF ServerNameFails, Tick, Goto, AfterError
  <2>15. CASE SocRegister
    BY <2>15 DEF SocRegister, Tick, Goto
  <2>16. CASE SocCreate
    BY <2>16 DEF SocCreate, Tick, Goto, Abandoned
  <2>17. CASE SocCreateFails
    BY <2>17 DEF SocCreateFails, Tick, Abandoned
  <2>18. CASE ConnectLater
    BY <2>18 DEF ConnectLater, Tick, WatchWait
  <2>19. CASE ConnectNow
    BY <2>19 DEF ConnectNow, Tick
  <2>20. CASE ConnectFails
    BY <2>20 DEF ConnectFails, Tick, Goto, CloseSocket, SocClose, AfterError
  <2>21. CASE Deactivate
    BY <2>21 DEF Deactivate, Tick, Goto, Deactivating
  <2> QED
    BY <1>1, <2>1, <2>2, <2>3, <2>4, <2>5, <2>6, <2>7, <2>8, <2>9, <2>10, <2>11, <2>12, <2>13, <2>14, <2>15, <2>16, <2>17, <2>18, <2>19, <2>20, <2>21 DEF TcpTick
<1>2. CASE Timeout90
  BY <1>2 DEF Timeout90, CloseSocket, SocClose, GivesUp, Restart
<1>3. CASE Callback
  <2>1. CASE GprsActived
    BY <2>1 DEF GprsActived, Goto
  <2>2. CASE GprsNotActived
    BY <2>2 DEF GprsNotActived, Goto
  <2>3. CASE GprsDeactived
    BY <2>3 DEF GprsDeactived, StartTimer
  <2>4. CASE GprsNotDeactived
    BY <2>4 DEF GprsNotDeactived
  <2>5. CASE NameResolved
    BY <2>5 DEF NameResolved, Goto
  <2>6. CASE NameUnknown
    BY <2>6 DEF NameUnknown
  <2>7. CASE Connected
    BY <2>7 DEF Connected
  <2>8. CASE SleepAtLogin
    BY <2>8 DEF SleepAtLogin, Restart
  <2>9. CASE NotConnected
    BY <2>9 DEF NotConnected, StartTimer
  <2>10. CASE SocketClosed
    BY <2>10 DEF SocketClosed, StartTimer, AfterError
  <2>11. CASE ReadError
    BY <2>11 DEF ReadError, StartTimer, AfterError
  <2>12. CASE GsmDrop
    BY <2>12 DEF GsmDrop, StartTimer, Deactivating
  <2> QED
    BY <1>3, <2>1, <2>2, <2>3, <2>4, <2>5, <2>6, <2>7, <2>8, <2>9, <2>10, <2>11, <2>12 DEF Callback
<1>4. CASE Others
  <2>1. CASE SendError
    BY <2>1 DEF SendError, CloseSocket, SocClose
  <2>2. CASE GiveUpLink
    BY <2>2 DEF GiveUpLink, Net_First_Close, SocClose, Deactivating
  <2>3. CASE Deauthorise
    BY <2>3 DEF Deauthorise
  <2>4. CASE StartUpdate
    BY <2>4 DEF StartUpdate, Net_First_Close, SocClose, Deactivating
  <2>5. CASE EndUpdate
    BY <2>5 DEF EndUpdate, Restart
  <2>6. CASE SlowSend
    BY <2>6 DEF SlowSend, SendStarts, SendDone, SendCloses, SendForgets, SocClose
  <2> QED
    BY <1>4, <2>1, <2>2, <2>3, <2>4, <2>5, <2>6 DEF Others
<1>5. CASE UNCHANGED vars
  BY <1>5 DEF vars
<1> QED
  BY <1>1, <1>2, <1>3, <1>4, <1>5 DEF Next

-----------------------------------------------------------------------------
\* No step forgets a socket.
LEMMA NextNamedInv ==
  ASSUME Hazards \cap Forgets = {}
  PROVE  NamedInv /\ [Next]_vars => NamedInv'
<1> SUFFICES ASSUME NamedInv, [Next]_vars PROVE NamedInv'
  OBVIOUS
<1>a. Hazards \cap Stalls = {}
  BY DEF Forgets
<1>b. MotorInv'
  BY <1>a, NextMotorInv DEF NamedInv
<1> USE <1>b DEF NamedInv, MotorInv, Early, Below, Forgets, Stalls, machine, socket, flags
<1>1. CASE TcpTick
  <2>1. CASE SimReady
    BY <2>1 DEF SimReady, Tick, Goto
  <2>2. CASE SimNotReady
    BY <2>2 DEF SimNotReady, Tick
  <2>3. CASE Registered
    BY <2>3 DEF Registered, Tick, Goto
  <2>4. CASE NotRegistered
    BY <2>4 DEF NotRegistered, Tick, WatchWait
  <2>5. CASE GprsRegister
    BY <2>5 DEF GprsRegister, Tick, Goto
  <2>6. CASE GprsConfig
    BY <2>6 DEF GprsConfig, Tick, Goto
  <2>7. CASE Activate
    BY <2>7 DEF Activate, Tick, Goto
  <2>8. CASE ActivateLater
    BY <2>8 DEF ActivateLater, Tick, WatchWait
  <2>9. CASE DnsAddress
    BY <2>9 DEF DnsAddress, Tick, Goto
  <2>10. CASE NoDnsAddress
    BY <2>10 DEF NoDnsAddress, Tick, Goto
  <2>11. CASE LocalIp
    BY <2>11 DEF LocalIp, Tick, Goto
  <2>12. CASE ServerByAddress
    BY <2>12 DEF ServerByAddress, Tick, Goto
  <2>13. CASE ServerByName
    BY <2>13 DEF ServerByName, Tick
  <2>14. CASE ServerNameFails
    BY <2>14 DEF ServerNameFails, Tick, Goto, AfterError
  <2>15. CASE SocRegister
    BY <2>15 DEF SocRegister, Tick, Goto
  <2>16. CASE SocCreate
    BY <2>16 DEF SocCreate, Tick, Goto, Abandoned
  <2>17. CASE SocCreateFails
    <3>1. sock = "none"
      BY <2>17 DEF SocCreateFails, Tick
    <3>2. Abandoned = 0
      BY <3>1 DEF Abandoned
    <3> QED
      BY <2>17, <3>1, <3>2 DEF SocCreateFails, Tick
  <2>18. CASE ConnectLater
    BY <2>18 DEF ConnectLater, Tick, WatchWait
  <2>19. CASE ConnectNow
    BY <2>19 DEF ConnectNow, Tick
  <2>20. CASE ConnectFails
    BY <2>20 DEF ConnectFails, Tick, Goto, CloseSocket, SocClose, AfterError
  <2>21. CASE Deactivate
    BY <2>21 DEF Deactivate, Tick, Goto, Deactivating
  <2> QED
    BY <1>1, <2>1, <2>2, <2>3, <2>4, <2>5, <2>6, <2>7, <2>8, <2>9, <2>10, <2>11, <2>12, <2>13, <2>14, <2>15, <2>16, <2>17, <2>18, <2>19, <2>20, <2>21 DEF TcpTick
<1>2. CASE Timeout90
  BY <1>2 DEF Timeout90, CloseSocket, SocClose, GivesUp, Restart
<1>3. CASE Callback
  <2>1. CASE GprsActived
    BY <2>1 DEF GprsActived, Goto
  <2>2. CASE GprsNotActived
    BY <2>2 DEF GprsNotActived, Goto
  <2>3. CASE GprsDeactived
    BY <2>3 DEF GprsDeactived, StartTimer
  <2>4. CASE GprsNotDeactived
    BY <2>4 DEF GprsNotDeactived
  <2>5. CASE NameResolved
    BY <2>5 DEF NameResolved, Goto
  <2>6. CASE NameUnknown
    BY <2>6 DEF NameUnknown
  <2>7. CASE Connected
    BY <2>7 DEF Connected
  <2>8. CASE SleepAtLogin
    BY <2>8 DEF SleepAtLogin, Restart
  <2>9. CASE NotConnected
    BY <2>9 DEF NotConnected, StartTimer
  <2>10. CASE SocketClosed
    BY <2>10 DEF SocketClosed, StartTimer, AfterError
  <2>11. CASE ReadError
    BY <2>11 DEF ReadError, StartTimer, AfterError
  <2>12. CASE GsmDrop
    BY <2>12 DEF GsmDrop, StartTimer, Deactivating
  <2> QED
    BY <1>3, <2>1, <2>2, <2>3, <2>4, <2>5, <2>6, <2>7, <2>8, <2>9, <2>10, <2>11, <2>12 DEF Callback
<1>4. CASE Others
  <2>1. CASE SendError
    BY <2>1 DEF SendError, CloseSocket, SocClose
  <2>2. CASE GiveUpLink
    BY <2>2 DEF GiveUpLink, Net_First_Close, SocClose, Deactivating
  <2>3. CASE Deauthorise
    BY <2>3 DEF Deauthorise
  <2>4. CASE StartUpdate
    BY <2>4 DEF StartUpdate, Net_First_Close, SocClose, Deactivating
  <2>5. CASE EndUpdate
    BY <2>5 DEF EndUpdate, Restart
  <2>6. CASE SlowSend
    BY <2>6 DEF SlowSend, SendStarts, SendDone, SendCloses, SendForgets, SocClose
  <2> QED
    BY <1>4, <2>1, <2>2, <2>3, <2>4, <2>5, <2>6 DEF Others
<1>5. CASE UNCHANGED vars
  BY <1>5 DEF vars
<1> QED
  BY <1>1, <1>2, <1>3, <1>4, <1>5 DEF Next

-----------------------------------------------------------------------------
\* Every run is type correct: in particular the sockets that are open together
\* never exceed what the library has, and the failures never the limit
\* (tcp_log.c:148-172, 417-427).
THEOREM TypeCorrect == Spec => []TypeOK
<1>1. Init => FlagTypes /\ SocketInv
  BY InitLinkInv
<1>2. FlagTypes /\ SocketInv /\ [Next]_vars => FlagTypes' /\ SocketInv'
  BY NextFlagTypes, NextSocketInv
<1>3. FlagTypes /\ SocketInv => TypeOK
  BY DEF FlagTypes, SocketInv, TypeOK
<1> QED
  BY <1>1, <1>2, <1>3, PTL DEF Spec

\* Whatever the network and the platform do, a state that only waits for a
\* callback has the 90 second timer running (tcp_log.c:301-329, 430-485).
THEOREM EveryWaitWatched == Spec => []WaitsAreWatched
<1>1. Init => Watched
  BY InitLinkInv
<1>2. Watched => WaitsAreWatched
  BY DEF Watched, WaitsAreWatched
<1> QED
  BY <1>1, <1>2, NextWatched, PTL DEF Spec

\* Without late name answers and connections that succeed at once, the timer
\* that advances the machine runs in every state but soc_close
\* (tcp_log.c:552-821).
THEOREM MotorRuns ==
  ASSUME Hazards \cap Stalls = {}
  PROVE  Spec => []MachineRuns
<1>1. Init => MotorInv
  BY InitLinkInv DEF StrandInv
<1>2. MotorInv /\ [Next]_vars => MotorInv'
  BY NextMotorInv
<1>3. MotorInv => MachineRuns
  BY DEF MotorInv, MachineRuns
<1> QED
  BY <1>1, <1>2, <1>3, PTL DEF Spec

\* Without the disturbances of Strands, a machine at rest always has somebody
\* who will start it again (tcp_log.c:781-821, Blind.c:470-480).
THEOREM NeverStranded ==
  ASSUME Hazards \cap Strands = {}
  PROVE  Spec => []NotStranded
<1>1. Init => StrandInv
  BY InitLinkInv
<1>2. StrandInv /\ [Next]_vars => StrandInv'
  BY NextStrandInv
<1>3. StrandInv => NotStranded
  BY DEF StrandInv, NotStranded
<1> QED
  BY <1>1, <1>2, <1>3, PTL DEF Spec

\* Without the disturbances of Forgets every open socket is the one that
\* m_socketid names (tcp_log.c:417-424, 808-821).
THEOREM SocketsNamed ==
  ASSUME Hazards \cap Forgets = {}
  PROVE  Spec => []NoSocketForgotten
<1>1. Init => NamedInv
  BY InitLinkInv DEF StrandInv, NamedInv, Init
<1>2. NamedInv /\ [Next]_vars => NamedInv'
  BY NextNamedInv
<1>3. NamedInv => NoSocketForgotten
  BY DEF NamedInv, NoSocketForgotten
<1> QED
  BY <1>1, <1>2, <1>3, PTL DEF Spec
=============================================================================
