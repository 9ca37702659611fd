------------------------------ MODULE TcpLink ------------------------------
(***************************************************************************)
(* The connection to the platform (tcp_log.c): a state machine advanced    *)
(* every 800 ms by the timer TCP_TIMER_ID, by the callbacks of the socket  *)
(* and GPRS library, and by a 90 second watchdog timer.  Everything here   *)
(* runs in the main task, except for the failed sends of the other tasks.  *)
(* The library (the PDP context, its sockets, name resolution) is modelled *)
(* from its header and from how the code uses it.                          *)
(***************************************************************************)
EXTENDS Naturals

CONSTANTS
  MaxSockets,    \* sockets the library can give (6)
  FailLimit,     \* failed attempts before the module resets itself (3)
  Hazards,       \* the disturbances admitted
  MaxDns         \* bound: name queries outstanding

Disturbances ==
  { "close_success",   \* a close reported with SOC_SUCCESS
    "deauthorise",     \* the platform refuses the terminal
    "sync_connect",    \* Ql_SOC_Connect succeeds at once
    "slow_dns",        \* a name query outlives the tick that made it
    "deactivate_fails",\* a deactivation reported with an error
    "gsm_drop",        \* a GSM drop that leaves the PDP context up
    "slow_send" }      \* the main task runs in the middle of a send

ASSUME MaxSocketsAssumption == MaxSockets \in Nat /\ MaxSockets >= 1
ASSUME FailLimitAssumption == FailLimit \in Nat
ASSUME LinkHazardsAssumption == Hazards \subseteq Disturbances
ASSUME MaxDnsAssumption == MaxDns \in Nat

VARIABLES
  state,      \* m_tcp_state
  tcpTimer,   \* TCP_TIMER_ID is running
  watch90,    \* timeout_90S_monitor: TIMEOUT_90S_TIMER_ID is running
  id,         \* m_socketid >= 0
  sock,       \* the socket m_socketid names, or named last
  leaked,     \* other open sockets
  auth,       \* TerminalAuthorizationFlag
  failures,   \* ConnectInfo.ipConnectFailureCnt
  updating,   \* GetUpdateFlag() # 0
  rtc,        \* m_pwrOnReason = RTCPWRON
  pdp,        \* the PDP context
  dns,        \* name queries outstanding
  sender      \* another task in Communication_SndMsg2Svr: "none", "sending",
              \* or "closed" the socket but not yet cleared m_socketid

machine == <<state, tcpTimer, watch90>>
socket == <<id, sock, leaked>>
flags == <<auth, failures, updating, rtc>>
vars == <<machine, socket, flags, pdp, dns, sender>>

States == {"get_simstate", "query_state", "gprs_register", "gprs_config",
           "gprs_activate", "gprs_activating", "get_dnsaddress",
           "get_localip", "chack_srvaddr", "soc_register", "soc_create",
           "soc_connect", "idle", "soc_close", "gprs_deactivate"}

\* Open sockets that m_socketid does not name, once it names another.
Abandoned == leaked + (IF sock = "none" THEN 0 ELSE 1)

-----------------------------------------------------------------------------
\* Faults for the mutation checks: a wait without watchdog, a
\* timer not restarted, a socket forgotten without being closed, a limit off
\* by one.
WatchWaitForgotten == UNCHANGED watch90
StartTimerForgotten == UNCHANGED tcpTimer
CloseSocketForgotten == id' = FALSE /\ UNCHANGED sock
GivesUpLate(n) == n > FailLimit + 1

\* What a library call that tears the context down leaves in progress.
Deactivating(p) == IF p \in {"on", "activating"} THEN "deactivating" ELSE p

\* A wait for a callback is guarded by the 90 second timer.
WatchWait == watch90' = TRUE

\* Ql_Timer_Start(TCP_TIMER_ID).
StartTimer == tcpTimer' = TRUE

\* Ql_SOC_Close(m_socketid): nothing is closed once it names no socket.
SocClose == sock' = IF id THEN "none" ELSE sock

\* Ql_SOC_Close(m_socketid); m_socketid = -1.
CloseSocket == id' = FALSE /\ SocClose

\* After this many failures with a good signal the module resets.
GivesUp(n) == n > FailLimit

\* After an error the machine goes on from one of these states.
AfterError == {"gprs_deactivate", "get_dnsaddress"}

-----------------------------------------------------------------------------
\* init_tcp.
Init ==
  /\ state = "get_simstate" /\ tcpTimer = TRUE /\ watch90 = FALSE
  /\ id = FALSE /\ sock = "none" /\ leaked = 0
  /\ auth = FALSE /\ failures = 0 /\ updating = FALSE
  /\ rtc \in BOOLEAN
  /\ pdp = "off" /\ dns = 0 /\ sender = "none"

\* The module starts again, woken by the alarm or not.
Restart(byAlarm) ==
  /\ state' = "get_simstate" /\ tcpTimer' = TRUE /\ watch90' = FALSE
  /\ id' = FALSE /\ sock' = "none" /\ leaked' = 0
  /\ auth' = FALSE /\ failures' = 0 /\ updating' = FALSE
  /\ rtc' = byAlarm
  /\ pdp' = "off" /\ dns' = 0 /\ sender' = "none"

-----------------------------------------------------------------------------
(* Timer_Callback for TCP_TIMER_ID: one action per state and outcome. *)

Tick(s) == tcpTimer /\ state = s

Goto(s) == state' = s /\ UNCHANGED <<tcpTimer, watch90>>

\* Repeated failures reload the server address, which clears the flag.
SimReady ==
  /\ Tick("get_simstate")
  /\ Goto("query_state")
  /\ auth' = FALSE
  /\ UNCHANGED <<socket, failures, updating, rtc, pdp, dns, sender>>

SimNotReady ==
  /\ Tick("get_simstate") /\ failures > 2
  /\ auth' = FALSE
  /\ UNCHANGED <<machine, socket, failures, updating, rtc, pdp, dns, sender>>

Registered ==
  /\ Tick("query_state")
  /\ Goto("gprs_register")
  /\ UNCHANGED <<socket, flags, pdp, dns, sender>>

NotRegistered ==
  /\ Tick("query_state")
  /\ WatchWait
  /\ UNCHANGED <<state, tcpTimer, socket, flags, pdp, dns, sender>>

GprsRegister ==
  /\ Tick("gprs_register")
  /\ Goto("gprs_config")
  /\ UNCHANGED <<socket, flags, pdp, dns, sender>>

GprsConfig ==
  /\ Tick("gprs_config")
  /\ Goto("gprs_activate")
  /\ UNCHANGED <<socket, flags, pdp, dns, sender>>

\* The context is up already, or comes up at once.
Activate ==
  /\ Tick("gprs_activate") /\ pdp # "deactivating"
  /\ Goto("get_dnsaddress")
  /\ pdp' = IF pdp = "activating" THEN pdp ELSE "on"
  /\ UNCHANGED <<socket, flags, dns, sender>>

\* The result comes with GPRS_Actived_callback; an error leaves the state.
ActivateLater ==
  /\ Tick("gprs_activate") /\ pdp = "off"
  /\ state' = "gprs_activating" /\ WatchWait
  /\ pdp' = "activating"
  /\ UNCHANGED <<tcpTimer, socket, flags, dns, sender>>

DnsAddress ==
  /\ Tick("get_dnsaddress") /\ pdp = "on"
  /\ Goto("get_localip")
  /\ UNCHANGED <<socket, flags, pdp, dns, sender>>

NoDnsAddress ==
  /\ Tick("get_dnsaddress")
  /\ Goto("gprs_deactivate")
  /\ UNCHANGED <<socket, flags, pdp, dns, sender>>

LocalIp ==
  /\ Tick("get_localip") /\ pdp = "on"
  /\ Goto("chack_srvaddr")
  /\ UNCHANGED <<socket, flags, pdp, dns, sender>>

\* The server parameter is an address ...
ServerByAddress ==
  /\ Tick("chack_srvaddr") /\ dns = 0
  /\ Goto("soc_register")
  /\ UNCHANGED <<socket, flags, pdp, dns, sender>>

\* ... or a name.  The state does not change while the answer is awaited, so
\* the next tick asks again.
ServerByName ==
  /\ Tick("chack_srvaddr")
  /\ dns < MaxDns /\ ("slow_dns" \in Hazards \/ dns = 0)
  /\ dns' = dns + 1
  /\ UNCHANGED <<machine, socket, flags, pdp, sender>>

ServerNameFails ==
  /\ Tick("chack_srvaddr")
  /\ \E s \in AfterError : Goto(s)
  /\ UNCHANGED <<socket, flags, pdp, dns, sender>>

SocRegister ==
  /\ Tick("soc_register")
  /\ Goto("soc_create")
  /\ UNCHANGED <<socket, flags, pdp, dns, sender>>

SocCreate ==
  /\ Tick("soc_create") /\ Abandoned < MaxSockets
  /\ Goto("soc_connect")
  /\ id' = TRUE /\ sock' = "open" /\ leaked' = Abandoned
  /\ UNCHANGED <<flags, pdp, dns, sender>>

\* The library has no socket left, or the context is down: the state stays.
SocCreateFails ==
  /\ Tick("soc_create")
  /\ id' = FALSE /\ sock' = "none" /\ leaked' = Abandoned
  /\ UNCHANGED <<machine, flags, pdp, dns, sender>>

ConnectLater ==
  /\ Tick("soc_connect") /\ id /\ sock = "open"
  /\ state' = "idle" /\ WatchWait
  /\ sock' = "connecting"
  /\ UNCHANGED <<tcpTimer, id, leaked, flags, pdp, dns, sender>>

\* The timer stops and no login follows: the call is commented out.
ConnectNow ==
  /\ Tick("soc_connect") /\ id /\ sock = "open" /\ "sync_connect" \in Hazards
  /\ state' = "soc_close" /\ tcpTimer' = FALSE
  /\ sock' = "connected"
  /\ UNCHANGED <<watch90, id, leaked, flags, pdp, dns, sender>>

ConnectFails ==
  /\ Tick("soc_connect")
  /\ \E s \in AfterError : Goto(s)
  /\ CloseSocket
  /\ UNCHANGED <<leaked, flags, pdp, dns, sender>>

Deactivate ==
  /\ Tick("gprs_deactivate") /\ ~updating
  /\ Goto("get_simstate")
  /\ pdp' = Deactivating(pdp)
  /\ UNCHANGED <<socket, flags, dns, sender>>

TcpTick ==
  \/ SimReady \/ SimNotReady \/ Registered \/ NotRegistered
  \/ GprsRegister \/ GprsConfig \/ Activate \/ ActivateLater
  \/ DnsAddress \/ NoDnsAddress \/ LocalIp
  \/ ServerByAddress \/ ServerByName \/ ServerNameFails
  \/ SocRegister \/ SocCreate \/ SocCreateFails
  \/ ConnectLater \/ ConnectNow \/ ConnectFails \/ Deactivate

-----------------------------------------------------------------------------
\* Timer_Callback for TIMEOUT_90S_TIMER_ID.  A failure is counted only when
\* the signal is good enough.
Timeout90 ==
  /\ watch90
  /\ \E counted \in BOOLEAN :
       IF counted /\ GivesUp(failures + 1)
         THEN Restart(FALSE)
         ELSE /\ state' = "gprs_deactivate" /\ watch90' = FALSE
              /\ CloseSocket
              /\ failures' = IF counted THEN failures + 1 ELSE failures
              /\ UNCHANGED <<tcpTimer, leaked, auth, updating, rtc, pdp, dns, sender>>

-----------------------------------------------------------------------------
(* Callbacks of the library. *)

GprsActived ==
  /\ pdp = "activating"
  /\ pdp' = "on"
  /\ Goto("get_dnsaddress")
  /\ UNCHANGED <<socket, flags, dns, sender>>

GprsNotActived ==
  /\ pdp = "activating"
  /\ pdp' = "off"
  /\ Goto("gprs_activate")
  /\ UNCHANGED <<socket, flags, dns, sender>>

\* The context goes down, asked for or not, and its sockets with it.
\* m_socketid keeps its value.
GprsDeactived ==
  /\ pdp \in {"on", "deactivating"}
  /\ pdp' = "off"
  /\ sock' = "none" /\ leaked' = 0
  /\ IF updating
       THEN UNCHANGED <<machine, auth>>
       ELSE /\ auth' = FALSE
            /\ StartTimer /\ state' = "get_simstate"
            /\ UNCHANGED watch90
  /\ UNCHANGED <<id, failures, updating, rtc, dns, sender>>

GprsNotDeactived ==
  /\ pdp = "deactivating" /\ "deactivate_fails" \in Hazards
  /\ pdp' = "on"
  /\ UNCHANGED <<machine, socket, flags, dns, sender>>

\* GetIpByName_callback; a failed answer changes nothing.
NameResolved ==
  /\ dns > 0 /\ ("slow_dns" \in Hazards \/ state = "chack_srvaddr")
  /\ dns' = dns - 1
  /\ Goto("soc_register")
  /\ UNCHANGED <<socket, flags, pdp, sender>>

NameUnknown ==
  /\ dns > 0
  /\ dns' = dns - 1
  /\ UNCHANGED <<machine, socket, flags, pdp, sender>>

\* socket_connect_callback and Net_First_Login.
Connected ==
  /\ sock = "connecting"
  /\ sock' = "connected"
  /\ watch90' = FALSE /\ tcpTimer' = FALSE /\ state' = "soc_close"
  /\ failures' = 0 /\ auth' = TRUE
  /\ UNCHANGED <<id, leaked, updating, rtc, pdp, dns, sender>>

\* Net_First_Login puts the device to sleep until the next report is due.
SleepAtLogin == sock = "connecting" /\ ~rtc /\ Restart(TRUE)

NotConnected ==
  /\ sock = "connecting"
  /\ sock' = "none"
  /\ StartTimer /\ state' = "soc_create" /\ auth' = FALSE
  /\ UNCHANGED <<watch90, id, leaked, failures, updating, rtc, pdp, dns, sender>>

\* socket_close_callback: the peer or the network closed the connection.
SocketClosed ==
  /\ sock = "connected"
  /\ sock' = "none"
  /\ auth' = FALSE /\ StartTimer
  /\ \/ state' \in AfterError
     \/ "close_success" \in Hazards /\ UNCHANGED state
  /\ UNCHANGED <<watch90, id, leaked, failures, updating, rtc, pdp, dns, sender>>

\* socket_read_callback and socket_write_callback with an error: they close
\* the socket they were called for.  The flag stays set.
ReadError ==
  /\ sock = "connected"
  /\ id' = FALSE /\ sock' = "none"
  /\ StartTimer
  /\ state' \in AfterError \cup {"soc_create"}
  /\ UNCHANGED <<watch90, leaked, flags, pdp, dns, sender>>

\* The module lost the GSM or GPRS network: the context goes down as well.
GsmDrop ==
  /\ ~updating
  /\ auth' = FALSE
  /\ IF state = "soc_close"
       THEN StartTimer /\ state' = "get_simstate"
       ELSE UNCHANGED <<tcpTimer, state>>
  /\ \/ pdp' = Deactivating(pdp)
     \/ "gsm_drop" \in Hazards /\ UNCHANGED pdp
  /\ UNCHANGED <<watch90, socket, failures, updating, rtc, dns, sender>>

Callback == \/ GprsActived \/ GprsNotActived \/ GprsDeactived
            \/ GprsNotDeactived \/ NameResolved \/ NameUnknown
            \/ Connected \/ SleepAtLogin \/ NotConnected
            \/ SocketClosed \/ ReadError \/ GsmDrop

-----------------------------------------------------------------------------
(* What other parts of the firmware do to the connection. *)

\* Communication_SndMsg2Svr fails, in the main task or in one that the main
\* task does not preempt: nothing but the socket changes.
SendError ==
  /\ id
  /\ CloseSocket
  /\ UNCHANGED <<machine, leaked, flags, pdp, dns, sender>>

\* In another task, statement by statement: the test of m_socketid ...
SendStarts ==
  /\ "slow_send" \in Hazards /\ sender = "none" /\ id
  /\ sender' = "sending"
  /\ UNCHANGED <<machine, socket, flags, pdp, dns>>

\* ... Ql_SOC_Send, which succeeds ...
SendDone ==
  /\ sender = "sending"
  /\ sender' = "none"
  /\ UNCHANGED <<machine, socket, flags, pdp, dns>>

\* ... or fails, and whatever m_socketid names by now is closed ...
SendCloses ==
  /\ sender = "sending"
  /\ SocClose
  /\ sender' = "closed"
  /\ UNCHANGED <<machine, id, leaked, flags, pdp, dns>>

\* ... and m_socketid is cleared, although it may name a new socket.
SendForgets ==
  /\ sender = "closed"
  /\ id' = FALSE
  /\ sender' = "none"
  /\ UNCHANGED <<machine, sock, leaked, flags, pdp, dns>>

SlowSend == SendStarts \/ SendDone \/ SendCloses \/ SendForgets

\* A fault for the mutation checks: the context is left alone.
Net_First_CloseSocketOnly == SocClose /\ UNCHANGED pdp

\* Net_First_Close: m_socketid keeps its value.
Net_First_Close ==
  /\ SocClose
  /\ pdp' = Deactivating(pdp)

\* The blind upload gives up a link that answers no pack.
GiveUpLink ==
  /\ auth
  /\ auth' = FALSE
  /\ Net_First_Close
  /\ UNCHANGED <<machine, id, leaked, failures, updating, rtc, dns, sender>>

\* The platform refuses the terminal, or logs it out.
Deauthorise ==
  /\ "deauthorise" \in Hazards /\ auth
  /\ auth' = FALSE
  /\ UNCHANGED <<machine, socket, failures, updating, rtc, pdp, dns, sender>>

\* A remote upgrade closes the connection; the module resets at its end.
StartUpdate ==
  /\ auth /\ sock = "connected" /\ ~updating
  /\ updating' = TRUE
  /\ Net_First_Close
  /\ UNCHANGED <<machine, id, leaked, auth, failures, rtc, dns, sender>>

EndUpdate == updating /\ Restart(FALSE)

Others == \/ SendError \/ SlowSend
          \/ GiveUpLink \/ Deauthorise \/ StartUpdate \/ EndUpdate

Next == TcpTick \/ Timeout90 \/ Callback \/ Others

Spec == Init /\ [][Next]_vars

-----------------------------------------------------------------------------
(* Properties. *)

\* The types of the variables.
TypeOK ==
  /\ state \in States /\ tcpTimer \in BOOLEAN /\ watch90 \in BOOLEAN
  /\ id \in BOOLEAN /\ leaked \in 0 .. MaxSockets
  /\ sock \in {"none", "open", "connecting", "connected"}
  /\ auth \in BOOLEAN /\ failures \in 0 .. FailLimit
  /\ updating \in BOOLEAN /\ rtc \in BOOLEAN
  /\ pdp \in {"off", "activating", "on", "deactivating"}
  /\ dns \in 0 .. MaxDns
  /\ sender \in {"none", "sending", "closed"}

\* A state that does nothing by itself but wait for a callback is guarded by
\* the 90 second timer, however the callbacks and the timers interleave.
WaitsAreWatched ==
  state \in {"idle", "gprs_activating"} => watch90

\* The timer that advances the machine runs in every state but the connected
\* one, so that no late callback can leave the machine without a motor.
MachineRuns == state # "soc_close" => tcpTimer

\* A machine at rest is believed connected, so that the blind upload gives a
\* dead link up, or a deactivation under way will restart it, or the module
\* resets at the end of an upgrade.
NotStranded == state = "soc_close" => auth \/ pdp = "deactivating" \/ updating

\* No open socket is forgotten: the library has six, and only the loss of the
\* context frees one that m_socketid no longer names.
NoSocketForgotten == leaked = 0

-----------------------------------------------------------------------------
(* Liveness. *)

\* The timers expire and the library answers.  No step that depends on the
\* network fails for ever, and the ticks are 800 ms apart, so that the 90
\* second timer does not preempt the same tick for ever.  A link that is dead
\* but believed alive is given up: reports that cannot be sent are saved, and
\* a blind upload that is not answered gives the link up (BlindUpload,
\* DeadLinkNoticed).
Fairness ==
  /\ WF_vars(TcpTick) /\ WF_vars(Timeout90)
  /\ SF_vars(SimReady) /\ SF_vars(Registered)
  /\ SF_vars(GprsRegister) /\ SF_vars(GprsConfig)
  /\ SF_vars(Activate \/ ActivateLater) /\ SF_vars(GprsActived)
  /\ SF_vars(pdp = "deactivating" /\ GprsDeactived)
  /\ SF_vars(DnsAddress) /\ SF_vars(LocalIp)
  /\ SF_vars(ServerByAddress \/ ServerByName)
  /\ SF_vars(NameResolved)
  /\ SF_vars(SocRegister) /\ SF_vars(SocCreate)
  /\ SF_vars(ConnectLater) /\ SF_vars(Connected)
  /\ WF_vars(sock # "connected" /\ GiveUpLink)
  /\ WF_vars(EndUpdate)

FairSpec == Spec /\ Fairness

\* Whatever state a lost connection, a failed send or a stuck library call
\* leaves the machine in, the terminal is connected and logged in again.
Reconnects == []<>(sock = "connected" /\ auth)
=============================================================================
