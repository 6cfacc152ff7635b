----------------------------- MODULE SmeProofs -----------------------------
(***************************************************************************)
(* For any number of access points, networks, tries and attempts: mac80211  *)
(* is never busy with anything but what cfg80211's attempt has begun, every *)
(* hold on a BSS is undone once, and no attempt is left with nothing to     *)
(* take it on.                                                              *)
(***************************************************************************)
EXTENDS Sme, TLAPS

\* The states of cfg80211 and mac80211, as the parts of a handler pass them on;
\* halfway through one a BSS may be held any number of times.
State ==
    [conn : Conns \cup {None}, ssid : Ssids, ssid_len : BOOLEAN,
     current_bss : Bss \cup {None}, conn_work : BOOLEAN, scan_req : BOOLEAN,
     known : SUBSET Bss, hold : [Bss -> Int],
     auth_data : Auths \cup {None}, assoc_data : Assocs \cup {None},
     associated : Bss \cup {None}, status : Statuses \cup {None},
     onair : SUBSET {"auth", "assoc"}, sta_work : BOOLEAN]

\* The holds are those of current_bss and of h, a BSS or none.
Owes(s, h) ==
    \A b \in Bss : s.hold[b] = (IF h = b THEN 1 ELSE 0) + (IF s.current_bss = b THEN 1 ELSE 0)

\* Who an exchange, and a connection, belongs to.  ExchangeOwned is not inductive:
\* an exchange that is done must be that of an attempt which is about to associate,
\* or an attempt further on could leave it behind.
Owned(s) ==
    /\ s.auth_data # None =>
           /\ s.conn # None /\ s.conn.bssid = s.auth_data.bss
           /\ s.conn.state = IF s.auth_data.done THEN "ASSOCIATE_NEXT" ELSE "AUTHENTICATING"
    /\ s.assoc_data # None =>
           s.conn # None /\ s.conn.state = "ASSOCIATING" /\ s.conn.bssid = s.assoc_data.bss
    /\ (s.conn # None /\ s.conn.state = "CONNECTED") <=> s.current_bss # None
    /\ s.current_bss # None => s.current_bss = s.associated /\ s.current_bss = s.conn.bssid

\* AttemptPending, of a state in the middle of a handler.
Pending(s) ==
    s.conn # None =>
        /\ s.conn.state = "AUTHENTICATING" => s.auth_data # None
        /\ s.conn.state = "ASSOCIATING" => s.assoc_data # None
        /\ s.conn.state = "SCANNING" => s.scan_req \/ s.conn_work
        /\ s.conn.state \in {"AUTHENTICATE_NEXT", "AUTH_FAILED_TIMEOUT", "ASSOCIATE_NEXT",
                             "ASSOC_FAILED", "ASSOC_FAILED_TIMEOUT", "DEAUTH", "ABANDON"}
               => s.conn_work

\* A state between two handlers, but for what an attempt waits for.
Good(s) == s \in State /\ Owned(s) /\ Owes(s, Assoc(s))

\* A state with no exchange in progress and no connection.
Clear(s) ==
    /\ s \in State /\ Owes(s, None)
    /\ s.auth_data = None /\ s.assoc_data = None /\ s.current_bss = None

\* The parts that only mac80211 changes.
SameMlme(s, t) ==
    /\ t.auth_data = s.auth_data /\ t.assoc_data = s.assoc_data
    /\ t.associated = s.associated

IInv == Good(Now) /\ Pending(Now) /\ connects \in 0 .. MaxConnects

-----------------------------------------------------------------------------
(* The events of a connection (net/wireless)                                 *)

\* With nothing in progress, any attempt that is not CONNECTED is a good state.
LEMMA ClearIsGood ==
    ASSUME NEW s, Clear(s), s.conn = None \/ s.conn.state # "CONNECTED" PROVE Good(s)
BY DEF Clear, Good, Owned, Assoc

\* A change of the attempt's record leaves nothing in progress.
LEMMA ClearConn ==
    ASSUME NEW s, Clear(s), NEW c \in Conns \cup {None}
    PROVE  /\ Clear([s EXCEPT !.conn = c]) /\ [s EXCEPT !.conn = c].conn = c
           /\ SameMlme(s, [s EXCEPT !.conn = c])
BY DEF Clear, State, Owes, SameMlme

\* A new state of the attempt changes nothing else but conn_work.
LEMMA TurnResult ==
    ASSUME NEW s \in State, NEW state \in ConnStates, NEW t, t = Turn(s, state)
    PROVE  /\ t \in State /\ SameMlme(s, t)
           /\ t.hold = s.hold /\ t.current_bss = s.current_bss
           /\ s.conn = None => t.conn = None
           /\ s.conn # None => /\ t.conn # None /\ t.conn.state = state
                               /\ t.conn.bssid = s.conn.bssid
<1>1. CASE s.conn = None
  BY <1>1 DEF Turn, SameMlme
<1>2. CASE s.conn # None
  <2>1. s.conn \in Conns
    BY <1>2 DEF State
  <2>2. [s.conn EXCEPT !.state = state] \in Conns
    BY <2>1 DEF Conns
  <2>3. t = [s EXCEPT !.conn = [s.conn EXCEPT !.state = state], !.conn_work = TRUE]
    BY <1>2 DEF Turn
  <2>4. PICK c : c \in Conns /\ c = [s.conn EXCEPT !.state = state] /\ c # None
    BY <2>2, NoneAssumption
  <2>5. c.state = state /\ c.bssid = s.conn.bssid
    BY <2>1, <2>4 DEF Conns
  <2>6. t = [s EXCEPT !.conn = c, !.conn_work = TRUE]
    BY <2>3, <2>4
  <2>7. t \in State
    BY <2>4, <2>6 DEF State
  <2> QED BY <1>2, <2>4, <2>5, <2>6, <2>7 DEF SameMlme, State
<1> QED BY <1>1, <1>2

\* An attempt in its new state has the work before it; no new state that is passed
\* on so is one of an exchange.
LEMMA TurnPending ==
    ASSUME NEW s \in State, NEW state \in ConnStates \ {"AUTHENTICATING", "ASSOCIATING"}
    PROVE  Pending(Turn(s, state))
<1>1. CASE s.conn = None
  BY <1>1 DEF Turn, Pending
<1>2. CASE s.conn # None
  <2>1. PICK t : t = Turn(s, state)
    OBVIOUS
  <2>2. t.conn.state = state
    BY <1>2, <2>1, TurnResult
  <2>3. PICK c : c = [s.conn EXCEPT !.state = state]
    OBVIOUS
  <2>4. t = [s EXCEPT !.conn = c, !.conn_work = TRUE]
    BY <1>2, <2>1, <2>3 DEF Turn
  <2>5. t.conn_work = TRUE
    BY <2>4 DEF State
  <2> QED BY <2>1, <2>2, <2>5 DEF Pending
<1> QED BY <1>1, <1>2

\* What an attempt waits for is not taken away.
LEMMA PendingCarries ==
    ASSUME NEW s, Pending(s), NEW t, t.conn = s.conn,
           s.auth_data # None => t.auth_data # None,
           s.assoc_data # None => t.assoc_data # None,
           s.scan_req => t.scan_req, s.conn_work => t.conn_work
    PROVE  Pending(t)
BY DEF Pending

\* A BSS that is held no longer is not waited for.
LEMMA UnholdPending ==
    ASSUME NEW s \in State, Pending(s), NEW b \in Bss PROVE Pending(Unhold(s, b))
<1>1. PICK f : f = [s.hold EXCEPT ![b] = @ - 1]
  OBVIOUS
<1>2. PICK t : t = [s EXCEPT !.hold = f]
  OBVIOUS
<1>3. /\ t.conn = s.conn /\ t.auth_data = s.auth_data /\ t.assoc_data = s.assoc_data
      /\ t.scan_req = s.scan_req /\ t.conn_work = s.conn_work
  BY <1>2 DEF State
<1>4. Unhold(s, b) = t
  BY <1>1, <1>2 DEF Unhold
<1> QED BY <1>3, <1>4, PendingCarries

\* cfg80211_unhold_bss of the BSS the association was owed.
LEMMA UnholdResult ==
    ASSUME NEW s \in State, NEW b \in Bss, Owes(s, b), NEW t, t = Unhold(s, b)
    PROVE  /\ t \in State /\ SameMlme(s, t) /\ t.conn = s.conn
           /\ t.current_bss = s.current_bss /\ Owes(t, None)
BY SmeAssumption DEF Unhold, State, SameMlme, Owes

\* current_bss goes, and its hold with it.
LEMMA DropCurrentResult ==
    ASSUME NEW s \in State, NEW h, Owes(s, h), NEW t, t = DropCurrent(s)
    PROVE  /\ t \in State /\ SameMlme(s, t) /\ t.conn = s.conn
           /\ t.current_bss = None /\ Owes(t, h)
<1>1. CASE s.current_bss = None
  BY <1>1 DEF DropCurrent, SameMlme
<1>2. CASE s.current_bss # None
  <2>1. PICK b \in Bss : b = s.current_bss
    BY <1>2 DEF State
  <2>2. PICK f : f = [s.hold EXCEPT ![b] = @ - 1]
    OBVIOUS
  <2>3. f \in [Bss -> Int] /\ f[b] = s.hold[b] - 1 /\ \A x \in Bss \ {b} : f[x] = s.hold[x]
    BY <2>2 DEF State
  <2>4. t = [s EXCEPT !.hold = f, !.current_bss = None]
    BY <1>2, <2>1, <2>2 DEF DropCurrent, Unhold, State
  <2>5. t \in State /\ t.hold = f /\ t.current_bss = None
    BY <2>3, <2>4 DEF State
  <2>6. SameMlme(s, t) /\ t.conn = s.conn
    BY <2>4 DEF SameMlme, State
  <2>7. Owes(t, h)
    BY <2>1, <2>3, <2>5, SmeAssumption DEF Owes, State
  <2> QED BY <2>5, <2>6, <2>7
<1> QED BY <1>1, <1>2

\* A failure leaves neither attempt nor connection.
LEMMA ConnectFailedResult ==
    ASSUME NEW s \in State, NEW h, Owes(s, h), NEW t, t = ConnectFailed(s)
    PROVE  /\ t \in State /\ SameMlme(s, t) /\ t.conn = None
           /\ t.current_bss = None /\ Owes(t, h)
<1>1. PICK u : u = DropCurrent(s)
  OBVIOUS
<1>2. /\ u \in State /\ SameMlme(s, u) /\ u.current_bss = None /\ Owes(u, h)
  BY <1>1, DropCurrentResult
<1>3. t = [u EXCEPT !.ssid_len = FALSE, !.conn = None]
  BY <1>1 DEF ConnectFailed
<1>4. t \in State /\ t.conn = None
  BY <1>2, <1>3 DEF State
<1>5. SameMlme(u, t) /\ t.hold = u.hold /\ t.current_bss = u.current_bss
  BY <1>2, <1>3 DEF State, SameMlme
<1> QED BY <1>2, <1>4, <1>5 DEF SameMlme, Owes

\* A failure is a good state, once mac80211 is done with the exchange.
LEMMA ConnectFailedGood ==
    ASSUME NEW s \in State, Owes(s, None), s.auth_data = None, s.assoc_data = None
    PROVE  Good(ConnectFailed(s)) /\ Pending(ConnectFailed(s))
<1>1. Clear(ConnectFailed(s)) /\ ConnectFailed(s).conn = None
  BY ConnectFailedResult DEF Clear, SameMlme
<1> QED BY <1>1, ClearIsGood DEF Pending

\* The end of a connection, with the attempt that led to it still there.
LEMMA DisconnectedResult ==
    ASSUME NEW s \in State, NEW h, Owes(s, h), NEW t, t = Disconnected(s)
    PROVE  /\ t \in State /\ SameMlme(s, t) /\ t.conn = s.conn
           /\ t.current_bss = None /\ Owes(t, h)
<1>1. PICK u : u = DropCurrent(s)
  OBVIOUS
<1>2. /\ u \in State /\ SameMlme(s, u) /\ u.current_bss = None /\ Owes(u, h) /\ u.conn = s.conn
  BY <1>1, DropCurrentResult
<1>3. t = [u EXCEPT !.ssid_len = FALSE]
  BY <1>1 DEF Disconnected
<1>4. t \in State /\ t.conn = u.conn
  BY <1>2, <1>3 DEF State
<1>5. SameMlme(u, t) /\ t.hold = u.hold /\ t.current_bss = u.current_bss
  BY <1>2, <1>3 DEF State, SameMlme
<1> QED BY <1>2, <1>4, <1>5 DEF SameMlme, Owes

\* cfg80211_process_deauth ends the connection it is about, and no other.
LEMMA ProcessDeauthResult ==
    ASSUME NEW s \in State, NEW h, Owes(s, h), NEW b, NEW t, t = ProcessDeauth(s, b)
    PROVE  /\ t \in State /\ SameMlme(s, t) /\ Owes(t, h)
           /\ s.current_bss = b => t.conn = None /\ t.current_bss = None
           /\ s.current_bss # b => t = s
<1>1. CASE s.current_bss = b
  <2>1. PICK u : u = Disconnected(s)
    OBVIOUS
  <2>2. u \in State /\ SameMlme(s, u) /\ u.current_bss = None /\ Owes(u, h)
    BY <2>1, DisconnectedResult
  <2>3. t = [u EXCEPT !.conn = None]
    BY <1>1, <2>1 DEF ProcessDeauth
  <2> QED BY <1>1, <2>2, <2>3 DEF State, SameMlme, Owes
<1>2. CASE s.current_bss # b
  BY <1>2 DEF ProcessDeauth, SameMlme
<1> QED BY <1>1, <1>2

\* cfg80211_process_disassoc ends the connection it is about, and the attempt
\* that led to it is to send a deauthentication.
LEMMA ProcessDisassocGood ==
    ASSUME NEW s \in State, Owes(s, None), s.auth_data = None, s.assoc_data = None,
           NEW b, s.current_bss = b
    PROVE  Good(ProcessDisassoc(s, b)) /\ Pending(ProcessDisassoc(s, b))
<1>1. PICK u : u = Disconnected(s)
  OBVIOUS
<1>2. u \in State /\ SameMlme(s, u) /\ u.current_bss = None /\ Owes(u, None)
  BY <1>1, DisconnectedResult
<1>3. PICK t : t = Turn(u, "DEAUTH")
  OBVIOUS
<1>4. /\ t \in State /\ SameMlme(u, t) /\ t.hold = u.hold /\ t.current_bss = u.current_bss
      /\ t.conn = None \/ t.conn.state = "DEAUTH"
  BY <1>2, <1>3, TurnResult DEF ConnStates
<1>5. Clear(t)
  BY <1>2, <1>4 DEF Clear, SameMlme, Owes
<1>6. Good(t)
  BY <1>4, <1>5, ClearIsGood
<1>7. Pending(t)
  BY <1>2, <1>3, TurnPending DEF ConnStates
<1> QED BY <1>1, <1>3, <1>6, <1>7 DEF ProcessDisassoc

\* A new state that is neither CONNECTED nor one of an exchange is a good one for
\* an attempt with nothing in progress.
LEMMA TurnGood ==
    ASSUME NEW s, Clear(s),
           NEW state \in ConnStates \ {"CONNECTED", "AUTHENTICATING", "ASSOCIATING"}
    PROVE  Good(Turn(s, state)) /\ Clear(Turn(s, state)) /\ Pending(Turn(s, state))
<1>1. PICK t : t = Turn(s, state)
  OBVIOUS
<1>2. /\ t \in State /\ SameMlme(s, t) /\ t.hold = s.hold /\ t.current_bss = s.current_bss
      /\ t.conn = None \/ t.conn.state = state
  BY <1>1, TurnResult DEF Clear
<1>3. Clear(t)
  BY <1>2 DEF Clear, SameMlme, Owes
<1>4. Pending(t)
  BY <1>1, TurnPending DEF Clear
<1> QED BY <1>1, <1>2, <1>3, <1>4, ClearIsGood

\* A refused authentication, which mac80211 is done with, is tried again with
\* another type, ends the attempt, or is not the attempt's.
LEMMA AuthRefusedGood ==
    ASSUME NEW s, Good(s), s.auth_data = None, s.assoc_data = None, NEW code
    PROVE  Good(AuthRefused(s, code)) /\ Pending(AuthRefused(s, code))
<1>1. CASE s.conn = None \/ s.conn.state = "CONNECTED"
  BY <1>1 DEF AuthRefused, Pending
<1>2. CASE s.conn # None /\ s.conn.state # "CONNECTED"
  <2>1. Clear(s)
    BY <1>2 DEF Good, Owned, Clear, Assoc
  <2>2. Good(ConnectFailed(s)) /\ Pending(ConnectFailed(s))
    BY <2>1, ConnectFailedGood DEF Clear
  <2>3. PICK c : c = [s.conn EXCEPT !.auto = FALSE]
    OBVIOUS
  <2>4. c \in Conns
    BY <1>2, <2>1, <2>3 DEF Clear, State, Conns
  <2>5. Clear([s EXCEPT !.conn = c])
    BY <2>1, <2>4, ClearConn
  <2>6. [s EXCEPT !.conn.auto = FALSE] = [s EXCEPT !.conn = c]
    BY <2>3
  <2>7. /\ Good(Turn([s EXCEPT !.conn.auto = FALSE], "AUTHENTICATE_NEXT"))
        /\ Pending(Turn([s EXCEPT !.conn.auto = FALSE], "AUTHENTICATE_NEXT"))
    BY <2>5, <2>6, TurnGood DEF ConnStates
  <2> QED BY <1>2, <2>2, <2>7 DEF AuthRefused
<1> QED BY <1>1, <1>2

\* A timed out association gives its hold back.
LEMMA AssocTimeoutGood ==
    ASSUME NEW s \in State, NEW b \in Bss, Owes(s, b), s.auth_data = None,
           s.assoc_data = None, s.current_bss = None
    PROVE  Good(AssocTimeout(s, b)) /\ Pending(AssocTimeout(s, b))
<1>1. PICK t : t = Turn(s, "ASSOC_FAILED_TIMEOUT")
  OBVIOUS
<1>2. /\ t \in State /\ SameMlme(s, t) /\ t.hold = s.hold /\ t.current_bss = s.current_bss
      /\ t.conn = None \/ t.conn.state = "ASSOC_FAILED_TIMEOUT"
  BY <1>1, TurnResult DEF ConnStates
<1>3. Owes(t, b)
  BY <1>2 DEF Owes
<1>4. PICK u : u = Unhold(t, b)
  OBVIOUS
<1>5. /\ u \in State /\ SameMlme(t, u) /\ u.conn = t.conn
      /\ u.current_bss = t.current_bss /\ Owes(u, None)
  BY <1>2, <1>3, <1>4, UnholdResult
<1>6. Clear(u)
  BY <1>2, <1>5 DEF Clear, SameMlme
<1>7. Good(u)
  BY <1>2, <1>5, <1>6, ClearIsGood
<1>8. Pending(u)
  BY <1>1, <1>2, <1>4, TurnPending, UnholdPending DEF ConnStates
<1> QED BY <1>1, <1>4, <1>7, <1>8 DEF AssocTimeout

\* So does a refused one, which ends the attempt unless it was a reassociation.
LEMMA AssocRefusedGood ==
    ASSUME NEW s \in State, NEW b \in Bss, Owes(s, b), s.auth_data = None,
           s.assoc_data = None, s.current_bss = None
    PROVE  Good(AssocRefused(s, b)) /\ Pending(AssocRefused(s, b))
<1>1. CASE s.conn # None /\ s.conn.prev # None
  <2>1. PICK u : u = Unhold(s, b)
    OBVIOUS
  <2>2. /\ u \in State /\ SameMlme(s, u) /\ u.conn = s.conn
        /\ u.current_bss = s.current_bss /\ Owes(u, None)
    BY <2>1, UnholdResult
  <2>3. Clear(u)
    BY <2>2 DEF Clear, SameMlme
  <2>4. PICK c : c = [u.conn EXCEPT !.prev = None]
    OBVIOUS
  <2>5. c \in Conns
    BY <1>1, <2>2, <2>4 DEF State, Conns
  <2>6. [u EXCEPT !.conn.prev = None] = [u EXCEPT !.conn = c]
    BY <2>4
  <2>7. /\ Good(Turn([u EXCEPT !.conn.prev = None], "ASSOCIATE_NEXT"))
        /\ Pending(Turn([u EXCEPT !.conn.prev = None], "ASSOCIATE_NEXT"))
    BY <2>3, <2>5, <2>6, ClearConn, TurnGood DEF ConnStates
  <2> QED BY <1>1, <2>1, <2>7 DEF AssocRefused
<1>2. CASE ~(s.conn # None /\ s.conn.prev # None)
  <2>1. PICK t : t = Turn(s, "ASSOC_FAILED")
    OBVIOUS
  <2>2. t \in State /\ SameMlme(s, t) /\ t.hold = s.hold /\ t.current_bss = s.current_bss
    BY <2>1, TurnResult DEF ConnStates
  <2>3. Owes(t, b)
    BY <2>2 DEF Owes
  <2>4. PICK u : u = Unhold(t, b)
    OBVIOUS
  <2>5. u \in State /\ SameMlme(t, u) /\ Owes(u, None)
    BY <2>2, <2>3, <2>4, UnholdResult
  <2>6. Good(ConnectFailed(u)) /\ Pending(ConnectFailed(u))
    BY <2>2, <2>5, ConnectFailedGood DEF SameMlme
  <2> QED BY <1>2, <2>1, <2>4, <2>6 DEF AssocRefused
<1> QED BY <1>1, <1>2

\* The hold of a successful association becomes that of current_bss.
LEMMA ConnectedToGood ==
    ASSUME NEW s \in State, NEW b \in Bss, Owes(s, b), s.auth_data = None,
           s.assoc_data = None, s.current_bss = None, s.associated = b,
           s.conn # None, s.conn.bssid = b
    PROVE  Good(ConnectedTo(s, b)) /\ Pending(ConnectedTo(s, b))
<1>1. PICK c : c = [s.conn EXCEPT !.state = "CONNECTED"]
  OBVIOUS
<1>2. c \in Conns /\ c.bssid = b /\ c.state = "CONNECTED" /\ c # None
  BY <1>1, NoneAssumption DEF State, Conns, ConnStates
<1>3. PICK t : t = [s EXCEPT !.conn = c]
  OBVIOUS
<1>4. /\ t \in State /\ SameMlme(s, t) /\ t.conn = c
      /\ t.hold = s.hold /\ t.current_bss = None
  BY <1>2, <1>3 DEF State, SameMlme
<1>5. [s EXCEPT !.conn.state = "CONNECTED"] = t
  BY <1>1, <1>3
<1>6. ConnectedTo(s, b) = [t EXCEPT !.current_bss = b]
  BY <1>4, <1>5 DEF ConnectedTo, DropCurrent
<1>7. PICK u : u = [t EXCEPT !.current_bss = b]
  OBVIOUS
<1>8. /\ u \in State /\ SameMlme(t, u) /\ u.conn = c
      /\ u.hold = s.hold /\ u.current_bss = b
  BY <1>4, <1>7 DEF State, SameMlme
<1>9. Owes(u, None)
  <2>1. \A x \in Bss : x # None /\ s.hold[x] = IF b = x THEN 1 ELSE 0
    BY SmeAssumption DEF Owes
  <2>2. \A x \in Bss : u.hold[x] = IF u.current_bss = x THEN 1 ELSE 0
    BY <1>8, <2>1
  <2> SUFFICES ASSUME NEW x \in Bss
               PROVE  u.hold[x] = (IF None = x THEN 1 ELSE 0) + (IF u.current_bss = x THEN 1 ELSE 0)
    BY DEF Owes
  <2>3. None # x
    BY <2>1
  <2> QED BY <2>2, <2>3
<1>10. b # None
  BY SmeAssumption
<1>11. u.auth_data = None /\ u.assoc_data = None /\ u.associated = b
  BY <1>4, <1>8 DEF SameMlme
<1>12. Owned(u) /\ Owes(u, Assoc(u))
  BY <1>2, <1>8, <1>9, <1>10, <1>11 DEF Owned, Assoc
<1> QED BY <1>2, <1>6, <1>7, <1>8, <1>12 DEF Good, Pending

-----------------------------------------------------------------------------
(* What cfg80211 asks of mac80211                                            *)

\* ieee80211_set_disassoc ends the connection, if it is that of current_bss.
LEMMA LeaveResult ==
    ASSUME NEW s \in State, NEW h, Owes(s, h),
           s.current_bss # None => s.current_bss = s.associated,
           NEW t, t = Leave(s)
    PROVE  /\ t \in State /\ Owes(t, h)
           /\ t.auth_data = s.auth_data /\ t.assoc_data = s.assoc_data
           /\ t.associated = None /\ t.current_bss = None
           /\ s.current_bss = None => t.conn = s.conn /\ t.known = s.known
           /\ s.current_bss # None => t.conn = None
<1>1. CASE s.associated = None
  BY <1>1 DEF Leave
<1>2. CASE s.associated # None
  <2>1. PICK u : u = [s EXCEPT !.associated = None]
    OBVIOUS
  <2>2. /\ u \in State /\ u.auth_data = s.auth_data /\ u.assoc_data = s.assoc_data
        /\ u.associated = None /\ u.conn = s.conn /\ u.known = s.known
        /\ u.hold = s.hold /\ u.current_bss = s.current_bss
    BY <2>1 DEF State
  <2>3. Owes(u, h)
    BY <2>2 DEF Owes
  <2>4. t = ProcessDeauth(u, s.associated)
    BY <1>2, <2>1 DEF Leave
  <2>5. /\ t \in State /\ SameMlme(u, t) /\ Owes(t, h)
        /\ u.current_bss = s.associated => t.conn = None /\ t.current_bss = None
        /\ u.current_bss # s.associated => t = u
    BY <2>2, <2>3, <2>4, ProcessDeauthResult
  <2> QED BY <1>2, <2>2, <2>5 DEF SameMlme
<1> QED BY <1>1, <1>2

\* From a good state it leads to a good one, with the same exchange in progress.
LEMMA LeaveGood ==
    ASSUME NEW s, Good(s), Pending(s) PROVE Good(Leave(s)) /\ Pending(Leave(s))
<1>1. PICK t : t = Leave(s)
  OBVIOUS
<1>2. s \in State /\ Owes(s, Assoc(s)) /\ (s.current_bss # None => s.current_bss = s.associated)
  BY DEF Good, Owned
<1>3. /\ t \in State /\ Owes(t, Assoc(s))
      /\ t.auth_data = s.auth_data /\ t.assoc_data = s.assoc_data
      /\ t.associated = None /\ t.current_bss = None
      /\ s.current_bss = None => t.conn = s.conn
      /\ s.current_bss # None => t.conn = None
  BY <1>1, <1>2, LeaveResult
<1>4. Owned(t)
  BY <1>3 DEF Good, Owned
<1>5. Pending(t)
  <2>1. CASE s.current_bss # None
    BY <1>3, <2>1 DEF Pending
  <2>2. CASE s.associated = None
    BY <1>1, <2>2 DEF Leave
  <2>3. CASE s.current_bss = None /\ s.associated # None
    <3>1. PICK u : u = [s EXCEPT !.associated = None]
      OBVIOUS
    <3>2. /\ u.conn = s.conn /\ u.auth_data = s.auth_data /\ u.assoc_data = s.assoc_data
          /\ u.scan_req = s.scan_req /\ u.conn_work = s.conn_work
          /\ u.current_bss = s.current_bss
      BY <1>2, <3>1 DEF State
    <3>3. t = u
      BY <1>1, <2>3, <3>1, <3>2 DEF Leave, ProcessDeauth
    <3> QED BY <3>2, <3>3, PendingCarries
  <2> QED BY <2>1, <2>2, <2>3
<1> QED BY <1>1, <1>3, <1>4, <1>5 DEF Good, Assoc

\* An abandoned association gives its hold back.
LEMMA AbandonResult ==
    ASSUME NEW s \in State, s.assoc_data # None, s.auth_data = None, s.current_bss = None,
           Owes(s, s.assoc_data.bss)
    PROVE  Clear(Abandon(s)) /\ Good(Abandon(s)) /\ Pending(Abandon(s))
<1>1. PICK b \in Bss : b = s.assoc_data.bss
  BY DEF State, Assocs
<1>2. PICK u : u = [s EXCEPT !.assoc_data = None]
  OBVIOUS
<1>3. /\ u \in State /\ u.auth_data = None /\ u.assoc_data = None
      /\ u.current_bss = None /\ u.hold = s.hold
  BY <1>2 DEF State
<1>4. PICK t : t = Turn(u, "ABANDON")
  OBVIOUS
<1>5. /\ t \in State /\ SameMlme(u, t) /\ t.hold = u.hold /\ t.current_bss = u.current_bss
      /\ t.conn = None \/ t.conn.state = "ABANDON"
  BY <1>3, <1>4, TurnResult DEF ConnStates
<1>6. Owes(t, b)
  BY <1>1, <1>3, <1>5 DEF Owes
<1>7. PICK v : v = Unhold(t, b)
  OBVIOUS
<1>8. /\ v \in State /\ SameMlme(t, v) /\ v.conn = t.conn
      /\ v.current_bss = t.current_bss /\ Owes(v, None)
  BY <1>5, <1>6, <1>7, UnholdResult
<1>9. Clear(v)
  BY <1>3, <1>5, <1>8 DEF Clear, SameMlme
<1>10. Good(v)
  BY <1>5, <1>8, <1>9, ClearIsGood
<1>11. Pending(v)
  BY <1>3, <1>4, <1>5, <1>7, TurnPending, UnholdPending DEF ConnStates
<1> QED BY <1>1, <1>2, <1>4, <1>7, <1>9, <1>10, <1>11 DEF Abandon

\* ieee80211_mgd_deauth of the BSS that all of it is about leaves mac80211 with
\* nothing in progress, and gives back the hold of an association.
LEMMA MgdDeauthClear ==
    ASSUME NEW s \in State, Owes(s, Assoc(s)), NEW b,
           s.auth_data # None =>
               s.auth_data.bss = b /\ s.assoc_data = None /\ s.current_bss = None,
           s.assoc_data # None =>
               s.assoc_data.bss = b /\ s.auth_data = None /\ s.current_bss = None,
           s.current_bss # None => s.current_bss = b /\ s.associated = b
    PROVE  Clear(MgdDeauth(s, b).s)
<1>1. CASE s.auth_data # None
  <2>1. PICK u : u = [s EXCEPT !.auth_data = None]
    OBVIOUS
  <2>2. /\ u \in State /\ u.auth_data = None /\ u.assoc_data = None
        /\ u.current_bss = None /\ u.hold = s.hold
    BY <1>1, <2>1 DEF State
  <2>3. Owes(u, None)
    BY <1>1, <2>2 DEF Owes, Assoc
  <2>4. b # None
    BY <1>1, SmeAssumption DEF State, Auths
  <2>5. ProcessDeauth(u, b) = u
    BY <2>2, <2>4 DEF ProcessDeauth
  <2>6. MgdDeauth(s, b).s = u
    BY <1>1, <2>1, <2>5 DEF MgdDeauth, Ok
  <2> QED BY <2>2, <2>3, <2>6 DEF Clear
<1>2. CASE s.assoc_data # None
  <2>1. Clear(Abandon(s))
    BY <1>2, AbandonResult DEF Assoc
  <2>2. b # None
    BY <1>2, SmeAssumption DEF State, Assocs
  <2>3. ProcessDeauth(Abandon(s), b) = Abandon(s)
    BY <2>1, <2>2 DEF ProcessDeauth, Clear
  <2>4. MgdDeauth(s, b).s = Abandon(s)
    BY <1>2, <2>3 DEF MgdDeauth, Ok
  <2> QED BY <2>1, <2>4
<1>3. CASE s.auth_data = None /\ s.assoc_data = None
  <2>1. Owes(s, None)
    BY <1>3 DEF Assoc
  <2>2. CASE s.associated = b
    <3>1. PICK t : t = Leave(s)
      OBVIOUS
    <3>2. /\ t \in State /\ Owes(t, None)
          /\ t.auth_data = s.auth_data /\ t.assoc_data = s.assoc_data /\ t.current_bss = None
      BY <2>1, <2>2, <3>1, LeaveResult
    <3>3. MgdDeauth(s, b).s = t
      BY <1>3, <2>2, <3>1 DEF MgdDeauth, Ok
    <3> QED BY <1>3, <3>2, <3>3 DEF Clear
  <2>3. CASE s.associated # b
    <3>1. MgdDeauth(s, b).s = s
      BY <1>3, <2>3 DEF MgdDeauth, Err
    <3> QED BY <1>3, <2>1, <2>3, <3>1 DEF Clear
  <2> QED BY <2>2, <2>3
<1> QED BY <1>1, <1>2, <1>3

\* A step of an attempt: a good state if it has begun an exchange, and nothing in
\* progress if it could not.
Begun(r) == /\ ~r.err => Good(r.s) /\ Pending(r.s)
            /\ r.err => Clear(r.s)

\* ieee80211_mgd_auth.
LEMMA MgdAuthBegun ==
    ASSUME NEW s, Clear(s), NEW b \in Bss, s.conn # None, s.conn.bssid = b,
           s.conn.state = "AUTHENTICATING", NEW r \in MgdAuth(s, b)
    PROVE  Begun(r)
<1>1. PICK u : u = [s EXCEPT !.auth_data = None]
  OBVIOUS
<1>2. Clear(u) /\ u.conn = s.conn
  BY <1>1 DEF Clear, State, Owes
<1>3. PICK t : t = Leave(u)
  OBVIOUS
<1>4. Clear(t) /\ t.conn = s.conn
  BY <1>2, <1>3, LeaveResult DEF Clear
<1>5. PICK a : a = [bss |-> b, done |-> FALSE, late |-> FALSE, tries |-> 1]
  OBVIOUS
<1>6. a \in Auths /\ a # None /\ a.bss = b /\ a.done = FALSE
  <2>1. 1 \in 1 .. MaxTries
    BY SmeAssumption
  <2>2. a \in Auths
    BY <1>5, <2>1 DEF Auths
  <2> QED BY <1>5, <2>2, NoneAssumption
<1>7. PICK v : v = [t EXCEPT !.auth_data = a, !.onair = @ \cup {"auth"}]
  OBVIOUS
<1>8. /\ v \in State /\ v.auth_data = a /\ v.assoc_data = None /\ v.conn = s.conn
      /\ v.current_bss = None /\ v.hold = t.hold
  BY <1>4, <1>6, <1>7 DEF Clear, State
<1>9. Good(v)
  BY <1>4, <1>6, <1>8 DEF Good, Owned, Owes, Assoc, Clear
<1>10. Pending(v)
  BY <1>6, <1>8 DEF Pending
<1>11. r = Err(s) \/ r = Err(t) \/ r = Ok(v)
  BY <1>1, <1>3, <1>5, <1>7 DEF MgdAuth, Clear
<1> QED BY <1>4, <1>9, <1>10, <1>11 DEF Begun, Ok, Err

\* cfg80211_mlme_auth, for the attempt's next step.
LEMMA MlmeAuthBegun ==
    ASSUME NEW s, Clear(s), s.conn # None, s.conn.state = "AUTHENTICATING",
           NEW r \in MlmeAuth(s, s.conn.bssid)
    PROVE  Begun(r)
<1>1. CASE Matches(s, s.conn.bssid)
  <2>1. s.conn.bssid \in Bss
    BY <1>1 DEF Matches, Clear, State
  <2>2. r \in MgdAuth(s, s.conn.bssid)
    BY <1>1, <2>1, SmeAssumption DEF MlmeAuth, Clear
  <2> QED BY <2>1, <2>2, MgdAuthBegun
<1>2. CASE ~Matches(s, s.conn.bssid)
  BY <1>2 DEF MlmeAuth, Begun, Err
<1> QED BY <1>1, <1>2

\* An exchange that is done, if any, is that of the attempt that associates now.
Ready(s) ==
    /\ s \in State /\ Owes(s, None) /\ s.assoc_data = None /\ s.current_bss = None
    /\ s.conn # None /\ s.conn.state = "ASSOCIATING"
    /\ s.auth_data # None => s.auth_data.done /\ s.auth_data.bss = s.conn.bssid

\* ieee80211_mgd_assoc, and the hold that cfg80211_mlme_assoc takes then.
LEMMA MlmeAssocBegun ==
    ASSUME NEW s, Ready(s), NEW r \in MlmeAssoc(s, s.conn.bssid)
    PROVE  /\ ~r.err => Good(r.s) /\ Pending(r.s)
           /\ r.err => Ready(r.s) /\ r.s.conn = s.conn
<1> DEFINE b == s.conn.bssid
<1>1. CASE ~Matches(s, b)
  BY <1>1 DEF MlmeAssoc, Err
<1>2. CASE Matches(s, b)
  <2>1. b \in Bss
    BY <1>2 DEF Matches, Ready, State
  <2>2. PICK t : t = Leave(s)
    OBVIOUS
  <2>3. /\ t \in State /\ Owes(t, None) /\ t.auth_data = s.auth_data /\ t.assoc_data = None
        /\ t.current_bss = None /\ t.conn = s.conn
    BY <2>2, LeaveResult DEF Ready
  <2>4. PICK u : u = [t EXCEPT !.auth_data = None]
    OBVIOUS
  <2>5. Clear(u) /\ u.conn = s.conn
    BY <2>3, <2>4 DEF Clear, State, Owes
  <2>6. PICK a : a = [bss |-> b, late |-> FALSE, tries |-> 0]
    OBVIOUS
  <2>7. a \in Assocs /\ a # None /\ a.bss = b
    <3>1. 0 \in 0 .. MaxTries
      BY SmeAssumption
    <3>2. a \in Assocs
      BY <2>1, <2>6, <3>1 DEF Assocs
    <3> QED BY <2>6, <3>2, NoneAssumption
  <2>8. PICK v : v = [u EXCEPT !.assoc_data = a]
    OBVIOUS
  <2>9. /\ v \in State /\ v.assoc_data = a /\ v.auth_data = None /\ v.conn = s.conn
        /\ v.current_bss = None /\ v.hold = u.hold
    BY <2>5, <2>7, <2>8 DEF Clear, State
  <2>10. PICK f : f = [v.hold EXCEPT ![b] = @ + 1]
    OBVIOUS
  <2>11. f \in [Bss -> Int] /\ f[b] = u.hold[b] + 1 /\ \A x \in Bss \ {b} : f[x] = u.hold[x]
    BY <2>1, <2>5, <2>9, <2>10 DEF Clear, State
  <2>12. PICK w : w = [v EXCEPT !.hold = f]
    OBVIOUS
  <2>13. /\ w \in State /\ w.assoc_data = a /\ w.auth_data = None /\ w.conn = s.conn
         /\ w.current_bss = None /\ w.hold = f
    BY <2>9, <2>11, <2>12 DEF State
  <2>14. Owes(w, b)
    <3>1. \A x \in Bss : u.hold[x] = 0 /\ x # None
      BY <2>5, SmeAssumption DEF Clear, Owes
    <3> QED BY <2>1, <2>11, <2>13, <3>1 DEF Owes
  <2>15. Good(w) /\ Pending(w)
    BY <2>7, <2>13, <2>14 DEF Good, Owned, Assoc, Ready, Pending
  <2>16. [v EXCEPT !.hold[b] = @ + 1] = w
    BY <2>10, <2>12
  <2>17. MgdAssoc(s, b) \subseteq {Err(s), Err(t), Err(u), Ok(v)}
    BY <2>2, <2>4, <2>6, <2>8 DEF MgdAssoc
  <2>18. PICK q \in MgdAssoc(s, b) : r = IF q.err THEN q ELSE Ok([q.s EXCEPT !.hold[b] = @ + 1])
    BY <1>2 DEF MlmeAssoc, Ready
  <2>19. r \in {Err(s), Err(t), Err(u), Ok(w)}
    <3>1. q = Err(s) \/ q = Err(t) \/ q = Err(u) \/ q = Ok(v)
      BY <2>17, <2>18
    <3>2. CASE q = Err(s) \/ q = Err(t) \/ q = Err(u)
      BY <2>18, <3>2 DEF Err
    <3>3. CASE q = Ok(v)
      <4>1. ~q.err /\ q.s = v
        BY <3>3 DEF Ok
      <4> QED BY <2>16, <2>18, <4>1
    <3> QED BY <3>1, <3>2, <3>3
  <2>20. Ready(t) /\ Ready(u)
    BY <2>3, <2>5 DEF Ready, Clear
  <2> QED BY <2>3, <2>5, <2>15, <2>19, <2>20 DEF Ok, Err
<1> QED BY <1>1, <1>2

-----------------------------------------------------------------------------
(* The steps of an attempt                                                   *)

\* An attempt that is neither CONNECTED nor in an exchange has nothing in
\* progress.
LEMMA AttemptClear ==
    ASSUME NEW s, Good(s), s.conn # None,
           s.conn.state \notin {"CONNECTED", "ASSOCIATE_NEXT", "AUTHENTICATING", "ASSOCIATING"}
    PROVE  Clear(s)
<1>1. s.auth_data = None /\ s.assoc_data = None /\ s.current_bss = None
  BY DEF Good, Owned
<1> QED BY <1>1 DEF Good, Clear, Assoc

\* A new state of the attempt's record only.
LEMMA NewStateResult ==
    ASSUME NEW s \in State, s.conn # None, NEW state \in ConnStates,
           NEW t, t = [s EXCEPT !.conn.state = state]
    PROVE  /\ t \in State /\ SameMlme(s, t) /\ t.hold = s.hold /\ t.current_bss = s.current_bss
           /\ t.conn # None /\ t.conn.state = state /\ t.conn.bssid = s.conn.bssid
           /\ t.known = s.known /\ t.ssid = s.ssid
<1>1. PICK c : c = [s.conn EXCEPT !.state = state]
  OBVIOUS
<1>2. c \in Conns /\ c # None /\ c.state = state /\ c.bssid = s.conn.bssid
  BY <1>1, NoneAssumption DEF State, Conns
<1>3. t = [s EXCEPT !.conn = c]
  BY <1>1
<1>4. t \in State
  BY <1>2, <1>3 DEF State
<1> QED BY <1>2, <1>3, <1>4 DEF State, SameMlme

\* cfg80211_conn_scan; -EBUSY leaves everything as it is.
LEMMA ConnScanBegun ==
    ASSUME NEW s, Clear(s), s.conn # None, NEW r \in ConnScan(s)
    PROVE  Begun(r) /\ (r.busy => r.s = s)
<1>1. PICK t : t = [s EXCEPT !.conn.state = "SCANNING"]
  OBVIOUS
<1>2. /\ t \in State /\ SameMlme(s, t) /\ t.hold = s.hold /\ t.current_bss = s.current_bss
      /\ t.conn.state = "SCANNING"
  BY <1>1, NewStateResult DEF Clear, ConnStates
<1>3. PICK u : u = [t EXCEPT !.scan_req = TRUE]
  OBVIOUS
<1>4. /\ u \in State /\ SameMlme(t, u) /\ u.hold = t.hold /\ u.current_bss = t.current_bss
      /\ u.conn = t.conn
  BY <1>2, <1>3 DEF State, SameMlme
<1>5. Clear(u)
  BY <1>2, <1>4 DEF Clear, SameMlme, Owes
<1>6. Good(u)
  BY <1>2, <1>4, <1>5, ClearIsGood
<1>7. [s EXCEPT !.scan_req = TRUE, !.conn.state = "SCANNING"] = u
  BY <1>1, <1>3, <1>4 DEF Clear, State
<1>8. u.scan_req = TRUE
  BY <1>2, <1>3 DEF State
<1>9. Pending(u)
  BY <1>2, <1>4, <1>8 DEF Pending
<1>10. r = Busy(s) \/ r = Err(s) \/ r = Ok(u)
  BY <1>7 DEF ConnScan
<1> QED BY <1>6, <1>9, <1>10 DEF Begun, Ok, Err, Busy

\* cfg80211_conn_do_work, whatever the state of the attempt; conn_work need not be
\* queued any more.
LEMMA DoWorkBegun ==
    ASSUME NEW s, Good(s), s.conn # None, s.conn.state # "CONNECTED", NEW r \in DoWork(s),
           s.conn.state = "AUTHENTICATING" => s.auth_data # None,
           s.conn.state = "ASSOCIATING" => s.assoc_data # None
    PROVE  Begun(r)
<1> DEFINE state == s.conn.state
           b == s.conn.bssid
<1>0. s \in State /\ s.conn \in Conns /\ state \in ConnStates
  BY DEF Good, State, Conns
<1>1. CASE state \in {"SCANNING", "AUTH_FAILED_TIMEOUT"}
  <2>1. Clear(s)
    BY <1>1, AttemptClear
  <2>2. r = Err(s)
    BY <1>1 DEF DoWork
  <2> QED BY <2>1, <2>2 DEF Begun, Err
<1>2. CASE state = "SCAN_AGAIN"
  <2>1. Clear(s)
    BY <1>2, AttemptClear
  <2>2. r \in ConnScan(s)
    BY <1>2 DEF DoWork
  <2> QED BY <2>1, <2>2, ConnScanBegun
<1>3. CASE state = "AUTHENTICATE_NEXT"
  <2>1. Clear(s)
    BY <1>3, AttemptClear
  <2>2. PICK t : t = [s EXCEPT !.conn.state = "AUTHENTICATING"]
    OBVIOUS
  <2>3. /\ t \in State /\ SameMlme(s, t) /\ t.hold = s.hold /\ t.current_bss = s.current_bss
        /\ t.conn # None /\ t.conn.state = "AUTHENTICATING" /\ t.conn.bssid = b
    BY <1>0, <2>2, NewStateResult DEF ConnStates
  <2>4. Clear(t)
    BY <2>1, <2>3 DEF Clear, SameMlme, Owes
  <2>5. r \in MlmeAuth(t, t.conn.bssid)
    BY <1>3, <2>2, <2>3 DEF DoWork
  <2> QED BY <2>3, <2>4, <2>5, MlmeAuthBegun
<1>4. CASE state = "ASSOCIATE_NEXT"
  <2>1. PICK t : t = [s EXCEPT !.conn.state = "ASSOCIATING"]
    OBVIOUS
  <2>2. /\ t \in State /\ SameMlme(s, t) /\ t.hold = s.hold /\ t.current_bss = s.current_bss
        /\ t.conn # None /\ t.conn.state = "ASSOCIATING" /\ t.conn.bssid = b
    BY <1>0, <2>1, NewStateResult DEF ConnStates
  <2>3. /\ s.assoc_data = None /\ s.current_bss = None /\ Owes(s, None)
        /\ s.auth_data # None => s.auth_data.bss = b /\ s.auth_data.done
    <3>1. s.assoc_data = None /\ s.current_bss = None
      BY <1>4 DEF Good, Owned
    <3>2. s.auth_data # None => s.auth_data.bss = b /\ s.auth_data.done
      BY <1>0, <1>4 DEF Good, Owned, State, Auths
    <3> QED BY <3>1, <3>2 DEF Good, Assoc
  <2>4. Ready(t)
    BY <2>2, <2>3 DEF Ready, SameMlme, Owes
  <2>5. PICK q \in MlmeAssoc(t, t.conn.bssid) : r = IF q.err THEN Err(MgdDeauth(q.s, b).s) ELSE q
    BY <1>4, <2>1, <2>2 DEF DoWork
  <2>6. CASE ~q.err
    BY <2>4, <2>5, <2>6, MlmeAssocBegun DEF Begun
  <2>7. CASE q.err
    <3>1. Ready(q.s) /\ q.s.conn.bssid = b
      BY <2>2, <2>4, <2>5, <2>7, MlmeAssocBegun
    <3>2. Owes(q.s, Assoc(q.s))
      BY <3>1 DEF Ready, Assoc
    <3>3. Clear(MgdDeauth(q.s, b).s)
      BY <3>1, <3>2, MgdDeauthClear DEF Ready
    <3> QED BY <2>5, <2>7, <3>3 DEF Begun, Err
  <2> QED BY <2>6, <2>7
<1>5. CASE state \in {"ASSOC_FAILED", "ASSOC_FAILED_TIMEOUT", "DEAUTH"}
  <2>1. Clear(s)
    BY <1>5, AttemptClear
  <2>2. Owes(s, Assoc(s))
    BY DEF Good
  <2>3. Clear(MgdDeauth(s, b).s)
    BY <2>1, <2>2, MgdDeauthClear DEF Clear
  <2>4. PICK t : t = [MgdDeauth(s, b).s EXCEPT !.conn = None]
    OBVIOUS
  <2>5. Clear(t) /\ t.conn = None
    BY <2>3, <2>4, ClearConn
  <2>6. Good(t)
    BY <2>5, ClearIsGood
  <2>7. CASE state = "DEAUTH"
    <3>1. r = Ok(t)
      BY <2>4, <2>7 DEF DoWork
    <3> QED BY <2>5, <2>6, <3>1 DEF Begun, Ok, Pending
  <2>8. CASE state # "DEAUTH"
    <3>1. r = Err(MgdDeauth(s, b).s)
      BY <1>5, <2>8 DEF DoWork
    <3> QED BY <2>3, <3>1 DEF Begun, Err
  <2> QED BY <2>7, <2>8
<1>6. CASE state = "ABANDON"
  <2>1. PICK t : t = [s EXCEPT !.conn = None]
    OBVIOUS
  <2>2. Clear(s)
    BY <1>6, AttemptClear
  <2>3. Clear(t) /\ t.conn = None
    BY <2>1, <2>2, ClearConn
  <2>4. Good(t)
    BY <2>3, ClearIsGood
  <2>5. r = Ok(t)
    BY <1>6, <2>1 DEF DoWork
  <2> QED BY <2>3, <2>4, <2>5 DEF Begun, Ok, Pending
<1>7. CASE state \in {"AUTHENTICATING", "ASSOCIATING"}
  <2>1. r = Ok(s)
    BY <1>7 DEF DoWork
  <2> QED BY <1>7, <2>1 DEF Begun, Ok, Pending
<1> QED BY <1>0, <1>1, <1>2, <1>3, <1>4, <1>5, <1>6, <1>7 DEF ConnStates

\* The BSS to connect to is chosen with nothing in progress.
LEMMA ChooseGood ==
    ASSUME NEW s, Clear(s), s.conn # None, NEW b \in Bss
    PROVE  /\ Good(Choose(s, b)) /\ Pending(Choose(s, b)) /\ Choose(s, b).conn # None
           /\ Choose(s, b).conn.state = "AUTHENTICATE_NEXT"
<1>1. PICK c : c = [s.conn EXCEPT !.bssid = b]
  OBVIOUS
<1>2. c \in Conns /\ c # None
  BY <1>1, NoneAssumption DEF Clear, State, Conns
<1>3. PICK t : t = [s EXCEPT !.conn = c]
  OBVIOUS
<1>4. Clear(t) /\ t.conn = c
  BY <1>2, <1>3, ClearConn
<1>5. PICK u : u = Turn(t, "AUTHENTICATE_NEXT")
  OBVIOUS
<1>6. Good(u) /\ Pending(u) /\ u.conn # None /\ u.conn.state = "AUTHENTICATE_NEXT"
  BY <1>2, <1>4, <1>5, TurnGood, TurnResult DEF Clear, ConnStates
<1>7. [s EXCEPT !.conn.bssid = b] = t
  BY <1>1, <1>3
<1> QED BY <1>5, <1>6, <1>7 DEF Choose

\* cfg80211_sme_connect.
LEMMA BeginBegun ==
    ASSUME NEW s, Clear(s), s.conn = None, NEW c \in Conns, c.state = "SCANNING",
           NEW r \in Begin(s, c)
    PROVE  Begun(r)
<1>1. PICK t : t = [s EXCEPT !.conn = c]
  OBVIOUS
<1>2. Clear(t) /\ t.conn = c /\ c # None
  BY <1>1, ClearConn, NoneAssumption
<1>3. PICK u : u = [t EXCEPT !.conn.state = "SCAN_AGAIN"]
  OBVIOUS
<1>4. /\ u \in State /\ SameMlme(t, u) /\ u.hold = t.hold /\ u.current_bss = t.current_bss
      /\ u.conn.state = "SCAN_AGAIN"
  BY <1>2, <1>3, NewStateResult DEF Clear, ConnStates
<1>5. Clear(u)
  BY <1>2, <1>4 DEF Clear, SameMlme, Owes
<1>6. Good(u) /\ Pending(u)
  BY <1>4, <1>5, ClearIsGood DEF Pending
<1>7. \/ r = Err(s)
      \/ \E b \in Candidates(t) : r \in DoWork(Choose(t, b))
      \/ \E q \in ConnScan(t) :
             r = IF q.busy THEN Ok([q.s EXCEPT !.conn.state = "SCAN_AGAIN"]) ELSE q
  BY <1>1 DEF Begin
<1>8. CASE \E b \in Candidates(t) : r \in DoWork(Choose(t, b))
  <2>1. PICK b \in Bss : r \in DoWork(Choose(t, b))
    BY <1>8 DEF Candidates
  <2> QED BY <1>2, <2>1, ChooseGood, DoWorkBegun
<1>9. ASSUME NEW q \in ConnScan(t),
             r = IF q.busy THEN Ok([q.s EXCEPT !.conn.state = "SCAN_AGAIN"]) ELSE q
      PROVE  Begun(r)
  <2>1. Begun(q) /\ (q.busy => q.s = t)
    BY <1>2, ConnScanBegun
  <2>2. CASE q.busy
    <3>1. r = Ok(u)
      BY <1>3, <1>9, <2>1, <2>2
    <3> QED BY <1>6, <3>1 DEF Begun, Ok
  <2> QED BY <1>9, <2>1, <2>2
<1>10. CASE r = Err(s)
  BY <1>10 DEF Begun, Err
<1> QED BY <1>7, <1>8, <1>9, <1>10

-----------------------------------------------------------------------------
(* The handlers keep the state good                                          *)

\* What a handler leaves is the state after the step.
LEMMA BecomesGood ==
    ASSUME NEW s, Good(s), Pending(s), Becomes(s) PROVE Good(Now)' /\ Pending(Now)'
<1>1. Now' = s
  BY DEF Good, State, Becomes, Now
<1> QED BY <1>1

\* The record of all the variables has them as its fields.
LEMMA NowFields ==
    /\ Now.conn = conn /\ Now.ssid = ssid /\ Now.ssid_len = ssid_len
    /\ Now.current_bss = current_bss /\ Now.conn_work = conn_work
    /\ Now.scan_req = scan_req /\ Now.known = known /\ Now.hold = hold
    /\ Now.auth_data = auth_data /\ Now.assoc_data = assoc_data
    /\ Now.associated = associated /\ Now.status = status /\ Now.onair = onair
    /\ Now.sta_work = sta_work
BY DEF Now

\* Timeouts, tries, works, scans and the list of BSSs are not what makes a state
\* good, and an authentication may be dropped at any time.
LEMMA GoodCarries ==
    ASSUME NEW s, Good(s), NEW t \in State,
           t.conn = s.conn, t.current_bss = s.current_bss, t.hold = s.hold,
           t.associated = s.associated,
           t.auth_data # None => /\ s.auth_data # None
                                 /\ t.auth_data.bss = s.auth_data.bss
                                 /\ t.auth_data.done = s.auth_data.done,
           t.assoc_data = None <=> s.assoc_data = None,
           t.assoc_data # None => t.assoc_data.bss = s.assoc_data.bss
    PROVE  Good(t)
<1>1. Owned(t)
  BY DEF Good, Owned
<1>2. Assoc(t) = Assoc(s)
  BY DEF Assoc
<1>3. Owes(t, Assoc(t))
  BY <1>2 DEF Good, Owes
<1> QED BY <1>1, <1>3 DEF Good

\* cfg80211_conn_work.
LEMMA ConnWorkGood ==
    ASSUME Good(Now), Pending(Now), ConnWork PROVE Good(Now)' /\ Pending(Now)'
<1>1. PICK s : s = [Now EXCEPT !.conn_work = FALSE]
  OBVIOUS
<1>2. s \in State /\ SameMlme(Now, s) /\ s.conn = conn /\ s.hold = Now.hold
      /\ s.current_bss = Now.current_bss
  BY <1>1, NowFields DEF Good, State, SameMlme
<1>3. Good(s)
  BY <1>2, NowFields, GoodCarries DEF SameMlme
<1>4. CASE conn = None \/ conn.state = "CONNECTED"
  <2>1. Pending(s)
    BY <1>2, <1>4 DEF Pending
  <2> QED BY <1>1, <1>3, <1>4, <2>1, BecomesGood DEF ConnWork
<1>5. CASE conn # None /\ conn.state # "CONNECTED"
  <2>1. PICK r \in DoWork(s) : Becomes(IF r.err THEN ConnectFailed(r.s) ELSE r.s)
    BY <1>1, <1>5 DEF ConnWork
  <2>2. Begun(r)
    <3>1. /\ s.conn.state = "AUTHENTICATING" => s.auth_data # None
          /\ s.conn.state = "ASSOCIATING" => s.assoc_data # None
      BY <1>2, <1>5, NowFields DEF Pending, SameMlme
    <3> QED BY <1>2, <1>3, <1>5, <2>1, <3>1, DoWorkBegun
  <2>3. CASE r.err
    <3>1. Good(ConnectFailed(r.s)) /\ Pending(ConnectFailed(r.s))
      BY <2>2, <2>3, ConnectFailedGood DEF Begun, Clear
    <3> QED BY <2>1, <2>3, <3>1, BecomesGood
  <2>4. CASE ~r.err
    BY <2>1, <2>2, <2>4, BecomesGood DEF Begun
  <2> QED BY <2>3, <2>4
<1> QED BY <1>4, <1>5

\* ssid_len is of no matter here.
LEMMA SsidLenGood ==
    ASSUME NEW s, Good(s), Pending(s), NEW x \in BOOLEAN
    PROVE  Good([s EXCEPT !.ssid_len = x]) /\ Pending([s EXCEPT !.ssid_len = x])
<1>1. PICK t : t = [s EXCEPT !.ssid_len = x]
  OBVIOUS
<1>2. /\ t \in State /\ SameMlme(s, t) /\ t.conn = s.conn /\ t.hold = s.hold
      /\ t.current_bss = s.current_bss
      /\ t.scan_req = s.scan_req /\ t.conn_work = s.conn_work
  BY <1>1 DEF Good, State, SameMlme
<1> QED BY <1>1, <1>2, GoodCarries, PendingCarries DEF SameMlme

\* cfg80211_connect.
LEMMA ConnectGood ==
    ASSUME Good(Now), Pending(Now), NEW want \in Ssids, NEW bssid \in Bss \cup {None},
           NEW prev \in Bss \cup {None}, NEW auto \in BOOLEAN, Connect(want, bssid, prev, auto)
    PROVE  Good(Now)' /\ Pending(Now)'
<1> DEFINE failed(u) == IF u.current_bss = None THEN [u EXCEPT !.ssid_len = FALSE] ELSE u
<1>1. PICK s : s = [Now EXCEPT !.ssid = want, !.ssid_len = TRUE]
  OBVIOUS
<1>2. /\ s \in State /\ SameMlme(Now, s) /\ s.conn = conn /\ s.hold = Now.hold
      /\ s.current_bss = current_bss /\ s.scan_req = scan_req /\ s.conn_work = conn_work
  BY <1>1, NowFields DEF Good, State, SameMlme
<1>3. Good(s) /\ Pending(s)
  BY <1>2, NowFields, GoodCarries, PendingCarries DEF SameMlme
<1>4. PICK t : t = IF current_bss = None THEN s ELSE [DropCurrent(s) EXCEPT !.conn = None]
  OBVIOUS
<1>5. PICK c : c = [state |-> "SCANNING", bssid |-> bssid, prev |-> prev, auto |-> auto]
  OBVIOUS
<1>6. c \in Conns /\ c.state = "SCANNING"
  BY <1>5 DEF Conns, ConnStates
<1>7. IF t.conn # None THEN Becomes(failed(t))
      ELSE \E r \in Begin(t, c) : Becomes(IF r.err THEN failed([r.s EXCEPT !.conn = None]) ELSE r.s)
  BY <1>1, <1>4, <1>5 DEF Connect
<1>8. ASSUME NEW u, Good(u), Pending(u) PROVE Good(failed(u)) /\ Pending(failed(u))
  BY <1>8, SsidLenGood
<1> HIDE DEF failed
<1>9. CASE current_bss = None
  <2>1. t = s
    BY <1>4, <1>9
  <2>2. CASE t.conn # None
    BY <1>3, <1>7, <1>8, <2>1, <2>2, BecomesGood
  <2>3. CASE t.conn = None
    <3>1. Clear(t)
      BY <1>2, <1>3, <1>9, <2>1, <2>3 DEF Good, Owned, Clear, Assoc
    <3>2. PICK r \in Begin(t, c) :
                   Becomes(IF r.err THEN failed([r.s EXCEPT !.conn = None]) ELSE r.s)
      BY <1>7, <2>3
    <3>3. Begun(r)
      BY <1>6, <2>3, <3>1, <3>2, BeginBegun
    <3>4. r.err => /\ Good(failed([r.s EXCEPT !.conn = None]))
                   /\ Pending(failed([r.s EXCEPT !.conn = None]))
      BY <1>8, <3>3, ClearConn, ClearIsGood DEF Begun, Pending
    <3> QED BY <3>2, <3>3, <3>4, BecomesGood DEF Begun
  <2> QED BY <2>2, <2>3
<1>10. CASE current_bss # None
  <2>1. s.auth_data = None /\ s.assoc_data = None /\ Owes(s, None)
    <3>1. s.conn # None /\ s.conn.state = "CONNECTED"
      BY <1>2, <1>3, <1>10 DEF Good, Owned
    <3>2. s.auth_data = None /\ s.assoc_data = None
      BY <1>3, <3>1 DEF Good, Owned
    <3> QED BY <1>3, <3>2 DEF Good, Assoc
  <2>2. PICK d : d = DropCurrent(s)
    OBVIOUS
  <2>3. d \in State /\ SameMlme(s, d) /\ d.current_bss = None /\ Owes(d, None)
    BY <1>2, <2>1, <2>2, DropCurrentResult
  <2>4. Clear(d)
    BY <2>1, <2>3 DEF Clear, SameMlme
  <2>5. t = [d EXCEPT !.conn = None]
    BY <1>4, <1>10, <2>2
  <2>6. Clear(t) /\ t.conn = None
    BY <2>4, <2>5, ClearConn
  <2>7. PICK r \in Begin(t, c) : Becomes(IF r.err THEN failed([r.s EXCEPT !.conn = None]) ELSE r.s)
    BY <1>7, <2>6
  <2>8. Begun(r)
    BY <1>6, <2>6, <2>7, BeginBegun
  <2>9. r.err => /\ Good(failed([r.s EXCEPT !.conn = None]))
                 /\ Pending(failed([r.s EXCEPT !.conn = None]))
    BY <1>8, <2>8, ClearConn, ClearIsGood DEF Begun, Pending
  <2> QED BY <2>7, <2>8, <2>9, BecomesGood DEF Begun
<1> QED BY <1>9, <1>10

\* cfg80211_disconnect.
LEMMA DisconnectGood ==
    ASSUME Good(Now), Pending(Now), Disconnect PROVE Good(Now)' /\ Pending(Now)'
<1>1. conn # None
  BY NowFields DEF Disconnect, Good, Owned
<1>2. PICK s : s = IF conn.state \in {"SCANNING", "SCAN_AGAIN"}
                   THEN Now ELSE MgdDeauth(Now, conn.bssid).s
  OBVIOUS
<1>3. Clear(s)
  <2>1. CASE conn.state \in {"SCANNING", "SCAN_AGAIN"}
    BY <1>1, <1>2, <2>1, NowFields, AttemptClear
  <2>2. CASE conn.state \notin {"SCANNING", "SCAN_AGAIN"}
    <3>1. /\ auth_data # None =>
                 auth_data.bss = conn.bssid /\ assoc_data = None /\ current_bss = None
          /\ assoc_data # None =>
                 assoc_data.bss = conn.bssid /\ auth_data = None /\ current_bss = None
          /\ current_bss # None => current_bss = conn.bssid /\ associated = conn.bssid
      BY NowFields DEF Good, Owned
    <3>2. Now \in State /\ Owes(Now, Assoc(Now))
      BY DEF Good
    <3> QED BY <1>2, <2>2, <3>1, <3>2, NowFields, MgdDeauthClear
  <2> QED BY <2>1, <2>2
<1>4. PICK t : t = [s EXCEPT !.conn = None]
  OBVIOUS
<1>5. Good(t) /\ Pending(t)
  BY <1>3, <1>4, ClearConn, ClearIsGood DEF Pending
<1>6. Becomes(IF t.current_bss = None THEN [t EXCEPT !.ssid_len = FALSE] ELSE t)
  BY <1>1, <1>2, <1>4 DEF Disconnect
<1> QED BY <1>5, <1>6, SsidLenGood, BecomesGood

\* A scan of the user's own, and a BSS that expires.
LEMMA ScanExpireGood ==
    ASSUME Good(Now), Pending(Now), UserScan \/ \E b \in Bss : Expire(b)
    PROVE  Good(Now)' /\ Pending(Now)'
<1>1. PICK s : /\ Becomes(s)
               /\ \/ s = [Now EXCEPT !.scan_req = TRUE]
                  \/ \E b \in Bss : s = [Now EXCEPT !.known = @ \ {b}]
  BY DEF UserScan, Expire
<1>2. /\ s \in State /\ SameMlme(Now, s) /\ s.conn = Now.conn /\ s.hold = Now.hold
      /\ s.current_bss = Now.current_bss
      /\ (Now.scan_req => s.scan_req) /\ s.conn_work = Now.conn_work
  <2>1. CASE s = [Now EXCEPT !.scan_req = TRUE]
    BY <2>1 DEF Good, State, SameMlme
  <2>2. ASSUME NEW b \in Bss, s = [Now EXCEPT !.known = @ \ {b}]
        PROVE  /\ s \in State /\ SameMlme(Now, s) /\ s.conn = Now.conn /\ s.hold = Now.hold
               /\ s.current_bss = Now.current_bss
               /\ (Now.scan_req => s.scan_req) /\ s.conn_work = Now.conn_work
    BY <2>2 DEF Good, State, SameMlme
  <2> QED BY <1>1, <2>1, <2>2
<1>3. Good(s) /\ Pending(s)
  BY <1>2, GoodCarries, PendingCarries DEF SameMlme
<1> QED BY <1>1, <1>3, BecomesGood

\* ___cfg80211_scan_done, which an attempt may have been waiting for.
LEMMA ScanDoneGood ==
    ASSUME Good(Now), Pending(Now), NEW found \in SUBSET Bss, ScanDone(found)
    PROVE  Good(Now)' /\ Pending(Now)'
<1>1. PICK s : s = [Now EXCEPT !.scan_req = FALSE, !.known = @ \cup found]
  OBVIOUS
<1>2. /\ s \in State /\ SameMlme(Now, s) /\ s.conn = conn /\ s.hold = Now.hold
      /\ s.current_bss = Now.current_bss /\ s.conn_work = conn_work
  BY <1>1, NowFields DEF Good, State, SameMlme
<1>3. Good(s)
  BY <1>2, NowFields, GoodCarries DEF SameMlme
<1>4. PICK t : t = [s EXCEPT !.conn_work = TRUE]
  OBVIOUS
<1>5. /\ t \in State /\ SameMlme(s, t) /\ t.conn = s.conn /\ t.hold = s.hold
      /\ t.current_bss = s.current_bss /\ t.conn_work = TRUE
  BY <1>2, <1>4 DEF State, SameMlme
<1>6. Good(t) /\ Pending(t)
  <2>1. Pending(t)
    BY <1>2, <1>5, NowFields DEF Pending, SameMlme
  <2> QED BY <1>3, <1>5, <2>1, GoodCarries DEF SameMlme
<1>7. \/ (conn = None \/ conn.state # "SCANNING") /\ Becomes(s)
      \/ Becomes(t)
      \/ /\ conn # None /\ conn.state \in {"SCANNING", "SCAN_AGAIN"}
         /\ \E b \in Candidates(s) : Becomes(Choose(s, b))
  BY <1>1, <1>4 DEF ScanDone
<1>8. ASSUME conn # None, conn.state \in {"SCANNING", "SCAN_AGAIN"},
             NEW b \in Candidates(s), Becomes(Choose(s, b))
      PROVE  Good(Now)' /\ Pending(Now)'
  <2>1. b \in Bss /\ Clear(s)
    BY <1>2, <1>3, <1>8, AttemptClear DEF Candidates
  <2> QED BY <1>2, <1>8, <2>1, ChooseGood, BecomesGood
<1>9. CASE conn = None \/ conn.state # "SCANNING"
  <2>1. Pending(s)
    BY <1>2, <1>9, NowFields DEF Pending, SameMlme
  <2> QED BY <1>3, <1>6, <1>7, <1>8, <2>1, BecomesGood
<1> QED BY <1>6, <1>7, <1>8, <1>9, BecomesGood

\* An answer to the authentication: its attempt waits for it.
LEMMA RxAuthGood ==
    ASSUME Good(Now), Pending(Now), NEW b \in Bss, NEW code, RxAuth(b, code)
    PROVE  Good(Now)' /\ Pending(Now)'
<1>1. /\ auth_data # None /\ auth_data \in Auths /\ ~auth_data.done /\ Now \in State
      /\ conn # None /\ conn.state = "AUTHENTICATING" /\ conn.bssid = auth_data.bss
      /\ assoc_data = None /\ current_bss = None
  <2>1. auth_data # None /\ ~auth_data.done
    BY SmeAssumption, NowFields DEF RxAuth, Auth
  <2>2. auth_data \in Auths /\ Now \in State
    BY <2>1, NowFields DEF Good, State
  <2>3. conn # None /\ conn.state = "AUTHENTICATING" /\ conn.bssid = auth_data.bss
    BY <2>1, NowFields DEF Good, Owned
  <2> QED BY <2>1, <2>2, <2>3, NowFields DEF Good, Owned
<1>2. Owes(Now, None)
  BY <1>1, NowFields DEF Good, Assoc
<1>3. CASE code = "ok"
  <2>1. PICK a : a = [auth_data EXCEPT !.done = TRUE, !.late = FALSE]
    OBVIOUS
  <2>2. a \in Auths /\ a # None /\ a.bss = auth_data.bss /\ a.done = TRUE
    BY <1>1, <2>1, NoneAssumption DEF Auths
  <2>3. PICK s : s = [Now EXCEPT !.auth_data = a]
    OBVIOUS
  <2>4. [Now EXCEPT !.auth_data.done = TRUE, !.auth_data.late = FALSE] = s
    BY <2>1, <2>3, NowFields DEF Now
  <2>5. /\ s \in State /\ s.auth_data = a /\ s.assoc_data = None /\ s.conn = conn
        /\ s.current_bss = None /\ s.hold = Now.hold
    BY <1>1, <2>2, <2>3, NowFields DEF State
  <2>6. PICK t : t = Turn(s, "ASSOCIATE_NEXT")
    OBVIOUS
  <2>7. /\ t \in State /\ SameMlme(s, t) /\ t.hold = s.hold /\ t.current_bss = s.current_bss
        /\ t.conn # None /\ t.conn.state = "ASSOCIATE_NEXT" /\ t.conn.bssid = s.conn.bssid
    BY <1>1, <2>5, <2>6, TurnResult DEF ConnStates
  <2>8. t.auth_data = a /\ t.assoc_data = None /\ t.current_bss = None
    BY <2>5, <2>7 DEF SameMlme
  <2>9. Owned(t)
    BY <1>1, <2>2, <2>5, <2>7, <2>8 DEF Owned
  <2>10. Owes(t, None)
    <3>1. t.hold = Now.hold /\ t.current_bss = Now.current_bss
      BY <1>1, <2>5, <2>7, NowFields
    <3> QED BY <1>2, <3>1 DEF Owes
  <2>11. Good(t) /\ Pending(t)
    BY <2>5, <2>6, <2>7, <2>8, <2>9, <2>10, TurnPending DEF Good, Assoc, ConnStates
  <2>12. Becomes(t)
    BY <1>1, <1>3, <2>4, <2>5, <2>6 DEF RxAuth, AuthAccepted
  <2> QED BY <2>11, <2>12, BecomesGood
<1>4. CASE code # "ok"
  <2>1. PICK s : s = [Now EXCEPT !.auth_data = None]
    OBVIOUS
  <2>2. /\ s \in State /\ s.auth_data = None /\ s.assoc_data = None /\ s.conn = conn
        /\ s.current_bss = None /\ s.hold = Now.hold /\ s.associated = Now.associated
    BY <1>1, <2>1, NowFields DEF State
  <2>3. Good(s)
    BY <1>1, <2>2, NowFields, GoodCarries
  <2>4. Becomes(AuthRefused(s, code))
    BY <1>4, <2>1 DEF RxAuth
  <2> QED BY <2>2, <2>3, <2>4, AuthRefusedGood, BecomesGood
<1> QED BY <1>3, <1>4

\* The association in progress is that of an attempt that waits for its end.
LEMMA Associating ==
    ASSUME Good(Now), NEW b \in Bss, Assoc(Now) = b
    PROVE  /\ assoc_data # None /\ assoc_data \in Assocs /\ assoc_data.bss = b
           /\ Now \in State /\ Owes(Now, b)
           /\ conn # None /\ conn.state = "ASSOCIATING" /\ conn.bssid = b
           /\ auth_data = None /\ current_bss = None
<1>1. assoc_data # None /\ assoc_data.bss = b
  BY SmeAssumption, NowFields DEF Assoc
<1>2. assoc_data \in Assocs /\ Now \in State /\ Owes(Now, b)
  BY <1>1, NowFields DEF Good, State
<1>3. conn # None /\ conn.state = "ASSOCIATING" /\ conn.bssid = b
  BY <1>1, NowFields DEF Good, Owned
<1> QED BY <1>1, <1>2, <1>3, NowFields DEF Good, Owned

\* An answer to the association.
LEMMA RxAssocGood ==
    ASSUME Good(Now), Pending(Now), NEW b \in Bss, NEW code, RxAssoc(b, code)
    PROVE  Good(Now)' /\ Pending(Now)'
<1>0. Assoc(Now) = b
  BY DEF RxAssoc
<1>1. /\ assoc_data # None /\ assoc_data \in Assocs /\ assoc_data.bss = b
      /\ Now \in State /\ Owes(Now, b)
      /\ conn # None /\ conn.state = "ASSOCIATING" /\ conn.bssid = b
      /\ auth_data = None /\ current_bss = None
  BY <1>0, Associating
<1>2. PICK s : s = [Now EXCEPT !.assoc_data = None]
  OBVIOUS
<1>3. /\ s \in State /\ s.auth_data = None /\ s.assoc_data = None /\ s.conn = conn
      /\ s.current_bss = None /\ s.hold = Now.hold /\ s.associated = Now.associated
  BY <1>1, <1>2, NowFields DEF State
<1>4. Owes(s, b)
  <2>1. s.hold = Now.hold /\ s.current_bss = Now.current_bss
    BY <1>1, <1>3, NowFields
  <2> QED BY <1>1, <2>1 DEF Owes
<1>5. PICK u : u = [s EXCEPT !.associated = b]
  OBVIOUS
<1>6. /\ u \in State /\ u.auth_data = None /\ u.assoc_data = None /\ u.conn = conn
      /\ u.current_bss = None /\ u.hold = Now.hold /\ u.associated = b
  BY <1>3, <1>5 DEF State
<1>7. Owes(u, b)
  BY <1>3, <1>4, <1>6 DEF Owes
<1>8. PICK a : a = [assoc_data EXCEPT !.late = FALSE]
  OBVIOUS
<1>9. a \in Assocs /\ a # None /\ a.bss = b
  BY <1>1, <1>8, NoneAssumption DEF Assocs
<1>10. PICK v : v = [Now EXCEPT !.assoc_data = a]
  OBVIOUS
<1>11. [Now EXCEPT !.assoc_data.late = FALSE] = v
  BY <1>8, <1>10, NowFields DEF Now
<1>12. /\ v \in State /\ v.auth_data = auth_data /\ v.assoc_data = a /\ v.conn = conn
       /\ v.current_bss = current_bss /\ v.hold = Now.hold /\ v.associated = associated
  BY <1>1, <1>9, <1>10, NowFields DEF State
<1>13. Good(v) /\ Pending(v)
  BY <1>1, <1>9, <1>12, NowFields, GoodCarries DEF Pending
<1>14. \/ Becomes(v) \/ Becomes(AssocRefused(s, b))
       \/ Becomes(ConnectedTo(u, b)) \/ Becomes(AssocTimeout(s, b))
  BY <1>2, <1>5, <1>11 DEF RxAssoc
<1>15. /\ Good(AssocRefused(s, b)) /\ Pending(AssocRefused(s, b))
       /\ Good(AssocTimeout(s, b)) /\ Pending(AssocTimeout(s, b))
  BY <1>3, <1>4, AssocRefusedGood, AssocTimeoutGood
<1>16. Good(ConnectedTo(u, b)) /\ Pending(ConnectedTo(u, b))
  BY <1>1, <1>6, <1>7, ConnectedToGood
<1> QED BY <1>13, <1>14, <1>15, <1>16, BecomesGood

\* A deauthentication, of the connection or of the association in progress.
LEMMA RxDeauthGood ==
    ASSUME Good(Now), Pending(Now), NEW b \in Bss, RxDeauth(b) PROVE Good(Now)' /\ Pending(Now)'
<1>1. CASE Becomes(Leave(Now))
  BY <1>1, LeaveGood, BecomesGood
<1>2. CASE Assoc(Now) = b /\ Becomes(ProcessDeauth(Abandon(Now), b))
  <2>1. Clear(Abandon(Now)) /\ Good(Abandon(Now)) /\ Pending(Abandon(Now))
    BY <1>2, Associating, NowFields, AbandonResult
  <2>2. ProcessDeauth(Abandon(Now), b) = Abandon(Now)
    BY <2>1, SmeAssumption DEF ProcessDeauth, Clear
  <2> QED BY <1>2, <2>1, <2>2, BecomesGood
<1> QED BY <1>1, <1>2 DEF RxDeauth

\* A disassociation.
LEMMA RxDisassocGood ==
    ASSUME Good(Now), Pending(Now), NEW b \in Bss, RxDisassoc(b) PROVE Good(Now)' /\ Pending(Now)'
<1>1. PICK s : s = [Now EXCEPT !.associated = None]
  OBVIOUS
<1>2. /\ s \in State /\ s.auth_data = auth_data /\ s.assoc_data = assoc_data
      /\ s.conn = conn /\ s.current_bss = current_bss /\ s.hold = Now.hold
      /\ s.scan_req = scan_req /\ s.conn_work = conn_work
  BY <1>1, NowFields DEF Good, State
<1>3. associated = b /\ Becomes(ProcessDisassoc(s, b))
  BY <1>1 DEF RxDisassoc
<1>4. CASE current_bss = b
  <2>1. conn # None /\ conn.state = "CONNECTED"
    BY <1>4, SmeAssumption, NowFields DEF Good, Owned
  <2>2. auth_data = None /\ assoc_data = None
    BY <2>1, NowFields DEF Good, Owned
  <2>3. Owes(s, None)
    BY <1>2, <2>2, NowFields DEF Good, Owes, Assoc
  <2> QED BY <1>2, <1>3, <1>4, <2>2, <2>3, ProcessDisassocGood, BecomesGood
<1>5. CASE current_bss # b
  <2>1. current_bss = None
    BY <1>3, <1>5, NowFields DEF Good, Owned
  <2>2. Owned(s)
    BY <1>2, <2>1, NowFields DEF Good, Owned
  <2>3. Owes(s, Assoc(s))
    BY <1>2, NowFields DEF Good, Owes, Assoc
  <2>4. ProcessDisassoc(s, b) = s
    BY <1>2, <1>5 DEF ProcessDisassoc
  <2>5. Pending(s)
    BY <1>2, NowFields, PendingCarries
  <2> QED BY <1>2, <1>3, <2>2, <2>3, <2>4, <2>5, BecomesGood DEF Good
<1> QED BY <1>4, <1>5

\* A connection that mac80211 gives up, or loses and forgets the BSS of.
LEMMA ConnectionLostGood ==
    ASSUME Good(Now), Pending(Now), NEW keep \in BOOLEAN, ConnectionLost(keep)
    PROVE  Good(Now)' /\ Pending(Now)'
<1>1. PICK s : s = IF keep THEN Now ELSE [Now EXCEPT !.known = @ \ {associated}]
  OBVIOUS
<1>2. /\ s \in State /\ SameMlme(Now, s) /\ s.conn = Now.conn /\ s.hold = Now.hold
      /\ s.current_bss = Now.current_bss
      /\ s.scan_req = Now.scan_req /\ s.conn_work = Now.conn_work
  BY <1>1 DEF Good, State, SameMlme
<1>3. Good(s) /\ Pending(s)
  BY <1>2, GoodCarries, PendingCarries DEF SameMlme
<1>4. Becomes(Leave(s))
  BY <1>1 DEF ConnectionLost
<1> QED BY <1>3, <1>4, LeaveGood, BecomesGood

-----------------------------------------------------------------------------
(* The interface's work                                                      *)

\* ieee80211_mgd_conn_tx_status.
LEMMA TxStatusGood ==
    ASSUME Good(Now), Pending(Now), NEW fc \in onair, NEW acked \in BOOLEAN, TxStatus(fc, acked)
    PROVE  Good(Now)' /\ Pending(Now)'
<1>1. PICK x : x = [fc |-> fc, acked |-> acked]
  OBVIOUS
<1>2. x \in Statuses
  BY <1>1, NowFields DEF Statuses, Good, State
<1>3. PICK s : s = [Now EXCEPT !.onair = @ \ {fc}, !.status = x, !.sta_work = TRUE]
  OBVIOUS
<1>4. /\ s \in State /\ SameMlme(Now, s) /\ s.conn = Now.conn /\ s.hold = Now.hold
      /\ s.current_bss = Now.current_bss
      /\ s.scan_req = Now.scan_req /\ s.conn_work = Now.conn_work
  BY <1>2, <1>3 DEF Good, State, SameMlme
<1>5. Good(s) /\ Pending(s)
  BY <1>4, GoodCarries, PendingCarries DEF SameMlme
<1>6. Becomes(s)
  BY <1>1, <1>3 DEF TxStatus
<1> QED BY <1>5, <1>6, BecomesGood

\* The timeout, the tries and the like of an exchange are not what it is.
LEMMA SameAuth ==
    ASSUME NEW s, Good(s), s.auth_data # None, NEW late \in BOOLEAN
    PROVE  LET a == [s.auth_data EXCEPT !.late = late]
           IN  a \in Auths /\ a # None /\ a.bss = s.auth_data.bss /\ a.done = s.auth_data.done
BY NoneAssumption DEF Good, State, Auths

LEMMA SameAssoc ==
    ASSUME NEW s, Good(s), s.assoc_data # None, NEW late \in BOOLEAN
    PROVE  LET a == [s.assoc_data EXCEPT !.late = late]
           IN  a \in Assocs /\ a # None /\ a.bss = s.assoc_data.bss
BY NoneAssumption DEF Good, State, Assocs

\* An exchange may be given another timeout, be tried once more, or be dropped
\* when it is an authentication.
LEMMA AuthGood ==
    ASSUME NEW s, Good(s), Pending(s), s.auth_data # None, NEW a \in Auths, a.bss = s.auth_data.bss,
           a.done = s.auth_data.done
    PROVE  Good([s EXCEPT !.auth_data = a]) /\ Pending([s EXCEPT !.auth_data = a])
<1>1. PICK t : t = [s EXCEPT !.auth_data = a]
  OBVIOUS
<1>2. /\ t \in State /\ t.auth_data = a /\ t.assoc_data = s.assoc_data /\ t.conn = s.conn
      /\ t.current_bss = s.current_bss /\ t.hold = s.hold /\ t.associated = s.associated
      /\ t.scan_req = s.scan_req /\ t.conn_work = s.conn_work
  BY <1>1 DEF Good, State
<1>3. a # None
  BY NoneAssumption
<1> QED BY <1>1, <1>2, <1>3, GoodCarries, PendingCarries

LEMMA AssocGood ==
    ASSUME NEW s, Good(s), Pending(s), s.assoc_data # None,
           NEW a \in Assocs, a.bss = s.assoc_data.bss
    PROVE  Good([s EXCEPT !.assoc_data = a]) /\ Pending([s EXCEPT !.assoc_data = a])
<1>1. PICK t : t = [s EXCEPT !.assoc_data = a]
  OBVIOUS
<1>2. /\ t \in State /\ t.assoc_data = a /\ t.auth_data = s.auth_data /\ t.conn = s.conn
      /\ t.current_bss = s.current_bss /\ t.hold = s.hold /\ t.associated = s.associated
      /\ t.scan_req = s.scan_req /\ t.conn_work = s.conn_work
  BY <1>1 DEF Good, State
<1>3. a # None
  BY NoneAssumption
<1> QED BY <1>1, <1>2, <1>3, GoodCarries, PendingCarries

\* The report of a frame.
LEMMA AckedGood ==
    ASSUME NEW s, Good(s), Pending(s) PROVE Good(Acked(s)) /\ Pending(Acked(s))
<1>1. PICK t : t = [s EXCEPT !.status = None]
  OBVIOUS
<1>2. /\ t \in State /\ SameMlme(s, t) /\ t.conn = s.conn /\ t.hold = s.hold
      /\ t.current_bss = s.current_bss
      /\ t.scan_req = s.scan_req /\ t.conn_work = s.conn_work
  BY <1>1 DEF Good, State, SameMlme
<1>3. Good(t) /\ Pending(t)
  BY <1>2, GoodCarries, PendingCarries DEF SameMlme
<1>4. PICK late : late = ~s.status.acked
  OBVIOUS
<1>5. CASE s.status = None
  BY <1>5 DEF Acked
<1>6. CASE s.status # None /\ s.status.fc = "auth" /\ s.auth_data # None
  <2>1. late \in BOOLEAN
    BY <1>4
  <2>2. PICK a : a = [t.auth_data EXCEPT !.late = late]
    OBVIOUS
  <2>3. Good([t EXCEPT !.auth_data = a]) /\ Pending([t EXCEPT !.auth_data = a])
    BY <1>2, <1>3, <1>6, <2>1, <2>2, SameAuth, AuthGood DEF SameMlme
  <2>4. [t EXCEPT !.auth_data.late = late] = [t EXCEPT !.auth_data = a]
    BY <2>2
  <2>5. Acked(s) = [t EXCEPT !.auth_data.late = late]
    BY <1>1, <1>4, <1>6 DEF Acked
  <2> QED BY <2>3, <2>4, <2>5
<1>7. CASE s.status # None /\ s.status.fc = "assoc" /\ s.assoc_data # None
  <2>1. late \in BOOLEAN
    BY <1>4
  <2>2. PICK a : a = [t.assoc_data EXCEPT !.late = late]
    OBVIOUS
  <2>3. Good([t EXCEPT !.assoc_data = a]) /\ Pending([t EXCEPT !.assoc_data = a])
    BY <1>2, <1>3, <1>7, <2>1, <2>2, SameAssoc, AssocGood DEF SameMlme
  <2>4. [t EXCEPT !.assoc_data.late = late] = [t EXCEPT !.assoc_data = a]
    BY <2>2
  <2>5. Acked(s) = [t EXCEPT !.assoc_data.late = late]
    BY <1>1, <1>4, <1>7 DEF Acked
  <2> QED BY <2>3, <2>4, <2>5
<1>8. CASE /\ s.status # None /\ ~(s.status.fc = "auth" /\ s.auth_data # None)
           /\ ~(s.status.fc = "assoc" /\ s.assoc_data # None)
  BY <1>1, <1>3, <1>8 DEF Acked
<1> QED BY <1>5, <1>6, <1>7, <1>8

\* An authentication whose timeout is over: dropped when it is done, tried once
\* more, or given up; the attempt hears of that and of nothing else.
LEMMA AuthDueGood ==
    ASSUME NEW s, Good(s), Pending(s) PROVE Good(AuthDue(s)) /\ Pending(AuthDue(s))
<1>1. CASE s.auth_data = None \/ ~s.auth_data.late
  BY <1>1 DEF AuthDue
<1>2. CASE s.auth_data # None /\ s.auth_data.late
  <2>1. PICK d : d = [s EXCEPT !.auth_data = None]
    OBVIOUS
  <2>2. /\ d \in State /\ d.auth_data = None /\ d.assoc_data = s.assoc_data
        /\ d.conn = s.conn /\ d.hold = s.hold /\ d.current_bss = s.current_bss
        /\ d.associated = s.associated
        /\ d.scan_req = s.scan_req /\ d.conn_work = s.conn_work
    BY <2>1 DEF Good, State
  <2>3. Good(d)
    BY <2>2, GoodCarries
  <2>4. CASE s.auth_data.done
    <3>1. s.conn.state = "ASSOCIATE_NEXT"
      BY <1>2, <2>4 DEF Good, Owned
    <3>2. Pending(d)
      BY <2>2, <3>1 DEF Pending
    <3> QED BY <1>2, <2>1, <2>3, <2>4, <3>2 DEF AuthDue
  <2>5. CASE ~s.auth_data.done /\ ~LastTry(s.auth_data)
    <3>1. s.auth_data \in Auths
      BY <1>2 DEF Good, State
    <3>2. PICK a : a = [s.auth_data EXCEPT !.tries = @ + 1, !.late = FALSE]
      OBVIOUS
    <3>3. /\ a \in Auths /\ a # None
          /\ a.bss = s.auth_data.bss /\ a.done = s.auth_data.done
      <4>1. s.auth_data.tries \in 1 .. MaxTries /\ s.auth_data.tries # MaxTries
        BY <2>5, <3>1 DEF Auths, LastTry
      <4>2. PICK n \in 1 .. MaxTries : n = s.auth_data.tries + 1
        BY <4>1, SmeAssumption
      <4>3. a = [s.auth_data EXCEPT !.tries = n, !.late = FALSE]
        BY <3>2, <4>2
      <4> QED BY <3>1, <4>3, NoneAssumption DEF Auths
    <3>4. PICK t : t = [s EXCEPT !.auth_data = a, !.onair = @ \cup {"auth"}]
      OBVIOUS
    <3>5. AuthDue(s) = t
      BY <1>2, <2>5, <3>2, <3>4 DEF AuthDue
    <3>6. /\ t \in State /\ t.auth_data = a /\ t.assoc_data = s.assoc_data
          /\ t.conn = s.conn /\ t.hold = s.hold /\ t.current_bss = s.current_bss
          /\ t.associated = s.associated
          /\ t.scan_req = s.scan_req /\ t.conn_work = s.conn_work
      BY <3>3, <3>4 DEF Good, State
    <3> QED BY <1>2, <3>3, <3>5, <3>6, GoodCarries, PendingCarries
  <2>6. CASE ~s.auth_data.done /\ LastTry(s.auth_data)
    <3>1. PICK t : t = [d EXCEPT !.known = @ \ {s.auth_data.bss}]
      OBVIOUS
    <3>2. AuthDue(s) = Turn(t, "AUTH_FAILED_TIMEOUT")
      BY <1>2, <2>1, <2>6, <3>1 DEF AuthDue
    <3>3. /\ t \in State /\ SameMlme(d, t) /\ t.conn = d.conn /\ t.hold = d.hold
          /\ t.current_bss = d.current_bss
      BY <2>2, <3>1 DEF State, SameMlme
    <3>4. Good(t)
      BY <2>3, <3>3, GoodCarries DEF SameMlme
    <3>5. s.conn # None /\ s.conn.state = "AUTHENTICATING"
      BY <1>2, <2>6 DEF Good, Owned
    <3>6. t.auth_data = None /\ t.assoc_data = None /\ t.current_bss = None
      BY <2>2, <3>3, <3>5 DEF Good, Owned, SameMlme
    <3>7. Clear(t)
      BY <3>4, <3>6 DEF Good, Clear, Assoc
    <3> QED BY <3>2, <3>7, TurnGood DEF ConnStates
  <2> QED BY <2>4, <2>5, <2>6
<1> QED BY <1>1, <1>2

\* An association whose timeout is over.
LEMMA AssocDueGood ==
    ASSUME NEW s, Good(s), Pending(s) PROVE Good(AssocDue(s)) /\ Pending(AssocDue(s))
<1>1. CASE s.assoc_data = None \/ ~s.assoc_data.late
  BY <1>1 DEF AssocDue
<1>2. CASE s.assoc_data # None /\ s.assoc_data.late
  <2>1. s.assoc_data \in Assocs
    BY <1>2 DEF Good, State
  <2>2. CASE ~LastTry(s.assoc_data)
    <3>1. PICK a : a = [s.assoc_data EXCEPT !.tries = @ + 1, !.late = FALSE]
      OBVIOUS
    <3>2. a \in Assocs /\ a # None /\ a.bss = s.assoc_data.bss
      <4>1. s.assoc_data.tries \in 0 .. MaxTries /\ s.assoc_data.tries # MaxTries
        BY <2>1, <2>2 DEF Assocs, LastTry
      <4>2. PICK n \in 0 .. MaxTries : n = s.assoc_data.tries + 1
        BY <4>1, SmeAssumption
      <4>3. a = [s.assoc_data EXCEPT !.tries = n, !.late = FALSE]
        BY <3>1, <4>2
      <4> QED BY <2>1, <4>3, NoneAssumption DEF Assocs
    <3>3. PICK t : t = [s EXCEPT !.assoc_data = a, !.onair = @ \cup {"assoc"}]
      OBVIOUS
    <3>4. AssocDue(s) = t
      BY <1>2, <2>2, <3>1, <3>3 DEF AssocDue
    <3>5. /\ t \in State /\ t.assoc_data = a /\ t.auth_data = s.auth_data
          /\ t.conn = s.conn /\ t.hold = s.hold /\ t.current_bss = s.current_bss
          /\ t.associated = s.associated
          /\ t.scan_req = s.scan_req /\ t.conn_work = s.conn_work
      BY <3>2, <3>3 DEF Good, State
    <3> QED BY <1>2, <3>2, <3>4, <3>5, GoodCarries, PendingCarries
  <2>3. CASE LastTry(s.assoc_data)
    <3>1. PICK b \in Bss : b = s.assoc_data.bss
      BY <2>1 DEF Assocs
    <3>2. PICK t : t = [s EXCEPT !.assoc_data = None, !.known = @ \ {b}]
      OBVIOUS
    <3>3. AssocDue(s) = AssocTimeout(t, b)
      BY <1>2, <2>3, <3>1, <3>2 DEF AssocDue
    <3>4. s.conn # None /\ s.conn.state = "ASSOCIATING"
      BY <1>2 DEF Good, Owned
    <3>5. s.auth_data = None /\ s.current_bss = None /\ Owes(s, b)
      BY <1>2, <3>1, <3>4 DEF Good, Owned, Assoc
    <3>6. /\ t \in State /\ t.assoc_data = None /\ t.auth_data = None
          /\ t.current_bss = None /\ t.hold = s.hold
      BY <3>2, <3>5 DEF Good, State
    <3>7. Owes(t, b)
      BY <3>5, <3>6 DEF Owes
    <3> QED BY <3>3, <3>6, <3>7, AssocTimeoutGood
  <2> QED BY <2>2, <2>3
<1> QED BY <1>1, <1>2

\* ieee80211_sta_work.
LEMMA StaWorkGood ==
    ASSUME Good(Now), Pending(Now), StaWork PROVE Good(Now)' /\ Pending(Now)'
<1>1. PICK s : s = [Now EXCEPT !.sta_work = FALSE]
  OBVIOUS
<1>2. /\ s \in State /\ SameMlme(Now, s) /\ s.conn = Now.conn /\ s.hold = Now.hold
      /\ s.current_bss = Now.current_bss
      /\ s.scan_req = Now.scan_req /\ s.conn_work = Now.conn_work
  BY <1>1 DEF Good, State, SameMlme
<1>3. Good(s) /\ Pending(s)
  BY <1>2, GoodCarries, PendingCarries DEF SameMlme
<1>4. Good(AssocDue(AuthDue(Acked(s)))) /\ Pending(AssocDue(AuthDue(Acked(s))))
  BY <1>3, AckedGood, AuthDueGood, AssocDueGood
<1>5. Becomes(AssocDue(AuthDue(Acked(s))))
  BY <1>1 DEF StaWork
<1> QED BY <1>4, <1>5, BecomesGood

\* ieee80211_sta_timer.
LEMMA TimerFiresGood ==
    ASSUME Good(Now), Pending(Now), TimerFires PROVE Good(Now)' /\ Pending(Now)'
<1> DEFINE over(x) == IF x = None THEN None ELSE [x EXCEPT !.late = @ \/ ClockRuns]
<1>1. PICK a : a = over(auth_data)
  OBVIOUS
<1>2. PICK c : c = over(assoc_data)
  OBVIOUS
<1>3. /\ a \in Auths \cup {None} /\ (a # None <=> auth_data # None)
      /\ a # None => a.bss = auth_data.bss /\ a.done = auth_data.done
  <2>1. auth_data \in Auths \cup {None}
    BY NowFields DEF Good, State
  <2>2. CASE auth_data = None
    BY <1>1, <2>2
  <2>3. CASE auth_data # None
    <3>1. PICK late \in BOOLEAN : late = (auth_data.late \/ ClockRuns)
      BY <2>1, <2>3, SmeAssumption DEF Auths
    <3>2. a = [auth_data EXCEPT !.late = late]
      BY <1>1, <2>3, <3>1
    <3> QED BY <2>3, <3>2, NowFields, SameAuth
  <2> QED BY <2>2, <2>3
<1>4. /\ c \in Assocs \cup {None} /\ (c # None <=> assoc_data # None)
      /\ c # None => c.bss = assoc_data.bss
  <2>1. assoc_data \in Assocs \cup {None}
    BY NowFields DEF Good, State
  <2>2. CASE assoc_data = None
    BY <1>2, <2>2
  <2>3. CASE assoc_data # None
    <3>1. PICK late \in BOOLEAN : late = (assoc_data.late \/ ClockRuns)
      BY <2>1, <2>3, SmeAssumption DEF Assocs
    <3>2. c = [assoc_data EXCEPT !.late = late]
      BY <1>2, <2>3, <3>1
    <3> QED BY <2>3, <3>2, NowFields, SameAssoc
  <2> QED BY <2>2, <2>3
<1>5. PICK t : t = [Now EXCEPT !.auth_data = a, !.assoc_data = c, !.sta_work = TRUE]
  OBVIOUS
<1>6. /\ t \in State /\ t.auth_data = a /\ t.assoc_data = c /\ t.conn = Now.conn
      /\ t.current_bss = Now.current_bss /\ t.hold = Now.hold
      /\ t.associated = Now.associated
      /\ t.scan_req = Now.scan_req /\ t.conn_work = Now.conn_work
  BY <1>3, <1>4, <1>5 DEF Good, State
<1>7. Good(t) /\ Pending(t)
  BY <1>3, <1>4, <1>6, NowFields, GoodCarries, PendingCarries
<1>8. Becomes(t)
  BY <1>1, <1>2, <1>5, NowFields DEF TimerFires
<1> QED BY <1>7, <1>8, BecomesGood

-----------------------------------------------------------------------------
(* The invariant and what it says                                            *)

\* Nothing has been begun yet, and nothing is held.
LEMMA InitGood ==
    ASSUME Init PROVE IInv
<1>1. Now \in State
  <2>1. hold \in [Bss -> Int]
    BY DEF Init
  <2>2. /\ conn \in Conns \cup {None} /\ ssid \in Ssids /\ ssid_len \in BOOLEAN
        /\ current_bss \in Bss \cup {None} /\ conn_work \in BOOLEAN /\ scan_req \in BOOLEAN
        /\ known \in SUBSET Bss /\ auth_data \in Auths \cup {None}
        /\ assoc_data \in Assocs \cup {None} /\ associated \in Bss \cup {None}
        /\ status \in Statuses \cup {None} /\ onair \in SUBSET {"auth", "assoc"}
        /\ sta_work \in BOOLEAN
    BY DEF Init
  <2> QED BY <2>1, <2>2 DEF Now, State
<1>2. Owned(Now)
  BY NowFields DEF Init, Owned
<1>3. Owes(Now, Assoc(Now))
  <2>1. Assoc(Now) = None /\ Now.current_bss = None /\ Now.hold = [b \in Bss |-> 0]
    BY NowFields DEF Init, Assoc
  <2> SUFFICES ASSUME NEW b \in Bss
               PROVE  Now.hold[b] = (IF None = b THEN 1 ELSE 0) + (IF None = b THEN 1 ELSE 0)
    BY <2>1 DEF Owes
  <2>2. Now.hold[b] = 0 /\ None # b
    BY <2>1, SmeAssumption
  <2> QED BY <2>2
<1>4. Pending(Now)
  BY NowFields DEF Init, Pending
<1> QED BY <1>1, <1>2, <1>3, <1>4, SmeAssumption DEF Init, IInv, Good

\* Every handler keeps the state good.
LEMMA NextGood ==
    ASSUME IInv, [Next]_vars PROVE IInv'
<1>1. Good(Now) /\ Pending(Now)
  BY DEF IInv
<1>2. Good(Now)' /\ Pending(Now)'
  <2>1. CASE ConnWork
    BY <1>1, <2>1, ConnWorkGood
  <2>2. ASSUME NEW want \in Ssids, NEW bssid \in Bss \cup {None}, NEW prev \in Bss \cup {None},
               NEW auto \in BOOLEAN, Connect(want, bssid, prev, auto)
        PROVE  Good(Now)' /\ Pending(Now)'
    BY <1>1, <2>2, ConnectGood
  <2>3. CASE Disconnect
    BY <1>1, <2>3, DisconnectGood
  <2>4. CASE UserScan \/ \E b \in Bss : Expire(b)
    BY <1>1, <2>4, ScanExpireGood
  <2>5. ASSUME NEW found \in SUBSET Bss, ScanDone(found) PROVE Good(Now)' /\ Pending(Now)'
    BY <1>1, <2>5, ScanDoneGood
  <2>6. ASSUME NEW b \in Bss, NEW code, RxAuth(b, code) PROVE Good(Now)' /\ Pending(Now)'
    BY <1>1, <2>6, RxAuthGood
  <2>7. ASSUME NEW b \in Bss, NEW code, RxAssoc(b, code) PROVE Good(Now)' /\ Pending(Now)'
    BY <1>1, <2>7, RxAssocGood
  <2>8. ASSUME NEW b \in Bss, RxDeauth(b) PROVE Good(Now)' /\ Pending(Now)'
    BY <1>1, <2>8, RxDeauthGood
  <2>9. ASSUME NEW b \in Bss, RxDisassoc(b) PROVE Good(Now)' /\ Pending(Now)'
    BY <1>1, <2>9, RxDisassocGood
  <2>10. ASSUME NEW keep \in BOOLEAN, ConnectionLost(keep) PROVE Good(Now)' /\ Pending(Now)'
    BY <1>1, <2>10, ConnectionLostGood
  <2>11. ASSUME NEW fc \in onair, NEW acked \in BOOLEAN, TxStatus(fc, acked)
         PROVE  Good(Now)' /\ Pending(Now)'
    BY <1>1, <2>11, TxStatusGood
  <2>12. CASE TimerFires
    BY <1>1, <2>12, TimerFiresGood
  <2>13. CASE StaWork
    BY <1>1, <2>13, StaWorkGood
  <2>14. CASE UNCHANGED vars
    <3>1. Now' = Now
      BY <2>14 DEF vars, Now
    <3> QED BY <1>1, <3>1
  <2> QED BY <2>1, <2>2, <2>3, <2>4, <2>5, <2>6, <2>7, <2>8, <2>9, <2>10, <2>11, <2>12,
             <2>13, <2>14 DEF Next
<1>3. (connects \in 0 .. MaxConnects)'
  <2>1. UNCHANGED connects \/ (connects < MaxConnects /\ connects' = connects + 1)
    BY DEF Next, vars, ConnWork, Connect, Disconnect, UserScan, ScanDone, Expire, RxAuth, RxAssoc,
           RxDeauth, RxDisassoc, ConnectionLost, TxStatus, TimerFires, StaWork
  <2> QED BY <2>1, SmeAssumption DEF IInv
<1> QED BY <1>2, <1>3 DEF IInv

\* In every state: the exchange in progress is that of the attempt, and the
\* holds are those that somebody will undo.
THEOREM IInvHolds == Spec => []IInv
<1>1. Init => IInv
  BY InitGood
<1>2. IInv /\ [Next]_vars => IInv'
  BY NextGood
<1> QED BY <1>1, <1>2, PTL DEF Spec

\* The variables keep their types, and no BSS is ever held more than twice or
\* less than not at all, whatever ends its attempts come to.
THEOREM SmeTypeCorrect == Spec => []TypeOK
<1>1. IInv => TypeOK
  <2> SUFFICES ASSUME IInv PROVE TypeOK
    OBVIOUS
  <2>1. Now \in State /\ Owes(Now, Assoc(Now)) /\ connects \in 0 .. MaxConnects
    BY DEF IInv, Good
  <2>2. hold \in [Bss -> 0 .. 2]
    BY <2>1, NowFields DEF Owes, State
  <2> QED BY <2>1, <2>2, NowFields DEF TypeOK, State
<1> QED BY <1>1, IInvHolds, PTL

\* The frames that mac80211 exchanges are those of the attempt that cfg80211 has
\* under way, although no handler of an answer looks at whose answer it is given.
THEOREM ExchangeIsOwned == Spec => []ExchangeOwned
<1>1. IInv => ExchangeOwned
  BY NowFields DEF IInv, Good, Owned, ExchangeOwned
<1> QED BY <1>1, IInvHolds, PTL

\* A BSS is held by the association in progress and by current_bss alone: no end
\* of an association loses a hold or undoes it twice.
THEOREM HoldsAreBalanced == Spec => []HoldsBalanced
<1>1. IInv => HoldsBalanced
  BY NowFields DEF IInv, Good, Owes, HoldsBalanced
<1> QED BY <1>1, IInvHolds, PTL

\* No attempt is ever left with nothing to take it on: whatever comes late, or
\* belongs to an attempt before it, it is CONNECTED, waits for an answer, a timeout
\* or a scan that will come, has conn_work queued, or is to scan again.
THEOREM AttemptsArePending == Spec => []AttemptPending
<1>1. IInv => AttemptPending
  BY NowFields DEF IInv, Pending, AttemptPending
<1> QED BY <1>1, IInvHolds, PTL
=============================================================================
