-------------------------------- MODULE Sme --------------------------------
(* One attempt after another to connect a station: cfg80211's SME            *)
(* (net/wireless/sme.c, mlme.c) on top of mac80211's MLME                    *)
(* (net/mac80211/mlme.c), the user that connects and disconnects at any      *)
(* moment, and access points that answer, refuse, stay silent or throw the   *)
(* station out.                                                              *)
(*                                                                           *)
(* Every handler runs under the lock of the wireless_dev and is one step;    *)
(* conn_work, the interface's work and the end of a scan come later, when    *)
(* the attempt that asked for them may be over.  A handler calls through     *)
(* three files and back, so each of its parts is an operator from a state,   *)
(* a record of all the variables, to the states it may leave.                *)
EXTENDS Integers

CONSTANTS
    Bss,          \* the access points
    Ssids,        \* the networks
    SsidOf,       \* the network of each access point
    None,
    MaxTries,     \* IEEE80211_AUTH_MAX_TRIES, IEEE80211_ASSOC_MAX_TRIES
    MaxConnects,  \* bound: calls of cfg80211_connect
    ClockRuns     \* jiffies advances; in this build it is a constant

ASSUME SmeAssumption ==
    /\ SsidOf \in [Bss -> Ssids]
    /\ None \notin Bss \cup Ssids
    /\ MaxTries \in Nat \ {0} /\ MaxConnects \in Nat
    /\ ClockRuns \in BOOLEAN

VARIABLES
    \* cfg80211
    conn,         \* wdev->conn
    ssid,         \* wdev->ssid, which conn->params.ssid points to
    ssid_len,     \* wdev->ssid_len is not zero
    current_bss,  \* wdev->current_bss
    conn_work,    \* rdev->conn_work is queued
    scan_req,     \* rdev->scan_req
    known,        \* the list of BSSs that are not expired
    hold,         \* bss->hold
    \* mac80211
    auth_data, assoc_data, associated,     \* of ifmgd
    status,       \* status_fc and status_acked, once received
    onair,        \* frames whose transmission has not been reported
    sta_work,     \* sdata->work is queued
    connects

vars == <<conn, ssid, ssid_len, current_bss, conn_work, scan_req, known, hold,
          auth_data, assoc_data, associated, status, onair, sta_work, connects>>

ConnStates == {"SCANNING", "SCAN_AGAIN", "AUTHENTICATE_NEXT", "AUTHENTICATING",
               "AUTH_FAILED_TIMEOUT", "ASSOCIATE_NEXT", "ASSOCIATING",
               "ASSOC_FAILED", "ASSOC_FAILED_TIMEOUT", "DEAUTH", "ABANDON", "CONNECTED"}

\* auto: auto_auth, and there is another authentication type to try.
Conns == [state : ConnStates, bssid : Bss \cup {None}, prev : Bss \cup {None},
          auto : BOOLEAN]
Auths == [bss : Bss, done : BOOLEAN, late : BOOLEAN, tries : 1 .. MaxTries]
Assocs == [bss : Bss, late : BOOLEAN, tries : 0 .. MaxTries]
\* The control field of a frame and whether it has been acknowledged.
Statuses == [fc : {"auth", "assoc"}, acked : BOOLEAN]

ASSUME NoneAssumption == None \notin Conns \cup Auths \cup Assocs \cup Statuses

Init ==
    /\ conn = None /\ ssid \in Ssids /\ ssid_len = FALSE /\ current_bss = None
    /\ conn_work = FALSE /\ scan_req = FALSE /\ known = {}
    /\ hold = [b \in Bss |-> 0]
    /\ auth_data = None /\ assoc_data = None /\ associated = None
    /\ status = None /\ onair = {} /\ sta_work = FALSE /\ connects = 0

Now == [conn |-> conn, ssid |-> ssid, ssid_len |-> ssid_len,
        current_bss |-> current_bss, conn_work |-> conn_work,
        scan_req |-> scan_req, known |-> known, hold |-> hold,
        auth_data |-> auth_data, assoc_data |-> assoc_data,
        associated |-> associated, status |-> status, onair |-> onair,
        sta_work |-> sta_work]

Becomes(s) ==
    /\ conn' = s.conn /\ ssid' = s.ssid /\ ssid_len' = s.ssid_len
    /\ current_bss' = s.current_bss /\ conn_work' = s.conn_work
    /\ scan_req' = s.scan_req /\ known' = s.known /\ hold' = s.hold
    /\ auth_data' = s.auth_data /\ assoc_data' = s.assoc_data
    /\ associated' = s.associated /\ status' = s.status
    /\ onair' = s.onair /\ sta_work' = s.sta_work

\* What a call leaves, whether it returns an error, and whether that is -EBUSY
\* where the caller tells it from the others.
Ok(s) == [s |-> s, err |-> FALSE, busy |-> FALSE]
Err(s) == [s |-> s, err |-> TRUE, busy |-> FALSE]
Busy(s) == [s |-> s, err |-> TRUE, busy |-> TRUE]

-----------------------------------------------------------------------------
(* net/wireless: the events of a connection                                *)

\* Slip: the work is not scheduled.
Turn_Unqueued(s, state) == IF s.conn = None THEN s ELSE [s EXCEPT !.conn.state = state]

\* A new state of the attempt, if there is one, and schedule_work.
Turn(s, state) ==
    IF s.conn = None THEN s
    ELSE [s EXCEPT !.conn.state = state, !.conn_work = TRUE]

Unhold(s, b) == [s EXCEPT !.hold[b] = @ - 1]

DropCurrent(s) ==
    IF s.current_bss = None THEN s
    ELSE [Unhold(s, s.current_bss) EXCEPT !.current_bss = None]

\* __cfg80211_connect_result: the attempt has failed ...
ConnectFailed(s) == [DropCurrent(s) EXCEPT !.ssid_len = FALSE, !.conn = None]

\* ... or not; the hold that cfg80211_mlme_assoc took becomes that of current_bss.
ConnectedTo(s, b) ==
    LET t == IF s.conn = None THEN s ELSE [s EXCEPT !.conn.state = "CONNECTED"]
    IN  [DropCurrent(t) EXCEPT !.current_bss = b]

Disconnected(s) == [DropCurrent(s) EXCEPT !.ssid_len = FALSE]

\* Slip: whatever current_bss is.
ProcessDeauth_AnyBss(s, b) == [Disconnected(s) EXCEPT !.conn = None]

\* cfg80211_process_deauth and cfg80211_process_disassoc.
ProcessDeauth(s, b) ==
    IF s.current_bss = b THEN [Disconnected(s) EXCEPT !.conn = None] ELSE s

ProcessDisassoc(s, b) ==
    IF s.current_bss = b THEN Turn(Disconnected(s), "DEAUTH") ELSE s

\* cfg80211_sme_rx_auth, for a refusal: "no_alg" is NOT_SUPPORTED_AUTH_ALG.
AuthRefused(s, code) ==
    IF s.conn = None \/ s.conn.state = "CONNECTED" THEN s
    ELSE IF code = "no_alg" /\ s.conn.auto
         THEN Turn([s EXCEPT !.conn.auto = FALSE], "AUTHENTICATE_NEXT")
         ELSE ConnectFailed(s)

AuthAccepted(s) ==
    IF s.conn # None /\ s.conn.state = "AUTHENTICATING"
    THEN Turn(s, "ASSOCIATE_NEXT") ELSE s

\* cfg80211_rx_assoc_resp, for a refusal: one of a reassociation is followed by
\* an association, any other ends the attempt before ASSOC_FAILED is looked at.
AssocRefused(s, b) ==
    IF s.conn # None /\ s.conn.prev # None
    THEN Turn([Unhold(s, b) EXCEPT !.conn.prev = None], "ASSOCIATE_NEXT")
    ELSE ConnectFailed(Unhold(Turn(s, "ASSOC_FAILED"), b))

AssocTimeout(s, b) == Unhold(Turn(s, "ASSOC_FAILED_TIMEOUT"), b)

-----------------------------------------------------------------------------
(* net/mac80211: what cfg80211 asks for                                    *)

\* ieee80211_set_disassoc and ieee80211_report_disconnect.
Leave(s) ==
    IF s.associated = None THEN s
    ELSE ProcessDeauth([s EXCEPT !.associated = None], s.associated)

\* Slip: the hold is kept.
Abandon_KeepsHold(s) == Turn([s EXCEPT !.assoc_data = None], "ABANDON")

\* ieee80211_destroy_assoc_data and cfg80211_abandon_assoc.
Abandon(s) ==
    Unhold(Turn([s EXCEPT !.assoc_data = None], "ABANDON"), s.assoc_data.bss)

MgdDeauth(s, b) ==
    IF s.auth_data # None /\ s.auth_data.bss = b
    THEN Ok(ProcessDeauth([s EXCEPT !.auth_data = None], b))
    ELSE IF s.assoc_data # None /\ s.assoc_data.bss = b
         THEN Ok(ProcessDeauth(Abandon(s), b))
         ELSE IF s.associated = b THEN Ok(Leave(s)) ELSE Err(s)

\* It may fail before it has changed anything, for an algorithm or for memory, or
\* in ieee80211_prep_connection, when a station entry, a channel or the driver
\* says no.
MgdAuth(s, b) ==
    IF s.assoc_data # None THEN {Err(s)}
    ELSE LET t == Leave([s EXCEPT !.auth_data = None])
         IN {Err(s), Err(t),
             Ok([t EXCEPT !.auth_data = [bss |-> b, done |-> FALSE, late |-> FALSE, tries |-> 1],
                          !.onair = @ \cup {"auth"}])}

\* The request is sent by the interface's work, when its timeout, now, is over.
\* No memory, or no SSID among the BSS's elements: nothing has been changed.
MgdAssoc(s, b) ==
    LET t == Leave(s)
        u == [t EXCEPT !.auth_data = None]
    IN  {Err(s)} \cup
        IF t.assoc_data # None \/ (t.auth_data # None /\ ~t.auth_data.done)
        THEN {Err(t)}
        ELSE {Err(u), Ok([u EXCEPT !.assoc_data = [bss |-> b, late |-> FALSE, tries |-> 0]])}

-----------------------------------------------------------------------------
(* net/wireless: the steps of an attempt                                   *)

\* cfg80211_get_bss.
Matches(s, b) == b \in s.known /\ SsidOf[b] = s.ssid

MlmeAuth(s, b) ==
    IF Matches(s, b) /\ s.current_bss # b THEN MgdAuth(s, b) ELSE {Err(s)}

MlmeAssoc(s, b) ==
    IF Matches(s, b) /\ (s.current_bss # None => s.current_bss = s.conn.prev)
    THEN {IF r.err THEN r ELSE Ok([r.s EXCEPT !.hold[b] = @ + 1]) : r \in MgdAssoc(s, b)}
    ELSE {Err(s)}

\* cfg80211_conn_scan: another scan is under way, or rdev_scan refuses, with -EBUSY
\* (a scan that is being stopped, no regulatory domain yet) or another error, and
\* scan_req is reset.
ConnScan(s) ==
    IF s.scan_req THEN {Busy(s)}
    ELSE {Busy(s), Err(s), Ok([s EXCEPT !.scan_req = TRUE, !.conn.state = "SCANNING"])}

\* cfg80211_conn_do_work.
DoWork(s) ==
    LET state == s.conn.state
        b == s.conn.bssid
    IN  CASE state \in {"SCANNING", "AUTH_FAILED_TIMEOUT"} -> {Err(s)}
          [] state = "SCAN_AGAIN" -> ConnScan(s)
          [] state = "AUTHENTICATE_NEXT" ->
                 MlmeAuth([s EXCEPT !.conn.state = "AUTHENTICATING"], b)
          [] state = "ASSOCIATE_NEXT" ->
                 {IF r.err THEN Err(MgdDeauth(r.s, b).s) ELSE r :
                      r \in MlmeAssoc([s EXCEPT !.conn.state = "ASSOCIATING"], b)}
          [] state \in {"ASSOC_FAILED", "ASSOC_FAILED_TIMEOUT"} -> {Err(MgdDeauth(s, b).s)}
          [] state = "DEAUTH" -> {Ok([MgdDeauth(s, b).s EXCEPT !.conn = None])}
          [] state = "ABANDON" -> {Ok([s EXCEPT !.conn = None])}
          [] OTHER -> {Ok(s)}

\* cfg80211_conn_work.
ConnWork ==
    /\ conn_work
    /\ LET s == [Now EXCEPT !.conn_work = FALSE]
       IN  IF conn = None \/ conn.state = "CONNECTED" THEN Becomes(s)
           ELSE \E r \in DoWork(s) : Becomes(IF r.err THEN ConnectFailed(r.s) ELSE r.s)
    /\ UNCHANGED connects

\* cfg80211_get_conn_bss.
Candidates(s) ==
    {b \in Bss : Matches(s, b) /\ s.conn.bssid \in {None, b}}

Choose(s, b) == Turn([s EXCEPT !.conn.bssid = b], "AUTHENTICATE_NEXT")

\* cfg80211_sme_connect for a free wdev->conn; an allocation may fail.
Begin(s, c) ==
    LET t == [s EXCEPT !.conn = c]
        again(r) == IF r.busy THEN Ok([r.s EXCEPT !.conn.state = "SCAN_AGAIN"]) ELSE r
    IN  {Err(s)} \cup
        IF Candidates(t) # {} THEN UNION {DoWork(Choose(t, b)) : b \in Candidates(t)}
        ELSE {again(r) : r \in ConnScan(t)}

-----------------------------------------------------------------------------
(* The user                                                                *)

\* cfg80211_connect, unless it is refused before anything has been changed.
Connect(want, bssid, prev, auto) ==
    /\ connects < MaxConnects
    /\ connects' = connects + 1
    /\ ssid_len => ssid = want
    /\ current_bss # None => prev = current_bss
    /\ LET s == [Now EXCEPT !.ssid = want, !.ssid_len = TRUE]
           t == IF current_bss = None THEN s ELSE [DropCurrent(s) EXCEPT !.conn = None]
           c == [state |-> "SCANNING", bssid |-> bssid, prev |-> prev, auto |-> auto]
           failed(u) == IF u.current_bss = None THEN [u EXCEPT !.ssid_len = FALSE] ELSE u
       IN  IF t.conn # None THEN Becomes(failed(t))
           ELSE \E r \in Begin(t, c) :
                    Becomes(IF r.err THEN failed([r.s EXCEPT !.conn = None]) ELSE r.s)

\* cfg80211_disconnect.
Disconnect ==
    /\ conn # None \/ current_bss # None
    /\ LET b == IF conn # None THEN conn.bssid ELSE current_bss
           s == IF conn # None /\ conn.state \in {"SCANNING", "SCAN_AGAIN"}
                THEN Now ELSE MgdDeauth(Now, b).s
           t == [s EXCEPT !.conn = None]
       IN  Becomes(IF t.current_bss = None THEN [t EXCEPT !.ssid_len = FALSE] ELSE t)
    /\ UNCHANGED connects

\* A scan of the user's own.
UserScan ==
    /\ ~scan_req
    /\ Becomes([Now EXCEPT !.scan_req = TRUE])
    /\ UNCHANGED connects

\* ___cfg80211_scan_done, of whichever scan, and __cfg80211_sme_scan_done.
ScanDone(found) ==
    /\ scan_req
    /\ LET s == [Now EXCEPT !.scan_req = FALSE, !.known = @ \cup found]
       IN  IF conn = None \/ conn.state \notin {"SCANNING", "SCAN_AGAIN"} THEN Becomes(s)
           ELSE IF Candidates(s) = {} THEN Becomes([s EXCEPT !.conn_work = TRUE])
           ELSE \E b \in Candidates(s) : Becomes(Choose(s, b))
    /\ UNCHANGED connects

\* A BSS that has not been heard of for 30 seconds and that nothing holds.
Expire(b) ==
    /\ ClockRuns
    /\ b \in known /\ hold[b] = 0
    /\ Becomes([Now EXCEPT !.known = @ \ {b}])
    /\ UNCHANGED connects

-----------------------------------------------------------------------------
(* The access point                                                        *)

Auth(s) == IF s.auth_data = None THEN None ELSE s.auth_data.bss
Assoc(s) == IF s.assoc_data = None THEN None ELSE s.assoc_data.bss

\* ieee80211_rx_mgmt_auth: "ok", "no_alg" or "denied".
RxAuth(b, code) ==
    /\ Auth(Now) = b /\ ~auth_data.done
    /\ LET accepted == [Now EXCEPT !.auth_data.done = TRUE, !.auth_data.late = FALSE]
           refused == [Now EXCEPT !.auth_data = None]
       IN  Becomes(IF code = "ok" THEN AuthAccepted(accepted) ELSE AuthRefused(refused, code))
    /\ UNCHANGED connects

\* ieee80211_rx_mgmt_assoc_resp: "ok", "denied", or "later", which moves the timeout
\* as often as it comes.  ieee80211_assoc_success may fail.
RxAssoc(b, code) ==
    /\ Assoc(Now) = b
    /\ LET done == [Now EXCEPT !.assoc_data = None]
       IN  \/ code = "later" /\ Becomes([Now EXCEPT !.assoc_data.late = FALSE])
           \/ code = "denied" /\ Becomes(AssocRefused(done, b))
           \/ code = "ok" /\ Becomes(ConnectedTo([done EXCEPT !.associated = b], b))
           \/ code = "ok" /\ Becomes(AssocTimeout(done, b))
    /\ UNCHANGED connects

\* ieee80211_rx_mgmt_deauth.
RxDeauth(b) ==
    /\ \/ associated = b /\ Becomes(Leave(Now))
       \/ associated # b /\ Assoc(Now) = b /\ Becomes(ProcessDeauth(Abandon(Now), b))
    /\ UNCHANGED connects

\* ieee80211_rx_mgmt_disassoc.
RxDisassoc(b) ==
    /\ associated = b
    /\ Becomes(ProcessDisassoc([Now EXCEPT !.associated = None], b))
    /\ UNCHANGED connects

\* __ieee80211_disconnect, or ieee80211_sta_connection_lost, which keeps the BSS.
ConnectionLost(keep) ==
    /\ associated # None
    /\ Becomes(Leave(IF keep THEN Now ELSE [Now EXCEPT !.known = @ \ {associated}]))
    /\ UNCHANGED connects

-----------------------------------------------------------------------------
(* The interface's work                                                    *)

\* ieee80211_mgd_conn_tx_status.
TxStatus(fc, acked) ==
    /\ fc \in onair
    /\ Becomes([Now EXCEPT !.onair = @ \ {fc}, !.status = [fc |-> fc, acked |-> acked],
                           !.sta_work = TRUE])
    /\ UNCHANGED connects

\* ieee80211_sta_timer: a timeout that has begun is over, if time passes at all.
TimerFires ==
    /\ \/ auth_data # None /\ ~auth_data.late
       \/ assoc_data # None /\ ~assoc_data.late
    /\ LET over(x) == IF x = None THEN None ELSE [x EXCEPT !.late = @ \/ ClockRuns]
       IN  Becomes([Now EXCEPT !.auth_data = over(@), !.assoc_data = over(@),
                               !.sta_work = TRUE])
    /\ UNCHANGED connects

\* What the status of a frame does to the timeout of its exchange.
Acked(s) ==
    LET t == [s EXCEPT !.status = None]
        late == ~s.status.acked
    IN  IF s.status = None THEN s
        ELSE IF s.status.fc = "auth" /\ s.auth_data # None
             THEN [t EXCEPT !.auth_data.late = late]
        ELSE IF s.status.fc = "assoc" /\ s.assoc_data # None
             THEN [t EXCEPT !.assoc_data.late = late]
        ELSE t

\* Slip: the last try is counted when it has been made.
LastTry_Late(x) == x.tries > MaxTries

LastTry(x) == x.tries = MaxTries

\* Slip: the tries are not counted.
AuthDue_Uncounted(s) ==
    IF s.auth_data = None \/ ~s.auth_data.late THEN s
    ELSE IF s.auth_data.done THEN [s EXCEPT !.auth_data = None]
    ELSE [s EXCEPT !.auth_data.late = FALSE, !.onair = @ \cup {"auth"}]

\* ieee80211_auth once more, or cfg80211_auth_timeout; an exchange that is done
\* and that no association has followed is dropped, and nobody is told.
AuthDue(s) ==
    IF s.auth_data = None \/ ~s.auth_data.late THEN s
    ELSE LET b == s.auth_data.bss
             dropped == [s EXCEPT !.auth_data = None]
         IN  IF s.auth_data.done THEN dropped
             ELSE IF ~LastTry(s.auth_data)
             THEN [s EXCEPT !.auth_data.tries = @ + 1, !.auth_data.late = FALSE,
                            !.onair = @ \cup {"auth"}]
             ELSE Turn([dropped EXCEPT !.known = @ \ {b}], "AUTH_FAILED_TIMEOUT")

\* ieee80211_do_assoc, or cfg80211_assoc_timeout.
AssocDue(s) ==
    IF s.assoc_data = None \/ ~s.assoc_data.late THEN s
    ELSE LET b == s.assoc_data.bss
         IN  IF ~LastTry(s.assoc_data)
             THEN [s EXCEPT !.assoc_data.tries = @ + 1, !.assoc_data.late = FALSE,
                            !.onair = @ \cup {"assoc"}]
             ELSE AssocTimeout([s EXCEPT !.assoc_data = None, !.known = @ \ {b}], b)

\* ieee80211_sta_work.
StaWork ==
    /\ sta_work
    /\ Becomes(AssocDue(AuthDue(Acked([Now EXCEPT !.sta_work = FALSE]))))
    /\ UNCHANGED connects

-----------------------------------------------------------------------------
Next ==
    \/ ConnWork
    \/ \E want \in Ssids, bssid, prev \in Bss \cup {None}, auto \in BOOLEAN :
           Connect(want, bssid, prev, auto)
    \/ Disconnect
    \/ UserScan
    \/ \E found \in SUBSET Bss : ScanDone(found)
    \/ \E b \in Bss :
           \/ Expire(b)
           \/ \E code \in {"ok", "no_alg", "denied"} : RxAuth(b, code)
           \/ \E code \in {"ok", "denied", "later"} : RxAssoc(b, code)
           \/ RxDeauth(b)
           \/ RxDisassoc(b)
    \/ \E keep \in BOOLEAN : ConnectionLost(keep)
    \/ \E fc \in onair, acked \in BOOLEAN : TxStatus(fc, acked)
    \/ TimerFires
    \/ StaWork

\* The works run when queued, armed timers fire, and the driver ends its scans;
\* nothing is assumed of the user or of the access points.
Fairness ==
    /\ WF_vars(ConnWork)
    /\ WF_vars(StaWork)
    /\ WF_vars(TimerFires)
    /\ WF_vars(\E found \in SUBSET Bss : ScanDone(found))

Spec == Init /\ [][Next]_vars
FairSpec == Spec /\ Fairness

-----------------------------------------------------------------------------
(* Properties                                                              *)

\* The types of the variables; the number of holds on a BSS is never negative.
TypeOK ==
    /\ conn \in Conns \cup {None} /\ ssid \in Ssids /\ ssid_len \in BOOLEAN
    /\ current_bss \in Bss \cup {None} /\ conn_work \in BOOLEAN /\ scan_req \in BOOLEAN
    /\ known \subseteq Bss /\ hold \in [Bss -> 0 .. 2]
    /\ auth_data \in Auths \cup {None} /\ assoc_data \in Assocs \cup {None}
    /\ associated \in Bss \cup {None}
    /\ status \in Statuses \cup {None}
    /\ onair \subseteq {"auth", "assoc"} /\ sta_work \in BOOLEAN
    /\ connects \in 0 .. MaxConnects

\* What mac80211 is doing is what cfg80211 believes it is doing: an exchange in
\* progress belongs to the attempt that has begun it (cfg80211_sme_rx_auth and
\* cfg80211_sme_rx_assoc_resp do not look at whose answer they are given), and
\* the attempt is CONNECTED exactly to the BSS that mac80211 is associated with.
ExchangeOwned ==
    /\ auth_data # None =>
           /\ conn # None /\ conn.bssid = auth_data.bss
           /\ ~auth_data.done => conn.state = "AUTHENTICATING"
    /\ assoc_data # None =>
           conn # None /\ conn.state = "ASSOCIATING" /\ conn.bssid = assoc_data.bss
    /\ (conn # None /\ conn.state = "CONNECTED") <=> current_bss # None
    /\ current_bss # None => current_bss = associated /\ current_bss = conn.bssid

\* Every cfg80211_hold_bss is undone once, whichever of the many ends an
\* association comes to (refused, timed out, abandoned, left, replaced): a BSS is
\* held by the association in progress and by current_bss, and by nothing else,
\* so that a BSS nobody uses can expire.
HoldsBalanced ==
    \A b \in Bss : hold[b] = (IF Assoc(Now) = b THEN 1 ELSE 0)
                             + (IF current_bss = b THEN 1 ELSE 0)

\* An attempt always has before it what takes it on, in whatever order answers,
\* timeouts and works, of this attempt and of earlier ones, come: the exchange it
\* waits for, the scan, or conn_work.  The attempt that is to scan again is left
\* out: see ScansAgain.
AttemptPending ==
    conn # None =>
        /\ conn.state = "AUTHENTICATING" => auth_data # None
        /\ conn.state = "ASSOCIATING" => assoc_data # None
        /\ conn.state = "SCANNING" => scan_req \/ conn_work
        /\ conn.state \in {"AUTHENTICATE_NEXT", "AUTH_FAILED_TIMEOUT", "ASSOCIATE_NEXT",
                           "ASSOC_FAILED", "ASSOC_FAILED_TIMEOUT", "DEAUTH", "ABANDON"}
               => conn_work

\* "If we can't scan right now, then we need to scan again after the current scan
\* finished" (cfg80211_sme_connect): there is a current scan.
ScansAgain ==
    (conn # None /\ conn.state = "SCAN_AGAIN") => scan_req \/ conn_work

\* An attempt to connect ends, and the user hears that it has succeeded or failed,
\* unless an access point puts the association off again and again, or the attempt
\* is to scan again and no scan is under way.
AttemptEnds ==
    (\A b \in Bss : <>[][~RxAssoc(b, "later")]_vars) =>
        ((conn # None /\ conn.state # "CONNECTED")
             ~> (conn = None \/ conn.state = "CONNECTED" \/ ~ScansAgain))

\* ieee80211_mgd_assoc sets the timeout of the first association request to now,
\* for the interface's work to send it.
RequestIsSent ==
    (assoc_data # None /\ assoc_data.tries = 0)
        ~> ~(assoc_data # None /\ assoc_data.tries = 0)
============================================================================
