------------------------------ MODULE TallyBooks ------------------------------
(***************************************************************************)
(* How vouchers reach one client's registers: an office computer is paired *)
(* with a company of Tally, its agent signs requests, and each snapshot of *)
(* a range of days is ingested in the transaction of its request.  A       *)
(* request first finds its device and installation usable and acts on that *)
(* later; other requests commit in between.  The older bridge writes       *)
(* tally_vouchers as well.                                                 *)
(***************************************************************************)
EXTENDS FiniteSets, Naturals

CONSTANTS
  Companies,
  Vouchers,
  VoucherCompany, \* [Vouchers -> Companies]
  Contents,    \* what a voucher may say
  Days,
  DayOf,       \* [Contents -> Days], the voucher's date
  Months,
  MonthOf,     \* [Days -> Months], the period of a date
  Windows,     \* the ranges that agents read: they may overlap and start in another month
  Registers,   \* purchase_register and sales_register
  RegisterOf,  \* [Contents -> Registers], by the voucher's type
  Cancelled,   \* contents of a cancelled voucher
  Posted,      \* vouchers that an approved action created
  Devices, Codes, Requests,
  DeviceCompany, \* [Devices -> Companies], the company a device is paired with
  MaxEdits,    \* bound of the model: changes in Tally
  MaxBatches,  \* bound of the model: no push is begun after so many
  Gone

ASSUME BooksAssumption ==
  /\ VoucherCompany \in [Vouchers -> Companies] /\ DeviceCompany \in [Devices -> Companies]
  /\ Days \subseteq Nat \ {0} /\ Windows \subseteq [from : Days, to : Days]
  /\ DayOf \in [Contents -> Days] /\ MonthOf \in [Days -> Months]
  /\ RegisterOf \in [Contents -> Registers]
  /\ Cancelled \subseteq Contents /\ Posted \subseteq Vouchers
  /\ MaxEdits \in Nat /\ MaxBatches \in Nat
  /\ Gone \notin Contents

VARIABLES
  books,    \* the vouchers in Tally, of every company
  status,   \* connector_installations.status
  code,     \* tally_pairing_codes
  device,   \* tally_devices.status
  request,  \* the requests under way
  synced,   \* the keys in tally_sync_logs
  voucher,  \* tally_vouchers, and provider_objects of that type
  row,      \* the registers' rows with a tally_voucher_guid
  verified, \* what the register row of a verified action says
  window,   \* register_sync_windows
  bridged,  \* history: the vouchers that the bridge has written
  edits

pairing == <<status, code, device>>
stored == <<synced, voucher, row, verified, window>>
vars == <<books, pairing, request, stored, bridged, edits>>

Idle == [op |-> "none"]
NoDay == 0

Init ==
  /\ books \in [Vouchers -> Contents \ Cancelled]
  /\ status = "CONFIGURATION_REQUIRED"
  /\ code = [k \in Codes |-> "NONE"]
  /\ device = [d \in Devices |-> "NONE"]
  /\ request = [h \in Requests |-> Idle]
  /\ synced = {}
  /\ voucher = [v \in Vouchers |-> [content |-> Gone, active |-> FALSE, installed |-> FALSE]]
  /\ row = [r \in Registers |-> [v \in Vouchers |-> [day |-> NoDay, active |-> FALSE]]]
  /\ verified = [v \in Vouchers |-> Gone]
  /\ window = [r \in Registers |-> [m \in Months |-> "NONE"]]
  /\ bridged = {} /\ edits = 0
-----------------------------------------------------------------------------
(* A person alters, cancels, moves, deletes or restores a voucher.         *)
EditBooks(v) ==
  /\ edits < MaxEdits
  /\ \E c \in (Contents \cup {Gone}) \ {books[v]} : books' = [books EXCEPT ![v] = c]
  /\ edits' = edits + 1
  /\ UNCHANGED <<pairing, request, stored, bridged>>

CreatePairingCode(k) ==
  /\ code[k] = "NONE"
  /\ code' = [code EXCEPT ![k] = "OPEN"]
  /\ UNCHANGED <<books, status, device, request, stored, bridged, edits>>

(* The devices paired before are revoked whatever they are doing.          *)
PairDevice(k, d) ==
  /\ code[k] = "OPEN" /\ device[d] = "NONE"
  /\ code' = [code EXCEPT ![k] = "USED"]
  /\ device' = [e \in Devices |->
       IF e = d THEN "ACTIVE" ELSE IF device[e] = "NONE" THEN "NONE" ELSE "REVOKED"]
  /\ status' = "AVAILABLE"
  /\ UNCHANGED <<books, request, stored, bridged, edits>>
-----------------------------------------------------------------------------
Held(c) == {v \in Vouchers : VoucherCompany[v] = c /\ books[v] \in Contents}
Everything(c) == {<<v, books[v]>> : v \in Held(c)}

(* The days of a range.  The slip reads every date as one of them.         *)
WithinAny(day, w) == TRUE
Within(day, w) == w.from <= day /\ day <= w.to
Snapshot(c, w) == {i \in Everything(c) : Within(DayOf[i[2]], w)}

Usable(d) == device[d] = "ACTIVE" /\ status = "AVAILABLE"

Admit(h, message) ==
  /\ request[h] = Idle
  /\ request' = [request EXCEPT ![h] = message]
  /\ UNCHANGED <<books, pairing, stored, bridged, edits>>

RequireDevice(h, d, op) ==
  /\ Usable(d)
  /\ Admit(h, [op |-> op, device |-> d])

(* The key is a digest of the device, the range and what was read of the   *)
(* device's company; an agent always declares a snapshot COMPLETE.         *)
SendSnapshot(h, d, w) ==
  /\ Usable(d) /\ Cardinality(synced) < MaxBatches
  /\ Admit(h, [op |-> "snapshot", device |-> d, window |-> w, items |-> Snapshot(DeviceCompany[d], w)])

(* The result of an approved action, with the voucher as it was read back. *)
SendResult(h, d, v) ==
  /\ Usable(d)
  /\ v \in Posted \cap Held(DeviceCompany[d]) /\ books[v] \notin Cancelled
  /\ Admit(h, [op |-> "result", device |-> d, voucher |-> v, content |-> books[v]])

(* The bridge presents a firm's token and one range that holds everything. *)
SendBridge(h, c) ==
  /\ Cardinality(synced) < MaxBatches
  /\ Admit(h, [op |-> "bridge", company |-> c, items |-> Everything(c)])

(* Refused, lost, or rolled back.  An agent that hears nothing gives up    *)
(* after thirty seconds while its request goes on.                         *)
RequestEnds(h) ==
  /\ request[h] # Idle
  /\ request' = [request EXCEPT ![h] = Idle]
  /\ UNCHANGED <<books, pairing, stored, bridged, edits>>

Admitted(h, op) == request[h].op = op
Answer(h) == request' = [request EXCEPT ![h] = Idle]
-----------------------------------------------------------------------------
(* Sets ACTIVE and AVAILABLE whatever has become of the device since.  The *)
(* unique index on a company's active devices refuses a second one, and    *)
(* lets a device of another company be active beside it.  A slip drops it. *)
IndexIgnored(d) == TRUE
IndexAllows(d) ==
  \A e \in Devices \ {d} : DeviceCompany[e] = DeviceCompany[d] => device[e] # "ACTIVE"
Heartbeat(h) ==
  /\ Admitted(h, "heartbeat") /\ Answer(h)
  /\ IndexAllows(request[h].device)
  /\ device' = [device EXCEPT ![request[h].device] = "ACTIVE"]
  /\ status' = "AVAILABLE"
  /\ UNCHANGED <<books, code, stored, bridged, edits>>

DisconnectDevice(h) ==
  /\ Admitted(h, "disconnect") /\ Answer(h)
  /\ device' = [device EXCEPT ![request[h].device] = "REVOKED"]
  /\ status' = "DISCONNECTED"
  /\ UNCHANGED <<books, code, stored, bridged, edits>>
-----------------------------------------------------------------------------
IngestVoucher(old, c) ==
  [content |-> c, active |-> c \notin Cancelled, installed |-> old.content = Gone \/ old.installed]

(* A voucher that changes its type leaves the other register's row behind. *)
ProjectRegister(r, old, c) ==
  IF RegisterOf[c] = r THEN [day |-> DayOf[c], active |-> c \notin Cancelled] ELSE old

(* What the snapshot leaves out is gone from its days, whichever company   *)
(* it was of.  The vouchers are found by the installation that first wrote *)
(* them, the rows by client.  A slip forgets the rows.                     *)
ReconcileVoucher(old, w) ==
  IF old.installed /\ old.content # Gone /\ Within(DayOf[old.content], w)
  THEN [old EXCEPT !.active = FALSE] ELSE old
LeaveRow(old, w) == old
ReconcileRow(old, w) == IF Within(old.day, w) THEN [old EXCEPT !.active = FALSE] ELSE old

(* The month is that of the range's first day, and all its rows count.     *)
RecordWindow(r, m, items) ==
  IF Cardinality({i \in items : RegisterOf[i[2]] = r /\ i[2] \notin Cancelled})
       = Cardinality({v \in Vouchers : row'[r][v].active /\ MonthOf[row'[r][v].day] = m})
         + Cardinality({v \in Vouchers :
             verified[v] # Gone /\ RegisterOf[verified[v]] = r /\ MonthOf[DayOf[verified[v]]] = m})
  THEN "COMPLETE" ELSE "MISMATCH"

PushSnapshot(h) ==
  /\ Admitted(h, "snapshot") /\ Answer(h)
  /\ LET sent == request[h]
         w == sent.window
         m == MonthOf[w.from]
         seen == {i[1] : i \in sent.items}
         of(v) == (CHOOSE i \in sent.items : i[1] = v)[2]
         key == <<sent.device, w, sent.items>>
     IN IF key \in synced
        THEN UNCHANGED stored
        ELSE /\ synced' = synced \cup {key}
             /\ voucher' = [v \in Vouchers |->
                  IF v \in seen THEN IngestVoucher(voucher[v], of(v)) ELSE ReconcileVoucher(voucher[v], w)]
             /\ row' = [r \in Registers |-> [v \in Vouchers |->
                  IF v \in seen THEN ProjectRegister(r, row[r][v], of(v)) ELSE ReconcileRow(row[r][v], w)]]
             /\ window' = [r \in Registers |-> [window[r] EXCEPT ![m] = RecordWindow(r, m, sent.items)]]
             /\ UNCHANGED verified
  /\ UNCHANGED <<books, pairing, bridged, edits>>

(* The bridge's receiver knows of no cancellation, deletion, installation  *)
(* or register.                                                            *)
PushTallyData(h) ==
  /\ Admitted(h, "bridge") /\ Answer(h)
  /\ LET key == <<request[h].company, request[h].items>>
         written == {i[1] : i \in request[h].items}
         of(v) == (CHOOSE i \in request[h].items : i[1] = v)[2]
     IN IF key \in synced
        THEN UNCHANGED <<synced, voucher, bridged>>
        ELSE /\ synced' = synced \cup {key}
             /\ voucher' = [v \in Vouchers |->
                  IF v \notin written THEN voucher[v]
                  ELSE [voucher[v] EXCEPT !.content = of(v),
                          !.active = IF voucher[v].content = Gone THEN TRUE ELSE @]]
             /\ bridged' = bridged \cup written
  /\ UNCHANGED <<books, pairing, row, verified, window, edits>>

(* The read-back of an approved action is recorded as an object of another *)
(* type than the snapshot's, and its row bears no voucher's identity.      *)
ProjectVerified(h) ==
  /\ Admitted(h, "result") /\ Answer(h)
  /\ verified[request[h].voucher] = Gone
  /\ verified' = [verified EXCEPT ![request[h].voucher] = request[h].content]
  /\ UNCHANGED <<books, pairing, synced, voucher, row, window, bridged, edits>>
-----------------------------------------------------------------------------
Next ==
  \/ \E v \in Vouchers : EditBooks(v)
  \/ \E k \in Codes : CreatePairingCode(k)
  \/ \E k \in Codes, d \in Devices : PairDevice(k, d)
  \/ \E h \in Requests, d \in Devices :
       \/ \E op \in {"heartbeat", "disconnect"} : RequireDevice(h, d, op)
       \/ \E w \in Windows : SendSnapshot(h, d, w)
       \/ \E v \in Vouchers : SendResult(h, d, v)
  \/ \E h \in Requests, c \in Companies : SendBridge(h, c)
  \/ \E h \in Requests :
       \/ RequestEnds(h) \/ Heartbeat(h) \/ DisconnectDevice(h)
       \/ PushSnapshot(h) \/ ProjectVerified(h) \/ PushTallyData(h)

Spec == Init /\ [][Next]_vars
-----------------------------------------------------------------------------
TypeOK ==
  /\ books \in [Vouchers -> Contents \cup {Gone}]
  /\ status \in {"CONFIGURATION_REQUIRED", "AVAILABLE", "DISCONNECTED"}
  /\ code \in [Codes -> {"NONE", "OPEN", "USED"}]
  /\ device \in [Devices -> {"NONE", "ACTIVE", "REVOKED"}]
  /\ voucher \in [Vouchers -> [content : Contents \cup {Gone}, active : BOOLEAN, installed : BOOLEAN]]
  /\ row \in [Registers -> [Vouchers -> [day : Days \cup {NoDay}, active : BOOLEAN]]]
  /\ verified \in [Vouchers -> Contents \cup {Gone}]
  /\ window \in [Registers -> [Months -> {"NONE", "COMPLETE", "MISMATCH"}]]

(* No heartbeat that was admitted before a pairing or a disconnection      *)
(* brings a second device of a company back beside the one paired since,   *)
(* and none leaves an installation available for nobody.                   *)
AvailableForOne ==
  /\ \A c \in Companies :
       Cardinality({d \in Devices : device[d] = "ACTIVE" /\ DeviceCompany[d] = c}) <= 1
  /\ status = "AVAILABLE" => \E d \in Devices : device[d] = "ACTIVE"

(* However late or often snapshots arrive, one withdraws only rows of its  *)
(* own range of days or of vouchers that it lists.  A late one may         *)
(* withdraw a row that a newer snapshot brought into that range.           *)
PeriodsStayApart ==
  [][\A r \in Registers, v \in Vouchers :
       row[r][v].active /\ ~ row'[r][v].active =>
         \E h \in Requests :
           /\ Admitted(h, "snapshot") /\ request'[h] = Idle
           /\ \/ request[h].window.from <= row[r][v].day /\ row[r][v].day <= request[h].window.to
              \/ \E i \in request[h].items : i[1] = v]_vars

(* Where the bridge has not written, an active row of the voucher's own    *)
(* register stands for an active voucher of the row's date.                *)
RowsFollowVouchers ==
  \A r \in Registers : \A v \in Vouchers \ bridged :
    row[r][v].active /\ RegisterOf[voucher[v].content] = r =>
      voucher[v].active /\ DayOf[voucher[v].content] = row[r][v].day

(* A register counts one voucher of Tally once.                            *)
OneRowPerVoucher ==
  \A v \in Vouchers :
    Cardinality({r \in Registers : row[r][v].active}) + (IF verified[v] = Gone THEN 0 ELSE 1) <= 1
=============================================================================
