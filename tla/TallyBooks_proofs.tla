-------------------------- MODULE TallyBooks_proofs --------------------------
(***************************************************************************)
(* Theorems about TallyBooks for every set of companies, vouchers,         *)
(* contents, days, ranges, registers, devices and requests and any number  *)
(* of edits and pushes.                                                    *)
(***************************************************************************)
EXTENDS TallyBooks, FiniteSetTheorems, TLAPS

VoucherRows == [content : Contents \cup {Gone}, active : BOOLEAN, installed : BOOLEAN]
RegisterRows == [day : Days \cup {NoDay}, active : BOOLEAN]
Readings == SUBSET (Vouchers \X Contents)
DeviceMessages == [op : {"heartbeat", "disconnect"}, device : Devices]
SnapshotMessages == [op : {"snapshot"}, device : Devices, window : Windows, items : Readings]
ResultMessages == [op : {"result"}, device : Devices, voucher : Vouchers, content : Contents]
BridgeMessages == [op : {"bridge"}, company : Companies, items : Readings]
Messages ==
  {Idle} \cup DeviceMessages \cup SnapshotMessages \cup ResultMessages \cup BridgeMessages

(* What the requests under way carry is typed too.                         *)
BooksTypes == TypeOK /\ request \in [Requests -> Messages]

(* What a push reads from its message.                                     *)
LEMMA ReadContents ==
  ASSUME NEW items \in Readings, NEW v \in Vouchers, v \in {i[1] : i \in items}
  PROVE  (CHOOSE i \in items : i[1] = v)[2] \in Contents
<1>1. PICK i \in items : i[1] = v
  OBVIOUS
<1>2. (CHOOSE k \in items : k[1] = v) \in items
  BY <1>1
<1>. QED BY <1>2 DEF Readings

(* Tally's books can only be sent as such messages.                        *)
LEMMA SentReadings ==
  ASSUME BooksTypes
  PROVE  \A c : Everything(c) \in Readings /\ \A w : Snapshot(c, w) \in Readings
BY DEF BooksTypes, TypeOK, Everything, Snapshot, Held, Readings

(* The snapshot of a range: each voucher's row and each register's row     *)
(* come from the voucher's item, or are taken down, or stay.               *)
PushedVoucher(v, w) ==
  \/ /\ voucher'[v] = ReconcileVoucher(voucher[v], w)
     /\ \A r \in Registers : row'[r][v] = ReconcileRow(row[r][v], w)
  \/ \E c \in Contents :
       /\ voucher'[v] = IngestVoucher(voucher[v], c)
       /\ \A r \in Registers : row'[r][v] = ProjectRegister(r, row[r][v], c)

(* What a snapshot does to the rows, voucher by voucher.                   *)
LEMMA PushSnapshotFacts ==
  ASSUME BooksTypes, NEW h \in Requests, PushSnapshot(h)
  PROVE  /\ request[h] \in SnapshotMessages
         /\ request' = [request EXCEPT ![h] = Idle]
         /\ UNCHANGED <<books, status, code, device, verified, bridged>>
         /\ \/ UNCHANGED <<voucher, row, window>>
            \/ /\ voucher' \in [Vouchers -> VoucherRows]
               /\ row' \in [Registers -> [Vouchers -> RegisterRows]]
               /\ window' \in [Registers -> [Months -> {"NONE", "COMPLETE", "MISMATCH"}]]
               /\ \A v \in Vouchers :
                    /\ PushedVoucher(v, request[h].window)
                    /\ \/ \E i \in request[h].items : i[1] = v
                       \/ \A r \in Registers :
                            row'[r][v] = ReconcileRow(row[r][v], request[h].window)
<1>. USE BooksAssumption
<1>. DEFINE sent == request[h]
            w == sent.window
            m == MonthOf[w.from]
            seen == {i[1] : i \in sent.items}
            of(v) == (CHOOSE i \in sent.items : i[1] = v)[2]
            key == <<sent.device, w, sent.items>>
<1>1. sent \in SnapshotMessages
  BY DEF BooksTypes, PushSnapshot, Admitted, Messages, DeviceMessages, ResultMessages,
     BridgeMessages, Idle
<1>2. \A v \in Vouchers : v \in seen => of(v) \in Contents
  BY <1>1, ReadContents DEF SnapshotMessages
<1>3. /\ request' = [request EXCEPT ![h] = Idle]
      /\ UNCHANGED <<books, status, code, device, verified, bridged>>
  BY DEF PushSnapshot, Answer, pairing, stored
<1>4. CASE key \in synced
  BY <1>1, <1>3, <1>4 DEF PushSnapshot, stored
<1>5. CASE key \notin synced
  <2>1. /\ voucher' = [v \in Vouchers |->
                IF v \in seen THEN IngestVoucher(voucher[v], of(v)) ELSE ReconcileVoucher(voucher[v], w)]
        /\ row' = [r \in Registers |-> [v \in Vouchers |->
                IF v \in seen THEN ProjectRegister(r, row[r][v], of(v)) ELSE ReconcileRow(row[r][v], w)]]
        /\ window' = [r \in Registers |-> [window[r] EXCEPT ![m] = RecordWindow(r, m, sent.items)]]
    BY <1>5 DEF PushSnapshot
  <2>. HIDE DEF of, seen, w, m
  <2>2. ASSUME NEW v \in Vouchers
        PROVE  /\ PushedVoucher(v, w)
               /\ \/ \E i \in sent.items : i[1] = v
                  \/ \A r \in Registers : row'[r][v] = ReconcileRow(row[r][v], w)
    <3>1. CASE v \in seen
      <4>1. \E i \in sent.items : i[1] = v
        BY <3>1 DEF seen
      <4>. QED BY <1>2, <2>1, <3>1, <4>1 DEF PushedVoucher
    <3>2. CASE v \notin seen
      BY <2>1, <3>2 DEF PushedVoucher
    <3>. QED BY <3>1, <3>2
  <2>3. ASSUME NEW v \in Vouchers PROVE voucher'[v] \in VoucherRows
    <3>1. voucher[v] \in VoucherRows
      BY DEF BooksTypes, TypeOK, VoucherRows
    <3>2. CASE voucher'[v] = ReconcileVoucher(voucher[v], w)
      BY <3>1, <3>2 DEF ReconcileVoucher, VoucherRows
    <3>3. ASSUME NEW c \in Contents, voucher'[v] = IngestVoucher(voucher[v], c)
          PROVE  voucher'[v] \in VoucherRows
      BY <3>1, <3>3 DEF IngestVoucher, VoucherRows
    <3>. QED BY <2>2, <3>2, <3>3 DEF PushedVoucher
  <2>4. ASSUME NEW r \in Registers, NEW v \in Vouchers PROVE row'[r][v] \in RegisterRows
    <3>1. row[r][v] \in RegisterRows
      BY DEF BooksTypes, TypeOK, RegisterRows
    <3>2. CASE row'[r][v] = ReconcileRow(row[r][v], w)
      BY <3>1, <3>2 DEF ReconcileRow, RegisterRows
    <3>3. ASSUME NEW c \in Contents, row'[r][v] = ProjectRegister(r, row[r][v], c)
          PROVE  row'[r][v] \in RegisterRows
      BY <3>1, <3>3 DEF ProjectRegister, RegisterRows
    <3>. QED BY <2>2, <3>2, <3>3 DEF PushedVoucher
  <2>5. voucher' \in [Vouchers -> VoucherRows]
    BY <2>1, <2>3
  <2>6. row' \in [Registers -> [Vouchers -> RegisterRows]]
    BY <2>1, <2>4
  <2>7. window' \in [Registers -> [Months -> {"NONE", "COMPLETE", "MISMATCH"}]]
    <3>1. \A r \in Registers : RecordWindow(r, m, sent.items) \in {"NONE", "COMPLETE", "MISMATCH"}
      BY DEF RecordWindow
    <3>. QED BY <2>1, <3>1 DEF BooksTypes, TypeOK
  <2>. QED BY <1>1, <1>3, <2>2, <2>5, <2>6, <2>7 DEF w
<1>. QED BY <1>4, <1>5

(* The bridge overwrites what its vouchers say and nothing else.           *)
LEMMA PushTallyDataFacts ==
  ASSUME BooksTypes, NEW h \in Requests, PushTallyData(h)
  PROVE  /\ request' = [request EXCEPT ![h] = Idle]
         /\ UNCHANGED <<books, status, code, device, row, verified, window>>
         /\ voucher' \in [Vouchers -> VoucherRows]
         /\ bridged \subseteq bridged'
         /\ \A v \in Vouchers : /\ voucher[v].content # Gone => voucher'[v].content # Gone
                                /\ v \notin bridged' => voucher'[v] = voucher[v]
<1>. USE BooksAssumption
<1>. DEFINE items == request[h].items
            key == <<request[h].company, items>>
            written == {i[1] : i \in items}
            of(v) == (CHOOSE i \in items : i[1] = v)[2]
<1>1. items \in Readings
  <2>1. Admitted(h, "bridge")
    BY DEF PushTallyData
  <2>2. request[h] \in BridgeMessages
    BY <2>1 DEF BooksTypes, Admitted, Messages, DeviceMessages, SnapshotMessages,
       ResultMessages, Idle
  <2>. QED BY <2>2 DEF BridgeMessages
<1>2. \A v \in Vouchers : v \in written => of(v) \in Contents
  BY <1>1, ReadContents
<1>3. /\ request' = [request EXCEPT ![h] = Idle]
      /\ UNCHANGED <<books, status, code, device, row, verified, window>>
  BY DEF PushTallyData, Answer, pairing
<1>4. voucher \in [Vouchers -> VoucherRows]
  BY DEF BooksTypes, TypeOK, VoucherRows
<1>5. CASE key \in synced
  BY <1>3, <1>4, <1>5 DEF PushTallyData
<1>6. CASE key \notin synced
  <2>1. /\ voucher' = [v \in Vouchers |->
                IF v \notin written THEN voucher[v]
                ELSE [voucher[v] EXCEPT !.content = of(v),
                        !.active = IF voucher[v].content = Gone THEN TRUE ELSE @]]
        /\ bridged' = bridged \cup written
    BY <1>6 DEF PushTallyData
  <2>. HIDE DEF of, written
  <2>2. ASSUME NEW v \in Vouchers
        PROVE  /\ voucher'[v] \in VoucherRows
               /\ v \in written => voucher'[v].content \in Contents
               /\ v \notin written => voucher'[v] = voucher[v]
    <3>1. voucher[v] \in VoucherRows
      BY <1>4
    <3>2. CASE v \notin written
      BY <2>1, <3>1, <3>2
    <3>3. CASE v \in written
      BY <1>2, <2>1, <3>1, <3>3 DEF VoucherRows
    <3>. QED BY <3>2, <3>3
  <2>3. voucher' \in [Vouchers -> VoucherRows]
    BY <2>1, <2>2
  <2>. QED BY <1>3, <2>1, <2>2, <2>3
<1>. QED BY <1>5, <1>6

(* Types hold whatever is read, sent, answered late or lost.               *)
LEMMA BooksTypesInvariant == Spec => []BooksTypes
<1>. USE BooksAssumption
<1>1. Init => BooksTypes
  BY DEF Init, BooksTypes, TypeOK, Messages
<1>2. BooksTypes /\ [Next]_vars => BooksTypes'
  <2>. SUFFICES ASSUME BooksTypes, [Next]_vars PROVE BooksTypes'
    OBVIOUS
  <2>0. /\ TypeOK /\ request \in [Requests -> Messages]
        /\ Idle \in Messages
    BY DEF BooksTypes, Messages
  <2>1. ASSUME NEW v \in Vouchers, EditBooks(v) PROVE BooksTypes'
    <3>1. books' \in [Vouchers -> Contents \cup {Gone}]
      BY <2>0, <2>1 DEF EditBooks, TypeOK
    <3>. QED BY <2>0, <2>1, <3>1 DEF EditBooks, BooksTypes, TypeOK, pairing, stored
  <2>2. ASSUME NEW k \in Codes, CreatePairingCode(k) PROVE BooksTypes'
    BY <2>0, <2>2 DEF CreatePairingCode, BooksTypes, TypeOK, stored
  <2>3. ASSUME NEW k \in Codes, NEW d \in Devices, PairDevice(k, d) PROVE BooksTypes'
    BY <2>0, <2>3 DEF PairDevice, BooksTypes, TypeOK, stored
  <2>4. ASSUME NEW h \in Requests, NEW m \in Messages, Admit(h, m) PROVE BooksTypes'
    BY <2>0, <2>4 DEF Admit, BooksTypes, TypeOK, pairing, stored
  <2>5. ASSUME NEW h \in Requests, NEW d \in Devices, NEW op \in {"heartbeat", "disconnect"},
               RequireDevice(h, d, op)
        PROVE  BooksTypes'
    <3>1. [op |-> op, device |-> d] \in Messages
      BY DEF Messages, DeviceMessages
    <3>. QED BY <2>4, <2>5, <3>1 DEF RequireDevice
  <2>6. ASSUME NEW h \in Requests, NEW d \in Devices, NEW w \in Windows, SendSnapshot(h, d, w)
        PROVE  BooksTypes'
    <3>1. [op |-> "snapshot", device |-> d, window |-> w, items |-> Snapshot(DeviceCompany[d], w)]
            \in Messages
      BY SentReadings DEF Messages, SnapshotMessages
    <3>. QED BY <2>4, <2>6, <3>1 DEF SendSnapshot
  <2>7. ASSUME NEW h \in Requests, NEW c \in Companies, SendBridge(h, c) PROVE BooksTypes'
    <3>1. [op |-> "bridge", company |-> c, items |-> Everything(c)] \in Messages
      BY SentReadings DEF Messages, BridgeMessages
    <3>. QED BY <2>4, <2>7, <3>1 DEF SendBridge
  <2>13. ASSUME NEW h \in Requests, NEW d \in Devices, NEW v \in Vouchers, SendResult(h, d, v)
         PROVE  BooksTypes'
    <3>1. [op |-> "result", device |-> d, voucher |-> v, content |-> books[v]] \in Messages
      BY <2>13 DEF SendResult, Held, Messages, ResultMessages
    <3>. QED BY <2>4, <2>13, <3>1 DEF SendResult
  <2>14. ASSUME NEW h \in Requests, ProjectVerified(h) PROVE BooksTypes'
    <3>1. request[h] \in ResultMessages
      BY <2>0, <2>14 DEF ProjectVerified, Admitted, Messages, DeviceMessages, SnapshotMessages,
         BridgeMessages, Idle
    <3>2. verified' \in [Vouchers -> Contents \cup {Gone}]
      BY <2>0, <2>14, <3>1 DEF ProjectVerified, ResultMessages, TypeOK
    <3>. QED BY <2>0, <2>14, <3>2 DEF ProjectVerified, Answer, BooksTypes, TypeOK, pairing
  <2>8. ASSUME NEW h \in Requests, RequestEnds(h) PROVE BooksTypes'
    BY <2>0, <2>8 DEF RequestEnds, BooksTypes, TypeOK, pairing, stored
  <2>9. ASSUME NEW h \in Requests, Heartbeat(h) \/ DisconnectDevice(h) PROVE BooksTypes'
    <3>1. device' \in [Devices -> {"NONE", "ACTIVE", "REVOKED"}]
      BY <2>0, <2>9 DEF Heartbeat, DisconnectDevice, TypeOK
    <3>2. request' \in [Requests -> Messages]
      BY <2>0, <2>9 DEF Heartbeat, DisconnectDevice, Answer
    <3>3. /\ status' \in {"CONFIGURATION_REQUIRED", "AVAILABLE", "DISCONNECTED"}
          /\ UNCHANGED <<books, code, voucher, row, verified, window>>
      BY <2>9 DEF Heartbeat, DisconnectDevice, stored
    <3>. QED BY <2>0, <3>1, <3>2, <3>3 DEF BooksTypes, TypeOK
  <2>10. ASSUME NEW h \in Requests, PushSnapshot(h) PROVE BooksTypes'
    <3>1. /\ request' \in [Requests -> Messages]
          /\ UNCHANGED <<books, status, code, device, verified>>
      BY <2>0, <2>10, PushSnapshotFacts
    <3>2. /\ voucher' \in [Vouchers -> VoucherRows]
          /\ row' \in [Registers -> [Vouchers -> RegisterRows]]
          /\ window' \in [Registers -> [Months -> {"NONE", "COMPLETE", "MISMATCH"}]]
      <4>1. CASE UNCHANGED <<voucher, row, window>>
        BY <2>0, <4>1 DEF TypeOK, VoucherRows, RegisterRows
      <4>. QED BY <2>10, <4>1, PushSnapshotFacts
    <3>. QED BY <2>0, <3>1, <3>2 DEF BooksTypes, TypeOK, VoucherRows, RegisterRows
  <2>11. ASSUME NEW h \in Requests, PushTallyData(h) PROVE BooksTypes'
    BY <2>0, <2>11, PushTallyDataFacts DEF BooksTypes, TypeOK, VoucherRows
  <2>12. CASE UNCHANGED vars
    BY <2>0, <2>12 DEF vars, BooksTypes, TypeOK, pairing, stored
  <2>. QED BY <2>1, <2>2, <2>3, <2>5, <2>6, <2>7, <2>8, <2>9, <2>10, <2>11, <2>12, <2>13, <2>14 DEF Next
<1>. QED BY <1>1, <1>2, PTL DEF Spec

(* Every variable keeps its type (routes of the snapshots, the pairing and *)
(* the older bridge).                                                      *)
THEOREM BooksTypeCorrect == Spec => []TypeOK
<1>1. BooksTypes => TypeOK
  BY DEF BooksTypes
<1>. QED BY <1>1, BooksTypesInvariant, PTL

-----------------------------------------------------------------------------
(* One device of a company is active at most, and some device is while the *)
(* installation is available.                                              *)
OneActive ==
  /\ \A d, e \in Devices :
       device[d] = "ACTIVE" /\ device[e] = "ACTIVE" /\ DeviceCompany[d] = DeviceCompany[e] => d = e
  /\ status = "AVAILABLE" => \E d \in Devices : device[d] = "ACTIVE"

(* One device of a company at most is active and an available installation *)
(* has one, although heartbeats set ACTIVE and AVAILABLE whatever was      *)
(* paired or disconnected since they were admitted (tally_agent_sync.py;   *)
(* the unique index on a company's active devices).                        *)
THEOREM InstallationAvailableForOne == Spec => []AvailableForOne
<1>1. Init => OneActive
  BY DEF Init, OneActive
<1>2. BooksTypes /\ OneActive /\ [Next]_vars => OneActive'
  <2>. SUFFICES ASSUME BooksTypes, OneActive, [Next]_vars PROVE OneActive'
    OBVIOUS
  <2>0. device \in [Devices -> {"NONE", "ACTIVE", "REVOKED"}]
    BY DEF BooksTypes, TypeOK
  <2>1. ASSUME UNCHANGED <<device, status>> PROVE OneActive'
    BY <2>1 DEF OneActive
  <2>2. ASSUME NEW v \in Vouchers, EditBooks(v) PROVE OneActive'
    BY <2>1, <2>2 DEF EditBooks, pairing
  <2>3. ASSUME NEW k \in Codes, CreatePairingCode(k) PROVE OneActive'
    BY <2>1, <2>3 DEF CreatePairingCode
  <2>4. ASSUME NEW k \in Codes, NEW d \in Devices, PairDevice(k, d) PROVE OneActive'
    BY <2>4 DEF PairDevice, OneActive
  <2>5. ASSUME NEW h \in Requests,
               \/ \E d \in Devices, op \in {"heartbeat", "disconnect"} : RequireDevice(h, d, op)
               \/ \E d \in Devices, w \in Windows : SendSnapshot(h, d, w)
               \/ \E d \in Devices, v \in Vouchers : SendResult(h, d, v)
               \/ \E c \in Companies : SendBridge(h, c)
               \/ RequestEnds(h)
        PROVE  OneActive'
    BY <2>1, <2>5 DEF RequireDevice, SendSnapshot, SendResult, SendBridge, RequestEnds, Admit, pairing
  <2>6. ASSUME NEW h \in Requests, Heartbeat(h) \/ DisconnectDevice(h) PROVE OneActive'
    <3>1. request[h].device \in Devices
      BY <2>6 DEF BooksTypes, Heartbeat, DisconnectDevice, Admitted, Messages, DeviceMessages,
         SnapshotMessages, ResultMessages, BridgeMessages, Idle
    <3>2. CASE Heartbeat(h)
      BY <2>0, <3>1, <3>2 DEF Heartbeat, IndexAllows, OneActive
    <3>3. CASE DisconnectDevice(h)
      BY <2>0, <3>1, <3>3 DEF DisconnectDevice, OneActive
    <3>. QED BY <2>6, <3>2, <3>3
  <2>7. ASSUME NEW h \in Requests, PushSnapshot(h) \/ PushTallyData(h) \/ ProjectVerified(h)
        PROVE  OneActive'
    <3>1. CASE ProjectVerified(h)
      BY <2>1, <3>1 DEF ProjectVerified, pairing
    <3>. QED BY <2>1, <2>7, <3>1, PushSnapshotFacts, PushTallyDataFacts
  <2>8. CASE UNCHANGED vars
    BY <2>1, <2>8 DEF vars, pairing
  <2>. QED BY <2>2, <2>3, <2>4, <2>5, <2>6, <2>7, <2>8 DEF Next
<1>3. OneActive => AvailableForOne
  <2>. SUFFICES ASSUME OneActive, NEW c \in Companies
                PROVE  Cardinality({d \in Devices : device[d] = "ACTIVE" /\ DeviceCompany[d] = c}) <= 1
    BY DEF OneActive, AvailableForOne
  <2>. DEFINE A == {d \in Devices : device[d] = "ACTIVE" /\ DeviceCompany[d] = c}
  <2>1. CASE A = {}
    BY <2>1, FS_EmptySet
  <2>2. CASE A # {}
    <3>1. PICK d : d \in A
      BY <2>2
    <3>2. A = {d}
      BY <3>1 DEF OneActive
    <3>. QED BY <3>2, FS_Singleton
  <2>. QED BY <2>1, <2>2
<1>. QED BY <1>1, <1>2, <1>3, BooksTypesInvariant, PTL DEF Spec

-----------------------------------------------------------------------------
(* Only a snapshot touches the registers' voucher rows.                    *)
LEMMA OnlySnapshotsProject ==
  ASSUME BooksTypes, [Next]_vars
  PROVE  row' = row \/ \E h \in Requests : PushSnapshot(h)
<1>1. ASSUME NEW v \in Vouchers, EditBooks(v) PROVE row' = row
  BY <1>1 DEF EditBooks, stored
<1>2. ASSUME NEW k \in Codes, CreatePairingCode(k) \/ \E d \in Devices : PairDevice(k, d)
      PROVE  row' = row
  BY <1>2 DEF CreatePairingCode, PairDevice, stored
<1>3. ASSUME NEW h \in Requests,
             \/ \E d \in Devices, op \in {"heartbeat", "disconnect"} : RequireDevice(h, d, op)
             \/ \E d \in Devices, w \in Windows : SendSnapshot(h, d, w)
             \/ \E d \in Devices, v \in Vouchers : SendResult(h, d, v)
             \/ \E c \in Companies : SendBridge(h, c)
             \/ RequestEnds(h) \/ Heartbeat(h) \/ DisconnectDevice(h)
      PROVE  row' = row
  BY <1>3 DEF RequireDevice, SendSnapshot, SendResult, SendBridge, RequestEnds, Heartbeat,
     DisconnectDevice, Admit, stored
<1>4. ASSUME NEW h \in Requests, PushTallyData(h) \/ ProjectVerified(h) PROVE row' = row
  BY <1>4 DEF PushTallyData, ProjectVerified
<1>5. CASE UNCHANGED vars
  BY <1>5 DEF vars, stored
<1>. QED BY <1>1, <1>2, <1>3, <1>4, <1>5 DEF Next

(* A snapshot withdraws only rows of its own range of days or of its own   *)
(* vouchers, however late or often it arrives (reconciliation of           *)
(* disappeared vouchers).                                                  *)
THEOREM SnapshotsStayInTheirPeriod == Spec => PeriodsStayApart
<1>. DEFINE Withdrawn(r, v) ==
       \E h \in Requests :
         /\ Admitted(h, "snapshot") /\ request'[h] = Idle
         /\ \/ request[h].window.from <= row[r][v].day /\ row[r][v].day <= request[h].window.to
            \/ \E i \in request[h].items : i[1] = v
<1>1. BooksTypes /\ [Next]_vars =>
        [\A r \in Registers, v \in Vouchers :
           row[r][v].active /\ ~ row'[r][v].active => Withdrawn(r, v)]_vars
  <2>. SUFFICES ASSUME BooksTypes, [Next]_vars, NEW r \in Registers, NEW v \in Vouchers,
                       row[r][v].active, ~ row'[r][v].active
                PROVE  Withdrawn(r, v)
    OBVIOUS
  <2>1. PICK h \in Requests : PushSnapshot(h)
    BY OnlySnapshotsProject
  <2>2. Admitted(h, "snapshot") /\ request'[h] = Idle
    BY <2>1, PushSnapshotFacts DEF PushSnapshot, BooksTypes
  <2>3. CASE \E i \in request[h].items : i[1] = v
    BY <2>2, <2>3
  <2>4. CASE ~ \E i \in request[h].items : i[1] = v
    <3>1. row'[r][v] = ReconcileRow(row[r][v], request[h].window)
      BY <2>1, <2>4, PushSnapshotFacts
    <3>2. request[h].window.from <= row[r][v].day /\ row[r][v].day <= request[h].window.to
      BY <3>1 DEF ReconcileRow, Within
    <3>. QED BY <2>2, <3>2
  <2>. QED BY <2>3, <2>4
<1>. QED BY <1>1, BooksTypesInvariant, PTL DEF Spec, PeriodsStayApart

-----------------------------------------------------------------------------
(* A row that is active stands for a voucher that the books once showed.   *)
RowOfVoucher(r, v) ==
  row[r][v].active =>
    /\ voucher[v].content # Gone
    /\ v \notin bridged /\ RegisterOf[voucher[v].content] = r =>
         voucher[v].active /\ DayOf[voucher[v].content] = row[r][v].day
RowsInStep == \A r \in Registers, v \in Vouchers : RowOfVoucher(r, v)

(* Where the bridge has not written, an active row of the voucher's own    *)
(* register stands for an active voucher of that date (ingestion and       *)
(* projection of vouchers in one transaction).                             *)
THEOREM RegistersFollowVouchers == Spec => []RowsFollowVouchers
<1>. USE BooksAssumption
<1>1. Init => RowsInStep
  BY DEF Init, RowsInStep, RowOfVoucher
<1>2. BooksTypes /\ RowsInStep /\ [Next]_vars => RowsInStep'
  <2>. SUFFICES ASSUME BooksTypes, RowsInStep, [Next]_vars,
                       NEW r \in Registers, NEW v \in Vouchers
                PROVE  RowOfVoucher(r, v)'
    BY DEF RowsInStep
  <2>0. /\ RowOfVoucher(r, v)
        /\ voucher[v] \in VoucherRows /\ row[r][v] \in RegisterRows
    BY DEF RowsInStep, BooksTypes, TypeOK, VoucherRows, RegisterRows
  <2>1. ASSUME UNCHANGED <<voucher, row, bridged>> PROVE RowOfVoucher(r, v)'
    BY <2>0, <2>1 DEF RowOfVoucher
  <2>2. ASSUME NEW u \in Vouchers, EditBooks(u) PROVE RowOfVoucher(r, v)'
    BY <2>1, <2>2 DEF EditBooks, stored
  <2>3. ASSUME NEW k \in Codes, CreatePairingCode(k) \/ \E d \in Devices : PairDevice(k, d)
        PROVE  RowOfVoucher(r, v)'
    BY <2>1, <2>3 DEF CreatePairingCode, PairDevice, stored
  <2>4. ASSUME NEW h \in Requests,
               \/ \E d \in Devices, op \in {"heartbeat", "disconnect"} : RequireDevice(h, d, op)
               \/ \E d \in Devices, w \in Windows : SendSnapshot(h, d, w)
               \/ \E d \in Devices, u \in Vouchers : SendResult(h, d, u)
               \/ \E c \in Companies : SendBridge(h, c)
               \/ RequestEnds(h) \/ Heartbeat(h) \/ DisconnectDevice(h)
        PROVE  RowOfVoucher(r, v)'
    BY <2>1, <2>4 DEF RequireDevice, SendSnapshot, SendResult, SendBridge, RequestEnds, Heartbeat,
       DisconnectDevice, Admit, stored
  <2>5. ASSUME NEW h \in Requests, PushSnapshot(h) PROVE RowOfVoucher(r, v)'
    <3>. DEFINE w == request[h].window
    <3>0. bridged' = bridged
      BY <2>5, PushSnapshotFacts
    <3>1. CASE UNCHANGED <<voucher, row, window>>
      BY <2>1, <3>0, <3>1
    <3>2. CASE PushedVoucher(v, w)
      <4>1. CASE /\ voucher'[v] = ReconcileVoucher(voucher[v], w)
                 /\ row'[r][v] = ReconcileRow(row[r][v], w)
        BY <2>0, <3>0, <4>1 DEF ReconcileVoucher, ReconcileRow, Within, RowOfVoucher,
           VoucherRows, RegisterRows
      <4>2. ASSUME NEW c \in Contents,
                   voucher'[v] = IngestVoucher(voucher[v], c),
                   row'[r][v] = ProjectRegister(r, row[r][v], c)
            PROVE  RowOfVoucher(r, v)'
        BY <3>0, <4>2 DEF IngestVoucher, ProjectRegister, RowOfVoucher
      <4>. QED BY <3>2, <4>1, <4>2 DEF PushedVoucher
    <3>. QED BY <2>5, <3>1, <3>2, PushSnapshotFacts
  <2>6. ASSUME NEW h \in Requests, PushTallyData(h) PROVE RowOfVoucher(r, v)'
    BY <2>0, <2>6, PushTallyDataFacts DEF RowOfVoucher
  <2>8. ASSUME NEW h \in Requests, ProjectVerified(h) PROVE RowOfVoucher(r, v)'
    BY <2>1, <2>8 DEF ProjectVerified
  <2>7. CASE UNCHANGED vars
    BY <2>1, <2>7 DEF vars, stored
  <2>. QED BY <2>2, <2>3, <2>4, <2>5, <2>6, <2>7, <2>8 DEF Next
<1>3. RowsInStep => RowsFollowVouchers
  BY DEF RowsInStep, RowOfVoucher, RowsFollowVouchers
<1>. QED BY <1>1, <1>2, <1>3, BooksTypesInvariant, PTL DEF Spec
=============================================================================
