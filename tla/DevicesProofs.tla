---------------------------- MODULE DevicesProofs ----------------------------
(***************************************************************************)
(* Proofs about what is done with attached devices: the registry of        *)
(* devices (Registry), the actions of a run's steps on one                 *)
(* (ElementActions) and a preflight of one (Preflight), for any phones,    *)
(* requests, waits, screens and scenarios.                                 *)
(***************************************************************************)
EXTENDS Registry, Preflight, ElementActions, FiniteSetTheorems, TLAPS

-----------------------------------------------------------------------------
(* The registry: the inductive invariant, part by part. *)

Known(s) == rows[s] # NoValue /\ rows[s].hw = PhoneOf[s]

(* Between an undisturbed refresh that has ended and whatever comes next,  *)
(* the table knows each device that is here, and no refresh is under way.  *)
InStep ==
  settled => /\ \A s \in Serials : attached[s] = "device" => Known(s)
             /\ \A r \in Requests : ~Refreshing(r)

(* A refresh that nothing has disturbed is the only one; it has registered *)
(* each device that is here, or is still to do so.                         *)
Undisturbed ==
  \A r \in Requests : Refreshing(r) /\ req[r].undisturbed =>
    /\ \A q \in Requests \ {r} : ~Refreshing(q)
    /\ \A s \in Serials : attached[s] = "device" => s \in req[r].todo \/ Known(s)
    /\ req[r].pc \in {"props", "register"} => req[r].hw = PhoneOf[req[r].serial]

AtHand == \A r \in Requests : req[r].pc \in {"props", "register"} => req[r].serial \in Serials

(* What an undisturbed listing has read of the table.                      *)
ListedAll ==
  \A r \in Requests : req[r].pc = "rows" /\ req[r].undisturbed =>
    /\ \A s \in Serials : attached[s] = "device" => [serial |-> s, hw |-> PhoneOf[s]] \in req[r].listed
    /\ \A row \in req[r].listed : attached[row.serial] = "device" => row.hw = PhoneOf[row.serial]

RegistryInv ==
  RegistryTypeOK /\ AtHand /\ InStep /\ Undisturbed /\ ListedAll /\ ListingExact /\ NicknameKept

-----------------------------------------------------------------------------
(* The registry: what a listing makes of the table. *)

\* A row tells which phone it reaches, where the table knows every device that is here: then a
\* listing has one serial of each phone, the USB one of a phone that is here both ways.
LEMMA OneSerialPerPhone ==
  ASSUME NEW L \in SUBSET Listed,
         \A s \in Serials : attached[s] = "device" => [serial |-> s, hw |-> PhoneOf[s]] \in L,
         \A row \in L : attached[row.serial] = "device" => row.hw = PhoneOf[row.serial],
         NEW best \in OneRowPerPhysicalDevice({row \in L : attached[row.serial] = "device"}),
         NEW here, here = {s \in Serials : attached[s] = "device"},
         NEW listed, listed = {row.serial : row \in best}
  PROVE  OncePerPhone(listed, here)
<1> DEFINE present == {row \in L : attached[row.serial] = "device"}
<1>1. \A row \in present : /\ row.serial \in here /\ row.hw = PhoneOf[row.serial]
                           /\ row = [serial |-> row.serial, hw |-> PhoneOf[row.serial]]
  BY DEF Listed
<1>2. \A s \in here : [serial |-> s, hw |-> PhoneOf[s]] \in present
  OBVIOUS
<1>3. \A row \in present : Key(row) = PhoneOf[row.serial]
  BY <1>1, SerialsAssumption DEF Key
<1>4. /\ best \subseteq present
      /\ \A a \in present : Cardinality({b \in best : Key(b) = Key(a)}) = 1
      /\ \A a \in present : a.serial \in Usb => \E b \in best : b.serial \in Usb /\ Key(b) = Key(a)
  BY DEF OneRowPerPhysicalDevice
<1>5. IsFiniteSet(present)
  <2> DEFINE f == [row \in present |-> row.serial]
  <2>1. f \in [present -> Serials]
    BY <1>1
  <2>2. \A a, b \in present : f[a] = f[b] => a = b
    BY <1>1
  <2> HIDE DEF f, present
  <2>3. f \in Injection(present, Serials)
    BY <2>1, <2>2 DEF Injection, IsInjective
  <2> QED
    BY <2>3, FS_Injection, SerialsAssumption
<1> HIDE DEF present
<1>6. ASSUME NEW s0 \in here
      PROVE  Cardinality({s \in listed : PhoneOf[s] = PhoneOf[s0]}) = 1
  <2> DEFINE a == [serial |-> s0, hw |-> PhoneOf[s0]]
             B == {b \in best : Key(b) = Key(a)}
  <2>1. a \in present /\ Key(a) = PhoneOf[s0]
    BY <1>2, <1>3
  <2>2. IsFiniteSet(B) /\ Cardinality(B) = 1
    BY <1>4, <1>5, <2>1, FS_Subset
  <2>3. PICK x : B = {x}
    BY <2>2, FS_Singleton
  <2>4. \A s : s \in listed /\ PhoneOf[s] = PhoneOf[s0] <=> s = x.serial
    BY <1>3, <1>4, <2>1, <2>3
  <2>5. {s \in listed : PhoneOf[s] = PhoneOf[s0]} = {x.serial}
    BY <2>4
  <2> QED
    BY <2>5, FS_Singleton, Zenon
<1>7. ASSUME NEW s \in here \cap Usb
      PROVE  \E t \in listed \cap Usb : PhoneOf[t] = PhoneOf[s]
  <2> DEFINE a == [serial |-> s, hw |-> PhoneOf[s]]
  <2>1. a \in present /\ Key(a) = PhoneOf[s] /\ a.serial \in Usb
    BY <1>2, <1>3
  <2>2. PICK b \in best : b.serial \in Usb /\ Key(b) = Key(a)
    BY <1>4, <2>1
  <2> QED
    BY <1>3, <1>4, <2>1, <2>2
<1>8. listed \subseteq here
  BY <1>1, <1>4
<1> QED
  BY <1>6, <1>7, <1>8 DEF OncePerPhone

-----------------------------------------------------------------------------
(* The registry: how each step keeps the invariant. *)

\* A request that one step leaves with another pc, and other readings.
LEMMA OneRequest ==
  ASSUME RegistryTypeOK, NEW r \in Requests, NEW x \in Request, req' = [req EXCEPT ![r] = x]
  PROVE  /\ req' \in [Requests -> Request] /\ req'[r] = x
         /\ \A q \in Requests \ {r} : req'[q] = req[q]
  BY DEF RegistryTypeOK

\* The environment disturbs every request, and nothing else of it.
LEMMA DisturbedIs ==
  ASSUME RegistryTypeOK
  PROVE  /\ Disturbed(req) \in [Requests -> Request]
         /\ \A r \in Requests : /\ ~Disturbed(req)[r].undisturbed
                                /\ Disturbed(req)[r].pc = req[r].pc
                                /\ Disturbed(req)[r].serial = req[r].serial
<1>1. \A x \in Request : [x EXCEPT !.undisturbed = FALSE] \in Request
  BY DEF Request
<1>2. \A r \in Requests : req[r] \in Request
  BY DEF RegistryTypeOK
<1>3. \A x \in Request : /\ [x EXCEPT !.undisturbed = FALSE].pc = x.pc
                         /\ [x EXCEPT !.undisturbed = FALSE].serial = x.serial
                         /\ [x EXCEPT !.undisturbed = FALSE].undisturbed = FALSE
  BY DEF Request
<1>4. \A r \in Requests : Disturbed(req)[r] = [req[r] EXCEPT !.undisturbed = FALSE]
  BY DEF Disturbed
<1>5. Disturbed(req) \in [Requests -> Request]
  BY <1>1, <1>2, Zenon DEF Disturbed
<1> QED
  BY <1>2, <1>3, <1>4, <1>5

\* After a change of what is attached nothing counts as undisturbed.
LEMMA AllDisturbed ==
  ASSUME ~settled', \A r \in Requests : ~req'[r].undisturbed
  PROVE  InStep' /\ Undisturbed' /\ ListedAll' /\ ListingExact'
  BY DEF InStep, Undisturbed, ListedAll, ListingExact

\* A step that takes no listing further, with the same devices here.
LEMMA ListingsStand ==
  ASSUME ListedAll, ListingExact, UNCHANGED attached,
         \A r \in Requests : req'[r].pc \in {"rows", "listed"} /\ req'[r].undisturbed =>
           req'[r].pc = req[r].pc /\ req[r].undisturbed /\ req'[r].listed = req[r].listed
  PROVE  ListedAll' /\ ListingExact'
<1>1. ListedAll'
  BY DEF ListedAll
<1>2. ListingExact'
  BY DEF ListingExact
<1> QED
  BY <1>1, <1>2

\* A device comes, is authorised or goes.
LEMMA AttachKeeps ==
  ASSUME RegistryInv, NEW s \in Serials, NEW state \in {"no", "unready", "device"}, Attach(s, state),
         UNCHANGED <<trusted, rows, typed, readFaults>>
  PROVE  RegistryInv'
<1>1. /\ req' = Disturbed(req) /\ settled' = FALSE /\ changes' = changes + 1 /\ changes < MaxChanges
      /\ attached' = [attached EXCEPT ![s] = state]
  BY DEF Attach
<1>2. RegistryTypeOK'
  <2>1. changes' \in 0 .. MaxChanges
    BY <1>1, SerialsAssumption DEF RegistryInv, RegistryTypeOK
  <2> QED
    BY <1>1, <2>1, DisturbedIs DEF RegistryInv, RegistryTypeOK
<1>3. AtHand'
  BY <1>1, DisturbedIs DEF RegistryInv, AtHand
<1>4. NicknameKept'
  BY DEF RegistryInv, NicknameKept
<1> QED
  BY <1>1, <1>2, <1>3, <1>4, AllDisturbed, DisturbedIs DEF RegistryInv

\* adb connects to phones over Wi-Fi, and the request that asked for it goes on with a refresh.
LEMMA ConnectKeeps ==
  ASSUME RegistryInv, NEW r \in Requests,
         ConnectDiscovered(r) \/ \E s \in Serials : DevicesConnect(r, s)
  PROVE  RegistryInv'
<1>1. /\ req' = [Disturbed(req) EXCEPT ![r].pc = "connected"]
      /\ settled' = FALSE /\ changes' = changes + 1 /\ changes < MaxChanges
      /\ UNCHANGED <<trusted, rows, typed, readFaults>>
  BY DEF ConnectDiscovered, DevicesConnect
<1>2. attached' \in [Serials -> {"no", "unready", "device"}]
  BY DEF ConnectDiscovered, DevicesConnect, RegistryInv, RegistryTypeOK
<1> DEFINE D == Disturbed(req)
<1>3. /\ D \in [Requests -> Request]
      /\ \A q \in Requests : ~D[q].undisturbed /\ D[q].pc = req[q].pc /\ D[q].serial = req[q].serial
  BY DisturbedIs DEF RegistryInv
<1>4. req' = [D EXCEPT ![r].pc = "connected"]
  BY <1>1
<1> HIDE DEF D
<1>5. \A x \in Request : /\ [x EXCEPT !.pc = "connected"] \in Request
                         /\ [x EXCEPT !.pc = "connected"].pc = "connected"
                         /\ [x EXCEPT !.pc = "connected"].undisturbed = x.undisturbed
  BY DEF Request
<1>6. req' = [D EXCEPT ![r] = [D[r] EXCEPT !.pc = "connected"]]
  BY <1>3, <1>4
<1>7. /\ req' \in [Requests -> Request] /\ req'[r] = [D[r] EXCEPT !.pc = "connected"]
      /\ \A q \in Requests \ {r} : req'[q] = D[q]
  BY <1>3, <1>5, <1>6
<1>8. ASSUME NEW q \in Requests
      PROVE  /\ ~req'[q].undisturbed
             /\ req'[q].pc \in {"props", "register"} =>
                  req[q].pc = req'[q].pc /\ req'[q].serial = req[q].serial
  <2>1. CASE q = r
    BY <1>3, <1>5, <1>7, <2>1
  <2>2. CASE q # r
    BY <1>3, <1>7, <2>2
  <2> QED
    BY <2>1, <2>2
<1>9. RegistryTypeOK'
  <2>1. changes' \in 0 .. MaxChanges
    BY <1>1, SerialsAssumption DEF RegistryInv, RegistryTypeOK
  <2> QED
    BY <1>1, <1>2, <1>7, <2>1 DEF RegistryInv, RegistryTypeOK
<1>10. AtHand'
  BY <1>8 DEF RegistryInv, AtHand
<1>11. NicknameKept'
  BY <1>1 DEF RegistryInv, NicknameKept
<1> QED
  BY <1>1, <1>8, <1>9, <1>10, <1>11, AllDisturbed DEF RegistryInv

\* Somebody types a nickname, or a phone is paired: no request is concerned.
LEMMA TypedKeeps ==
  ASSUME RegistryInv, NEW s \in Serials, Pair(s) \/ \E n \in Typed : Nickname(s, n)
  PROVE  RegistryInv'
<1>1. UNCHANGED <<attached, req, settled, changes, readFaults>>
  BY DEF Pair, Nickname
<1>2. ListedAll' /\ ListingExact' /\ AtHand'
  <2>1. AtHand'
    BY <1>1 DEF RegistryInv, AtHand
  <2> QED
    BY <1>1, <2>1, ListingsStand DEF RegistryInv
<1>3. CASE Pair(s)
  <2>1. UNCHANGED <<rows, typed>> /\ trusted' = trusted \cup {s}
    BY <1>3 DEF Pair
  <2>2. RegistryTypeOK'
    BY <1>1, <2>1 DEF RegistryInv, RegistryTypeOK
  <2>3. InStep' /\ Undisturbed' /\ NicknameKept'
    BY <1>1, <2>1 DEF RegistryInv, InStep, Undisturbed, NicknameKept, Known, Refreshing
  <2> QED
    BY <1>2, <2>2, <2>3 DEF RegistryInv
<1>4. ASSUME NEW n \in Typed, Nickname(s, n)
      PROVE  RegistryInv'
  <2>1. /\ rows[s] # NoValue /\ rows' = [rows EXCEPT ![s].nick = n]
        /\ typed' = [typed EXCEPT ![s] = n] /\ trusted' = trusted
    BY <1>4 DEF Nickname
  <2>2. rows[s] \in Row
    BY <2>1 DEF RegistryInv, RegistryTypeOK
  <2>3. /\ [rows[s] EXCEPT !.nick = n] \in Row
        /\ [rows[s] EXCEPT !.nick = n].nick = n
        /\ [rows[s] EXCEPT !.nick = n].hw = rows[s].hw
    BY <2>2 DEF Row, Nicknames
  <2>4. rows' = [rows EXCEPT ![s] = [rows[s] EXCEPT !.nick = n]]
    BY <2>1
  <2>5. /\ rows' \in [Serials -> Row \cup {NoValue}] /\ rows'[s] = [rows[s] EXCEPT !.nick = n]
        /\ \A t \in Serials \ {s} : rows'[t] = rows[t]
    BY <2>3, <2>4 DEF RegistryInv, RegistryTypeOK
  <2>6. rows'[s] # NoValue
    BY <2>3, <2>5, NullAssumption
  <2>7. \A t \in Serials : Known(t) => Known(t)'
    BY <2>1, <2>3, <2>5, <2>6 DEF Known
  <2>8. InStep' /\ Undisturbed'
    BY <1>1, <2>7 DEF RegistryInv, InStep, Undisturbed, Refreshing
  <2>9. typed' \in [Serials -> Nicknames]
    BY <2>1 DEF RegistryInv, RegistryTypeOK, Nicknames
  <2>10. RegistryTypeOK'
    BY <1>1, <2>1, <2>5, <2>9 DEF RegistryInv, RegistryTypeOK
  <2>11. NicknameKept'
    BY <2>1, <2>3, <2>5, <2>6 DEF RegistryInv, RegistryTypeOK, NicknameKept
  <2> QED
    BY <1>2, <2>8, <2>10, <2>11 DEF RegistryInv
<1> QED
  BY <1>3, <1>4

\* A refresh begins: adb lists what is attached.
LEMMA RefreshKeeps ==
  ASSUME RegistryInv, NEW r \in Requests, Refresh(r)
  PROVE  RegistryInv'
<1> DEFINE others == {q \in Requests \ {r} : Refreshing(q)}
           asked == IF others = {} THEN req ELSE Disturbed(req)
           x == [Idle EXCEPT !.pc = "scanned", !.todo = {s \in Serials : attached[s] # "no"},
                             !.undisturbed = (others = {})]
<1>1. /\ req[r].pc \in {"idle", "connected"} /\ req' = [asked EXCEPT ![r] = x] /\ settled' = FALSE
      /\ UNCHANGED <<attached, trusted, rows, typed, changes, readFaults>>
  BY DEF Refresh, Scanned
<1>2. /\ x.pc = "scanned" /\ x.todo = {s \in Serials : attached[s] # "no"}
      /\ x.undisturbed = (others = {}) /\ x \in Request
  <2>1. {s \in Serials : attached[s] # "no"} \in SUBSET Serials /\ Idle \in Request
    BY DEF Idle, Request, Nicknames
  <2> HIDE DEF others
  <2>2. x \in Request
    BY <2>1 DEF Request
  <2>3. x.pc = "scanned" /\ x.todo = {s \in Serials : attached[s] # "no"}
    BY DEF Idle
  <2>4. x.undisturbed = (others = {})
    BY DEF Idle
  <2> QED
    BY <2>2, <2>3, <2>4 DEF others
<1>3. /\ asked \in [Requests -> Request]
      /\ \A q \in Requests : /\ asked[q].pc = req[q].pc /\ asked[q].serial = req[q].serial
                             /\ asked[q].undisturbed => others = {} /\ asked[q] = req[q]
  BY DisturbedIs DEF RegistryInv, RegistryTypeOK
<1> HIDE DEF x, asked
<1>4. /\ req' \in [Requests -> Request] /\ req'[r] = x
      /\ \A q \in Requests \ {r} : req'[q] = asked[q]
  BY <1>1, <1>2, <1>3
<1>5. RegistryTypeOK'
  BY <1>1, <1>4 DEF RegistryInv, RegistryTypeOK
<1>6. AtHand'
  BY <1>2, <1>3, <1>4 DEF RegistryInv, AtHand
<1>7. InStep'
  BY <1>1 DEF InStep
<1>8. Undisturbed'
  <2> SUFFICES ASSUME NEW q \in Requests, Refreshing(q)', req'[q].undisturbed
               PROVE  /\ \A p \in Requests \ {q} : ~Refreshing(p)'
                      /\ \A s \in Serials : attached[s] = "device" => s \in req'[q].todo \/ Known(s)'
                      /\ req'[q].pc \in {"props", "register"} => req'[q].hw = PhoneOf[req'[q].serial]
    BY <1>1 DEF Undisturbed
  <2>1. q = r
    <3> SUFFICES ASSUME q # r PROVE FALSE
      OBVIOUS
    <3>1. req'[q] = asked[q] /\ others = {} /\ asked[q] = req[q]
      BY <1>3, <1>4
    <3>2. Refreshing(q)
      BY <3>1 DEF Refreshing
    <3> QED
      BY <3>1, <3>2
  <2>2. others = {}
    BY <1>2, <1>4, <2>1
  <2>3. \A p \in Requests \ {r} : ~Refreshing(p)'
    BY <1>3, <1>4, <2>2 DEF Refreshing
  <2> QED
    BY <1>2, <1>4, <2>1, <2>3
<1>9. ListedAll' /\ ListingExact'
  <2>1. \A q \in Requests : req'[q].pc \in {"rows", "listed"} /\ req'[q].undisturbed => q # r /\ req'[q] = req[q]
    BY <1>2, <1>3, <1>4
  <2> QED
    BY <1>1, <2>1, ListingsStand DEF RegistryInv
<1>10. NicknameKept'
  BY <1>1 DEF RegistryInv, NicknameKept
<1> QED
  BY <1>5, <1>6, <1>7, <1>8, <1>9, <1>10 DEF RegistryInv

\* A step of a refresh that leaves the table and what is attached as they are, goes on with the
\* same devices to do, and has read of the one at hand what it is, unless it is disturbed.
LEMMA ReadKeeps ==
  ASSUME RegistryInv, NEW r \in Requests, NEW x \in Request, Refreshing(r),
         req' = [req EXCEPT ![r] = x], x.pc \in {"props", "register"}, x.serial \in Serials,
         x.todo = req[r].todo,
         x.undisturbed => req[r].undisturbed /\ x.hw = PhoneOf[x.serial],
         readFaults' \in 0 .. MaxReadFaults,
         UNCHANGED <<attached, trusted, rows, typed, settled, changes>>
  PROVE  RegistryInv'
<1>1. /\ req' \in [Requests -> Request] /\ req'[r] = x
      /\ \A q \in Requests \ {r} : req'[q] = req[q]
  BY OneRequest DEF RegistryInv
<1>2. RegistryTypeOK'
  BY <1>1 DEF RegistryInv, RegistryTypeOK
<1>3. AtHand'
  BY <1>1 DEF RegistryInv, AtHand
<1>4. \A q \in Requests : Refreshing(q)' => Refreshing(q)
  BY <1>1 DEF Refreshing
<1>5. InStep'
  BY <1>4 DEF RegistryInv, InStep, Known
<1>6. Undisturbed'
  <2>1. \A q \in Requests : req'[q].undisturbed =>
          req[q].undisturbed /\ req'[q].todo = req[q].todo
    BY <1>1
  <2>2. \A s \in Serials : Known(s) => Known(s)'
    BY DEF Known
  <2>3. \A q \in Requests : Refreshing(q)' /\ req'[q].undisturbed /\ req'[q].pc \in {"props", "register"} =>
          req'[q].hw = PhoneOf[req'[q].serial]
    BY <1>1, <1>4 DEF RegistryInv, Undisturbed
  <2> QED
    BY <1>4, <2>1, <2>2, <2>3 DEF RegistryInv, Undisturbed
<1>7. ListedAll' /\ ListingExact'
  <2>1. \A q \in Requests : req'[q].pc \in {"rows", "listed"} => q # r /\ req'[q] = req[q]
    BY <1>1
  <2> QED
    BY <2>1, ListingsStand DEF RegistryInv
<1>8. NicknameKept'
  BY DEF RegistryInv, NicknameKept
<1> QED
  BY <1>2, <1>3, <1>5, <1>6, <1>7, <1>8 DEF RegistryInv

\* The properties of a device are read, or not.
LEMMA ReadPropsKeeps ==
  ASSUME RegistryInv, NEW r \in Requests, ReadProps(r)
  PROVE  RegistryInv'
<1>1. /\ req[r] \in Request /\ req \in [Requests -> Request] /\ req[r].pc = "scanned" /\ Refreshing(r)
      /\ UNCHANGED <<attached, trusted, rows, typed, settled, changes>>
  BY DEF ReadProps, RegistryInv, RegistryTypeOK, Refreshing
<1>2. PICK s \in req[r].todo :
        \/ /\ req' = [req EXCEPT ![r].pc = "props", ![r].serial = s, ![r].hw = PhoneOf[s]]
           /\ UNCHANGED readFaults
        \/ /\ req' = [req EXCEPT ![r].pc = "props", ![r].serial = s, ![r].hw = NoValue,
                                 ![r].undisturbed = FALSE]
           /\ readFaults' = readFaults \/ (readFaults' = readFaults + 1 /\ readFaults < MaxReadFaults)
  BY DEF ReadProps
<1>3. s \in Serials /\ PhoneOf[s] \in HardwareSerials
  BY <1>1 DEF Request, HardwareSerials
<1>4. readFaults' \in 0 .. MaxReadFaults
  BY <1>2, SerialsAssumption DEF RegistryInv, RegistryTypeOK
<1>5. CASE req' = [req EXCEPT ![r].pc = "props", ![r].serial = s, ![r].hw = PhoneOf[s]]
  <2> DEFINE x == [req[r] EXCEPT !.pc = "props", !.serial = s, !.hw = PhoneOf[s]]
  <2>1. req' = [req EXCEPT ![r] = x]
    BY <1>1, <1>5
  <2>2. /\ x \in Request /\ x.pc \in {"props", "register"} /\ x.serial \in Serials /\ x.todo = req[r].todo
        /\ x.undisturbed = req[r].undisturbed /\ x.hw = PhoneOf[x.serial]
    BY <1>1, <1>3 DEF Request
  <2> HIDE DEF x
  <2> QED
    BY <1>1, <1>4, <2>1, <2>2, ReadKeeps
<1>6. CASE req' = [req EXCEPT ![r].pc = "props", ![r].serial = s, ![r].hw = NoValue, ![r].undisturbed = FALSE]
  <2> DEFINE x == [req[r] EXCEPT !.pc = "props", !.serial = s, !.hw = NoValue, !.undisturbed = FALSE]
  <2>1. req' = [req EXCEPT ![r] = x]
    BY <1>1, <1>6
  <2>2. /\ x \in Request /\ x.pc \in {"props", "register"} /\ x.serial \in Serials /\ x.todo = req[r].todo
        /\ ~x.undisturbed
    BY <1>1, <1>3 DEF Request
  <2> HIDE DEF x
  <2> QED
    BY <1>1, <1>4, <2>1, <2>2, ReadKeeps
<1> QED
  BY <1>2, <1>5, <1>6

\* The name of a device is read.
LEMMA ReadNameKeeps ==
  ASSUME RegistryInv, NEW r \in Requests, ReadName(r)
  PROVE  RegistryInv'
<1>1. /\ req[r].pc = "props" /\ req[r] \in Request /\ req \in [Requests -> Request]
      /\ UNCHANGED <<attached, trusted, rows, typed, settled, changes, readFaults>>
      /\ readFaults \in 0 .. MaxReadFaults
  BY DEF ReadName, RegistryInv, RegistryTypeOK
<1>2. req[r].serial \in Serials
  BY <1>1 DEF RegistryInv, AtHand
<1> DEFINE n == IF attached[req[r].serial] = "device" THEN OwnName[req[r].serial] ELSE NoValue
           x == [req[r] EXCEPT !.pc = "register", !.name = n]
<1>3. req' = [req EXCEPT ![r].pc = "register", ![r].name = n]
  BY DEF ReadName
<1>4. n \in Nicknames
  BY <1>2 DEF Nicknames
<1> HIDE DEF n
<1>5. req' = [req EXCEPT ![r] = x]
  BY <1>1, <1>3
<1>6. /\ x \in Request /\ x.pc = "register" /\ x.serial = req[r].serial /\ x.hw = req[r].hw
      /\ x.undisturbed = req[r].undisturbed /\ x.todo = req[r].todo
  BY <1>1, <1>4 DEF Request
<1> HIDE DEF x
<1>7. Refreshing(r)
  BY <1>1 DEF Refreshing
<1>8. x.undisturbed => req[r].undisturbed /\ x.hw = PhoneOf[x.serial]
  BY <1>1, <1>6, <1>7 DEF RegistryInv, Undisturbed
<1>9. x.pc \in {"props", "register"} /\ x.serial \in Serials /\ x.todo = req[r].todo /\ x \in Request
  BY <1>2, <1>6
<1>10. readFaults' \in 0 .. MaxReadFaults
  BY <1>1
<1> QED
  BY <1>1, <1>5, <1>7, <1>8, <1>9, <1>10, ReadKeeps

\* What a refresh read of a device is registered.
LEMMA RegisterKeeps ==
  ASSUME RegistryInv, NEW r \in Requests, Register(r)
  PROVE  RegistryInv'
<1>0. PICK s : s = req[r].serial
  OBVIOUS
<1> DEFINE row == [hw |-> req[r].hw, nick |-> StoredNick(rows[s], req[r].name)]
           x == [req[r] EXCEPT !.pc = "scanned", !.todo = req[r].todo \ {s}, !.serial = NoValue,
                               !.hw = NoValue, !.name = NoValue]
<1>1. /\ req[r].pc = "register" /\ req[r] \in Request /\ req \in [Requests -> Request] /\ Refreshing(r)
      /\ rows' = [rows EXCEPT ![s] = row] /\ rows \in [Serials -> Row \cup {NoValue}]
      /\ UNCHANGED <<attached, trusted, typed, settled, changes, readFaults>>
  BY <1>0 DEF Register, RegistryInv, RegistryTypeOK, Refreshing
<1>2. s \in Serials
  BY <1>0, <1>1 DEF RegistryInv, AtHand
<1>3. StoredNick(rows[s], req[r].name) \in Nicknames
  BY <1>1, <1>2 DEF StoredNick, Request, Row
<1>4. row \in Row /\ row.hw = req[r].hw /\ row # NoValue
  <2>1. row \in Row
    BY <1>1, <1>3 DEF Row, Request
  <2> QED
    BY <2>1, NullAssumption
<1>5. /\ rows' \in [Serials -> Row \cup {NoValue}] /\ rows'[s] = row
      /\ \A t \in Serials \ {s} : rows'[t] = rows[t]
  BY <1>1, <1>2, <1>4
<1>6. req' = [req EXCEPT ![r] = x]
  BY <1>0, <1>1 DEF Register
<1>7. /\ x \in Request /\ x.pc = "scanned" /\ x.todo = req[r].todo \ {s}
      /\ x.undisturbed = req[r].undisturbed
  BY <1>1 DEF Request, Nicknames
<1> HIDE DEF x
<1>8. /\ req' \in [Requests -> Request] /\ req'[r] = x
      /\ \A q \in Requests \ {r} : req'[q] = req[q]
  BY <1>6, <1>7, OneRequest DEF RegistryInv
<1>9. RegistryTypeOK'
  BY <1>1, <1>5, <1>8 DEF RegistryInv, RegistryTypeOK
<1>10. AtHand'
  BY <1>7, <1>8 DEF RegistryInv, AtHand
<1>11. InStep'
  BY <1>1 DEF RegistryInv, InStep
<1>12. \A q \in Requests : Refreshing(q)' => Refreshing(q)
  BY <1>1, <1>8 DEF Refreshing
<1>13. Undisturbed'
  <2> SUFFICES ASSUME NEW q \in Requests, Refreshing(q)', req'[q].undisturbed
               PROVE  /\ \A p \in Requests \ {q} : ~Refreshing(p)'
                      /\ \A t \in Serials : attached[t] = "device" => t \in req'[q].todo \/ Known(t)'
                      /\ req'[q].pc \in {"props", "register"} => req'[q].hw = PhoneOf[req'[q].serial]
    BY <1>1 DEF Undisturbed
  <2>1. req[q].undisturbed /\ Refreshing(q)
    BY <1>7, <1>8, <1>12
  <2>2. /\ \A p \in Requests \ {q} : ~Refreshing(p)
        /\ \A t \in Serials : attached[t] = "device" => t \in req[q].todo \/ Known(t)
        /\ req[q].pc \in {"props", "register"} => req[q].hw = PhoneOf[req[q].serial]
    BY <2>1 DEF RegistryInv, Undisturbed
  <2>3. q = r
    BY <1>1, <2>2
  <2>4. \A t \in Serials \ {s} : Known(t) => Known(t)'
    BY <1>5 DEF Known
  <2>5. Known(s)'
    BY <1>0, <1>1, <1>4, <1>5, <2>2, <2>3 DEF Known
  <2> QED
    BY <1>7, <1>8, <1>12, <2>2, <2>3, <2>4, <2>5
<1>14. ListedAll' /\ ListingExact'
  <2>1. \A q \in Requests : req'[q].pc \in {"rows", "listed"} => q # r /\ req'[q] = req[q]
    BY <1>7, <1>8
  <2> QED
    BY <1>1, <2>1, ListingsStand DEF RegistryInv
<1>15. NicknameKept'
  <2> SUFFICES ASSUME NEW t \in Serials, typed[t] # NoValue
               PROVE  rows'[t] # NoValue /\ rows'[t].nick = typed[t]
    BY <1>1 DEF NicknameKept
  <2>1. rows[t] # NoValue /\ rows[t].nick = typed[t]
    BY DEF RegistryInv, NicknameKept
  <2>2. CASE t = s
    BY <1>4, <1>5, <2>1, <2>2 DEF StoredNick
  <2>3. CASE t # s
    BY <1>5, <2>1, <2>3
  <2> QED
    BY <2>2, <2>3
<1> QED
  BY <1>9, <1>10, <1>11, <1>13, <1>14, <1>15 DEF RegistryInv

\* A request is over: of a refresh nothing has disturbed, the table is in step with what is here.
LEMMA AnsweredKeeps ==
  ASSUME RegistryInv, NEW r \in Requests, Refreshed(r) \/ ListAnswered(r)
  PROVE  RegistryInv'
<1>1. /\ req' = [req EXCEPT ![r] = Idle] /\ req[r] \in Request
      /\ UNCHANGED <<attached, trusted, rows, typed, changes, readFaults>>
  BY DEF Refreshed, ListAnswered, RegistryInv, RegistryTypeOK
<1>2. Idle \in Request /\ Idle.pc = "idle"
  BY DEF Idle, Request, Nicknames
<1>3. /\ req' \in [Requests -> Request] /\ req'[r] = Idle
      /\ \A q \in Requests \ {r} : req'[q] = req[q]
  BY <1>1, <1>2, OneRequest DEF RegistryInv
<1>4. settled' \in BOOLEAN
  BY <1>1 DEF Refreshed, ListAnswered, RegistryInv, RegistryTypeOK, Request
<1>5. RegistryTypeOK'
  BY <1>1, <1>3, <1>4 DEF RegistryInv, RegistryTypeOK
<1>6. AtHand'
  BY <1>2, <1>3 DEF RegistryInv, AtHand
<1>7. \A q \in Requests : Refreshing(q)' => Refreshing(q) /\ req'[q] = req[q]
  BY <1>2, <1>3 DEF Refreshing
<1>8. \A s \in Serials : Known(s) => Known(s)'
  BY <1>1 DEF Known
<1>9. Undisturbed'
  BY <1>1, <1>7, <1>8 DEF RegistryInv, Undisturbed
<1>10. InStep'
  <2>1. CASE ListAnswered(r)
    BY <1>1, <1>7, <1>8, <2>1 DEF ListAnswered, RegistryInv, InStep
  <2>2. CASE Refreshed(r) /\ settled'
    <3>1. Refreshing(r) /\ req[r].undisturbed /\ req[r].todo = {}
      BY <2>2 DEF Refreshed, Refreshing
    <3>2. \A s \in Serials : attached[s] = "device" => Known(s)
      BY <3>1 DEF RegistryInv, Undisturbed
    <3>3. \A q \in Requests \ {r} : ~Refreshing(q)
      BY <3>1 DEF RegistryInv, Undisturbed
    <3>4. ~Refreshing(r)'
      BY <1>2, <1>3 DEF Refreshing
    <3> QED
      BY <1>1, <1>7, <1>8, <3>2, <3>3, <3>4 DEF InStep
  <2>3. CASE ~settled'
    BY <2>3 DEF InStep
  <2> QED
    BY <2>1, <2>2, <2>3
<1>11. ListedAll' /\ ListingExact'
  <2>1. \A q \in Requests : req'[q].pc \in {"rows", "listed"} => q # r /\ req'[q] = req[q]
    BY <1>2, <1>3
  <2> QED
    BY <1>1, <2>1, ListingsStand DEF RegistryInv
<1>12. NicknameKept'
  BY <1>1 DEF RegistryInv, NicknameKept
<1> QED
  BY <1>5, <1>6, <1>9, <1>10, <1>11, <1>12 DEF RegistryInv

\* A listing reads the table.
LEMMA ListRowsKeeps ==
  ASSUME RegistryInv, NEW r \in Requests, ListRows(r)
  PROVE  RegistryInv'
<1> DEFINE here == {[serial |-> s, hw |-> rows[s].hw] : s \in {t \in Serials : rows[t] # NoValue}}
           x == [req[r] EXCEPT !.pc = "rows", !.listed = here, !.undisturbed = settled]
<1>1. /\ req[r] \in Request /\ req \in [Requests -> Request] /\ settled \in BOOLEAN
      /\ rows \in [Serials -> Row \cup {NoValue}]
      /\ UNCHANGED <<attached, trusted, rows, typed, settled, changes, readFaults>>
  BY DEF ListRows, RegistryInv, RegistryTypeOK
<1>2. /\ here \in SUBSET Listed
      /\ \A s \in Serials : rows[s] # NoValue => [serial |-> s, hw |-> rows[s].hw] \in here
      /\ \A row \in here : /\ row.serial \in Serials /\ rows[row.serial] # NoValue
                           /\ row.hw = rows[row.serial].hw
  BY <1>1 DEF Listed, Row
<1>3. req' = [req EXCEPT ![r].pc = "rows", ![r].listed = here, ![r].undisturbed = settled]
  BY DEF ListRows
<1> HIDE DEF here
<1>4. req' = [req EXCEPT ![r] = x]
  BY <1>1, <1>3
<1>5. x \in Request /\ x.pc = "rows" /\ x.listed = here /\ x.undisturbed = settled
  BY <1>1, <1>2 DEF Request
<1> HIDE DEF x
<1>6. /\ req' \in [Requests -> Request] /\ req'[r] = x
      /\ \A q \in Requests \ {r} : req'[q] = req[q]
  BY <1>4, <1>5, OneRequest DEF RegistryInv
<1>7. RegistryTypeOK'
  BY <1>1, <1>6 DEF RegistryInv, RegistryTypeOK
<1>8. AtHand'
  BY <1>5, <1>6 DEF RegistryInv, AtHand
<1>9. \A q \in Requests : Refreshing(q)' => Refreshing(q) /\ req'[q] = req[q]
  BY <1>5, <1>6 DEF Refreshing
<1>10. \A s \in Serials : Known(s) => Known(s)'
  BY <1>1 DEF Known
<1>11. InStep' /\ Undisturbed'
  <2>1. InStep'
    BY <1>1, <1>9, <1>10 DEF RegistryInv, InStep
  <2>2. Undisturbed'
    BY <1>1, <1>9, <1>10 DEF RegistryInv, Undisturbed
  <2> QED
    BY <2>1, <2>2
<1>12. ListedAll'
  <2> SUFFICES ASSUME NEW q \in Requests, req'[q].pc = "rows", req'[q].undisturbed
               PROVE  /\ \A s \in Serials : attached[s] = "device" =>
                           [serial |-> s, hw |-> PhoneOf[s]] \in req'[q].listed
                      /\ \A row \in req'[q].listed : attached[row.serial] = "device" =>
                           row.hw = PhoneOf[row.serial]
    BY <1>1 DEF ListedAll
  <2>1. CASE q # r
    BY <1>6, <2>1 DEF RegistryInv, ListedAll
  <2>2. CASE q = r
    <3>1. settled /\ req'[q].listed = here
      BY <1>5, <1>6, <2>2
    <3>2. \A s \in Serials : attached[s] = "device" => rows[s] # NoValue /\ rows[s].hw = PhoneOf[s]
      BY <3>1 DEF RegistryInv, InStep, Known
    <3> QED
      BY <1>2, <3>1, <3>2
  <2> QED
    BY <2>1, <2>2
<1>13. ListingExact'
  <2>1. \A q \in Requests : req'[q].pc = "listed" => req'[q] = req[q]
    BY <1>5, <1>6
  <2> QED
    BY <1>1, <2>1 DEF RegistryInv, ListingExact
<1>14. NicknameKept'
  BY <1>1 DEF RegistryInv, NicknameKept
<1> QED
  BY <1>7, <1>8, <1>11, <1>12, <1>13, <1>14 DEF RegistryInv

\* A listing asks adb, and answers with one row for each phone.
LEMMA ListConnectedKeeps ==
  ASSUME RegistryInv, NEW r \in Requests, ListConnected(r)
  PROVE  RegistryInv'
<1>1. PICK best \in OneRowPerPhysicalDevice({row \in req[r].listed : attached[row.serial] = "device"}) :
        req' = [req EXCEPT ![r].pc = "listed", ![r].listed = best]
  BY DEF ListConnected
<1> DEFINE x == [req[r] EXCEPT !.pc = "listed", !.listed = best]
<1>2. /\ req[r] \in Request /\ req \in [Requests -> Request] /\ req[r].pc = "rows"
      /\ UNCHANGED <<attached, trusted, rows, typed, settled, changes, readFaults>>
  BY DEF ListConnected, RegistryInv, RegistryTypeOK
<1>3. req[r].listed \in SUBSET Listed /\ best \in SUBSET Listed
  BY <1>2 DEF Request, OneRowPerPhysicalDevice
<1>4. req' = [req EXCEPT ![r] = x]
  BY <1>1, <1>2
<1>5. x \in Request /\ x.pc = "listed" /\ x.listed = best /\ x.undisturbed = req[r].undisturbed
  BY <1>2, <1>3 DEF Request
<1> HIDE DEF x
<1>6. /\ req' \in [Requests -> Request] /\ req'[r] = x
      /\ \A q \in Requests \ {r} : req'[q] = req[q]
  BY <1>4, <1>5, OneRequest DEF RegistryInv
<1>7. RegistryTypeOK'
  BY <1>2, <1>6 DEF RegistryInv, RegistryTypeOK
<1>8. AtHand'
  BY <1>5, <1>6 DEF RegistryInv, AtHand
<1>9. \A q \in Requests : Refreshing(q)' => Refreshing(q) /\ req'[q] = req[q]
  BY <1>5, <1>6 DEF Refreshing
<1>10. \A s \in Serials : Known(s) => Known(s)'
  BY <1>2 DEF Known
<1>11. InStep' /\ Undisturbed'
  <2>1. InStep'
    BY <1>2, <1>9, <1>10 DEF RegistryInv, InStep
  <2>2. Undisturbed'
    BY <1>2, <1>9, <1>10 DEF RegistryInv, Undisturbed
  <2> QED
    BY <2>1, <2>2
<1>12. ListedAll'
  <2>1. \A q \in Requests : req'[q].pc = "rows" => req'[q] = req[q]
    BY <1>5, <1>6
  <2> QED
    BY <1>2, <2>1 DEF RegistryInv, ListedAll
<1>13. ListingExact'
  <2> SUFFICES ASSUME NEW q \in Requests, req'[q].pc = "listed", req'[q].undisturbed
               PROVE  OncePerPhone({row.serial : row \in req'[q].listed},
                                   {s \in Serials : attached[s] = "device"})
    BY <1>2 DEF ListingExact
  <2>1. CASE q # r
    BY <1>6, <2>1 DEF RegistryInv, ListingExact
  <2>2. CASE q = r
    <3>1. req[r].undisturbed /\ req'[q].listed = best
      BY <1>5, <1>6, <2>2
    <3>2. /\ \A s \in Serials : attached[s] = "device" => [serial |-> s, hw |-> PhoneOf[s]] \in req[r].listed
          /\ \A row \in req[r].listed : attached[row.serial] = "device" => row.hw = PhoneOf[row.serial]
      BY <1>2, <3>1 DEF RegistryInv, ListedAll
    <3> QED
      BY <1>3, <3>1, <3>2, OneSerialPerPhone
  <2> QED
    BY <2>1, <2>2
<1>14. NicknameKept'
  BY <1>2 DEF RegistryInv, NicknameKept
<1> QED
  BY <1>7, <1>8, <1>11, <1>12, <1>13, <1>14 DEF RegistryInv

\* The invariant holds initially.
LEMMA RegistryInvInit == RegistryInit => RegistryInv
<1> SUFFICES ASSUME RegistryInit PROVE RegistryInv
  OBVIOUS
<1>1. Idle \in Request /\ Idle.pc = "idle"
  BY DEF Idle, Request, Nicknames
<1>2. \A r \in Requests : req[r] = Idle
  BY DEF RegistryInit
<1>3. RegistryTypeOK
  <2>1. req \in [Requests -> Request]
    BY <1>1 DEF RegistryInit
  <2>2. typed \in [Serials -> Nicknames] /\ rows \in [Serials -> Row \cup {NoValue}]
    BY DEF RegistryInit, Nicknames
  <2>3. changes \in 0 .. MaxChanges /\ readFaults \in 0 .. MaxReadFaults
    BY SerialsAssumption DEF RegistryInit
  <2> QED
    BY <2>1, <2>2, <2>3 DEF RegistryInit, RegistryTypeOK
<1>4. AtHand /\ Undisturbed /\ ListedAll /\ ListingExact
  BY <1>1, <1>2 DEF AtHand, Undisturbed, ListedAll, ListingExact, Refreshing
<1>5. InStep /\ NicknameKept
  BY DEF RegistryInit, InStep, NicknameKept
<1> QED
  BY <1>3, <1>4, <1>5 DEF RegistryInv

\* Every step keeps it.
LEMMA RegistryInvKept == RegistryInv /\ [RegistryNext]_registryVars => RegistryInv'
<1> SUFFICES ASSUME RegistryInv, [RegistryNext]_registryVars PROVE RegistryInv'
  OBVIOUS
<1>1. ASSUME NEW s \in Serials, PlugIn(s) \/ Authorise(s) \/ Leave(s)
      PROVE  RegistryInv'
  BY <1>1, AttachKeeps DEF PlugIn, Authorise, Leave
<1>2. ASSUME NEW s \in Serials, Pair(s) \/ \E n \in Typed : Nickname(s, n)
      PROVE  RegistryInv'
  BY <1>2, TypedKeeps
<1>3. ASSUME NEW r \in Requests,
             \/ Refresh(r) \/ ReadProps(r) \/ ReadName(r) \/ Register(r) \/ Refreshed(r)
             \/ \E s \in Serials : DevicesConnect(r, s)
             \/ ConnectDiscovered(r) \/ ListRows(r) \/ ListConnected(r) \/ ListAnswered(r)
      PROVE  RegistryInv'
  BY <1>3, RefreshKeeps, ReadPropsKeeps, ReadNameKeeps, RegisterKeeps, AnsweredKeeps, ConnectKeeps,
     ListRowsKeeps, ListConnectedKeeps
<1>4. CASE UNCHANGED registryVars
  BY <1>4 DEF registryVars, RegistryInv, RegistryTypeOK, AtHand, InStep, Undisturbed, ListedAll,
              ListingExact, NicknameKept, Known, Refreshing
<1> QED
  BY <1>1, <1>2, <1>3, <1>4 DEF RegistryNext

\* However many requests there are: each keeps to what a refresh, a connection or a listing does,
\* the bounds on the environment hold, and every row is a row (storage.py, services.py, views.py).
THEOREM RegistryTypeCorrect == RegistrySpec => []RegistryTypeOK
<1>1. RegistryInv => RegistryTypeOK
  BY DEF RegistryInv
<1> QED
  BY <1>1, RegistryInvInit, RegistryInvKept, PTL DEF RegistrySpec

\* For any phones, attached in whichever ways, and any requests: a listing that follows a refresh
\* nothing has disturbed has one serial of each phone that is here, the USB one of a phone that
\* is here both ways (views.devices, _one_row_per_physical_device).
THEOREM ListingIsExact == RegistrySpec => []ListingExact
<1>1. RegistryInv => ListingExact
  BY DEF RegistryInv
<1> QED
  BY <1>1, RegistryInvInit, RegistryInvKept, PTL DEF RegistrySpec

\* However many refreshes were under way when a nickname was typed: the table shows the nickname
\* last typed (register_device's COALESCE).
THEOREM TypedNicknameStays == RegistrySpec => []NicknameKept
<1>1. RegistryInv => NicknameKept
  BY DEF RegistryInv
<1> QED
  BY <1>1, RegistryInvInit, RegistryInvKept, PTL DEF RegistrySpec

-----------------------------------------------------------------------------
(* A preflight: the inductive invariant. *)

Phases == {"between", "reset", "walking", "looking", "tapping", "quiet", "home", "done"}
Losses == {"", "locked", "blind", "untapped"}

PreTypeOK ==
  /\ plan \in Seq(Names) /\ at \in 0 .. Len(plan) /\ step \in Nat \ {0}
  /\ phase \in Phases /\ lost \in Losses /\ unseen \subseteq Trouble
  /\ {locked, missed, readable, stopped, failed} \subseteq BOOLEAN
  /\ front \in {Launcher, Package}

(* Which scenarios have been walked to their end, however that went.       *)
Through(i) ==
  i < at \/ (i = at /\ (phase = "between" \/ (phase \in {"quiet", "home", "done"} /\ ~stopped /\ ~failed)))

(* Each tap that a preflight is past is in its report, and no other target *)
(* is.                                                                     *)
Asked ==
  /\ \A i \in 1 .. Len(plan) : Through(i) => TargetsOf(plan[i]) \subseteq ByTarget
  /\ InScenario =>
       /\ at > 0
       /\ \A j \in DOMAIN Script[plan[at]] :
            j < step /\ Script[plan[at]][j].act = "tap" => Script[plan[at]][j].target \in ByTarget
  /\ phase \in {"looking", "tapping"} => step <= Len(Script[plan[at]]) /\ Step.act = "tap"
  /\ ByTarget \subseteq AllTargets

(* Neither stopped nor broken off, it has come to its end.                 *)
AtTheEnd == phase \in {"quiet", "home", "done"} /\ ~stopped /\ ~failed => at = Len(plan)

PreInv == PreTypeOK /\ Asked /\ AtTheEnd

(* A preflight: the scenarios it walks have every target. *)

\* A set of natural numbers has a least element.
LEMMA LeastNumber ==
  ASSUME NEW S, S \subseteq Nat, S # {}
  PROVE  \E x \in S : \A y \in S : x <= y
<1> DEFINE Less == {ss \in Nat \X Nat : ss[1] < ss[2]}
<1>1. IsWellFoundedOn(Less, Nat)
  BY NatLessThanWellFounded DEF OpToRel
<1>2. PICK x \in S : \A y \in S : ~ (<<y, x>> \in Less)
  <2> HIDE DEF Less
  <2> QED
    BY <1>1, WFMin
<1>3. \A y \in S : ~ (y < x)
  BY <1>2
<1> QED
  BY <1>3

\* What is in as many scenarios as a plan can have, each of a finite script, is finite.
LEMMA TargetsFinite ==
  /\ \A n \in Names : n \in DOMAIN Script /\ IsFiniteSet(TargetsOf(n))
  /\ IsFiniteSet(AllTargets)
<1>1. Names \subseteq DOMAIN Script
  BY ScriptsAssumption DEF Names
<1>2. ASSUME NEW n \in Names PROVE IsFiniteSet(TargetsOf(n))
  <2> DEFINE taps == {j \in DOMAIN Script[n] : Script[n][j].act = "tap"}
             f == [i \in taps |-> Script[n][i].target]
  <2>1. IsFiniteSet(taps)
    <3>1. taps \subseteq 1 .. Len(Script[n]) /\ Len(Script[n]) \in Nat
      BY <1>1, ScriptsAssumption
    <3>2. IsFiniteSet(1 .. Len(Script[n]))
      BY <3>1, FS_Interval
    <3> HIDE DEF taps
    <3> QED
      BY <3>1, <3>2, FS_Subset
  <2>2. f \in [taps -> TargetsOf(n)] /\ \A t \in TargetsOf(n) : \E i \in taps : f[i] = t
    BY DEF TargetsOf, TapsOf
  <2> HIDE DEF taps, f
  <2>3. f \in Surjection(taps, TargetsOf(n))
    BY <2>2 DEF Surjection
  <2> QED
    BY <2>1, <2>3, FS_Surjection
<1>3. IsFiniteSet(AllTargets)
  <2> DEFINE I == DOMAIN ScenarioNames
             F == {TargetsOf(n) : n \in Names}
             f == [i \in I |-> TargetsOf(ScenarioNames[i])]
  <2>1. IsFiniteSet(I)
    <3>1. I = 1 .. Len(ScenarioNames) /\ Len(ScenarioNames) \in Nat
      BY ScriptsAssumption
    <3> QED
      BY <3>1, FS_Interval
  <2>2. f \in [I -> F] /\ \A t \in F : \E i \in I : f[i] = t
    BY DEF Names
  <2>3. \A T \in F : IsFiniteSet(T)
    BY <1>2
  <2>4. AllTargets = UNION F
    BY DEF AllTargets
  <2> HIDE DEF I, F, f
  <2>5. f \in Surjection(I, F)
    BY <2>2 DEF Surjection
  <2>6. IsFiniteSet(F)
    BY <2>1, <2>5, FS_Surjection
  <2> QED
    BY <2>3, <2>4, <2>6, FS_UNION
<1> QED
  BY <1>1, <1>2, <1>3

\* The scenario a greedy cover takes next is one of the scenarios; if it adds nothing, none does.
LEMMA BestIs ==
  ASSUME NEW u \in SUBSET AllTargets, DOMAIN ScenarioNames # {}
  PROVE  /\ Best(u) \in DOMAIN ScenarioNames
         /\ \A j \in DOMAIN ScenarioNames : Size(Best(u), u) >= Size(j, u)
         /\ \A j \in DOMAIN ScenarioNames : Size(j, u) \in Nat
<1> DEFINE I == DOMAIN ScenarioNames
<1>1. ASSUME NEW j \in I
      PROVE  Size(j, u) \in Nat /\ Size(j, u) <= Cardinality(u)
  <2>1. IsFiniteSet(u)
    BY TargetsFinite, FS_Subset
  <2>2. Gain(ScenarioNames[j], u) \in SUBSET u
    BY DEF Gain
  <2>3. IsFiniteSet(Gain(ScenarioNames[j], u)) /\ Cardinality(Gain(ScenarioNames[j], u)) <= Cardinality(u)
    BY <2>1, <2>2, FS_Subset
  <2> QED
    BY <2>3, FS_CardinalityType DEF Size
<1>2. I \subseteq Nat /\ I # {}
  BY ScriptsAssumption
<1>3. Cardinality(u) \in Nat
  BY TargetsFinite, FS_Subset, FS_CardinalityType
<1> DEFINE Bounds == {b \in Nat : \A j \in I : Size(j, u) <= b}
<1>4. PICK b \in Bounds : \A c \in Bounds : b <= c
  <2>1. Cardinality(u) \in Bounds
    BY <1>1, <1>3
  <2>2. Bounds \subseteq Nat
    OBVIOUS
  <2> HIDE DEF Bounds
  <2> QED
    BY <2>1, <2>2, LeastNumber
<1> DEFINE Most == {j \in I : Size(j, u) = b}
<1>5. Most # {}
  <2> SUFFICES ASSUME Most = {} PROVE FALSE
    OBVIOUS
  <2>1. \A j \in I : Size(j, u) \in Nat /\ Size(j, u) <= b /\ Size(j, u) # b
    BY <1>1
  <2>2. \A j \in I : Size(j, u) <= b - 1
    BY <1>4, <2>1
  <2>3. b - 1 \in Nat
    BY <1>2, <1>4, <2>1
  <2>4. b - 1 \in Bounds
    BY <2>2, <2>3
  <2> QED
    BY <1>4, <2>4
<1>6. PICK i \in Most : \A j \in Most : i <= j
  <2>1. Most \subseteq Nat
    BY <1>2
  <2> HIDE DEF Most
  <2> QED
    BY <1>5, <2>1, LeastNumber
<1> DEFINE First(k) == \A j \in I : Size(k, u) > Size(j, u) \/ (Size(k, u) = Size(j, u) /\ k <= j)
<1>7. i \in I /\ First(i)
  BY <1>1, <1>4, <1>6
<1>8. Best(u) = CHOOSE k \in I : First(k)
  BY DEF Best
<1>9. Best(u) \in I /\ First(Best(u))
  <2> HIDE DEF First, I
  <2> QED
    BY <1>7, <1>8
<1> QED
  BY <1>1, <1>9

(* What is still uncovered after the scenario that adds most.              *)
Rest(u) == u \ Gain(ScenarioNames[Best(u)], u)

\* As long as a scenario adds something, less is left.
LEMMA RestIsLess ==
  ASSUME NEW u \in SUBSET AllTargets, u # {}
  PROVE  /\ DOMAIN ScenarioNames # {}
         /\ Size(Best(u), u) # 0 =>
              Rest(u) \in SUBSET AllTargets /\ Cardinality(Rest(u)) < Cardinality(u)
<1>1. DOMAIN ScenarioNames # {}
  BY DEF AllTargets, Names
<1>2. ASSUME Size(Best(u), u) # 0
      PROVE  Rest(u) \in SUBSET AllTargets /\ Cardinality(Rest(u)) < Cardinality(u)
  <2>1. IsFiniteSet(u) /\ Cardinality(u) \in Nat
    BY TargetsFinite, FS_Subset, FS_CardinalityType
  <2>2. Gain(ScenarioNames[Best(u)], u) # {} /\ Gain(ScenarioNames[Best(u)], u) \subseteq u
    BY <1>2, FS_EmptySet DEF Size, Gain
  <2>3. Rest(u) \in SUBSET u /\ Rest(u) # u
    BY <2>2 DEF Rest
  <2>4. Cardinality(Rest(u)) <= Cardinality(u) /\ Cardinality(Rest(u)) # Cardinality(u)
    BY <2>1, <2>3, FS_Subset
  <2>5. Cardinality(Rest(u)) \in Nat
    BY <2>1, <2>3, FS_Subset, FS_CardinalityType
  <2> QED
    BY <2>1, <2>3, <2>4, <2>5
<1> QED
  BY <1>1, <1>2

(* One unfolding of Cover.                                                 *)
NextCover(g, u) ==
  IF u = {} \/ Size(Best(u), u) = 0 THEN <<>> ELSE <<ScenarioNames[Best(u)]>> \o g[Rest(u)]

\* There is such a cover: it is found for what is at most so large, a size at a time.
LEMMA CoverIs == \A u \in SUBSET AllTargets : Cover[u] = NextCover(Cover, u)
<1> DEFINE UpTo(n) == {u \in SUBSET AllTargets : Cardinality(u) <= n}
           IsCover(n, g) == g = [u \in UpTo(n) |-> NextCover(g, u)]
           Without == {n \in Nat : ~ \E g : IsCover(n, g)}
<1>1. \A u \in SUBSET AllTargets : IsFiniteSet(u) /\ Cardinality(u) \in Nat
  BY TargetsFinite, FS_Subset, FS_CardinalityType
<1>2. \A u \in UpTo(0) : u = {}
  BY <1>1, FS_EmptySet
<1>3. 0 \notin Without
  <2> DEFINE g == [u \in UpTo(0) |-> <<>>]
  <2>1. \A u \in UpTo(0) : NextCover(g, u) = <<>>
    BY <1>2 DEF NextCover
  <2>2. IsCover(0, g)
    <3> HIDE DEF UpTo
    <3> QED
      BY <2>1
  <2> QED
    BY <2>2
<1>4. ASSUME NEW n \in Nat, n # 0, NEW g, IsCover(n - 1, g)
      PROVE  \E h : IsCover(n, h)
  <2> DEFINE h == [u \in UpTo(n) |-> NextCover(g, u)]
  <2>1. UpTo(n - 1) \subseteq UpTo(n)
    BY <1>1
  <2>2. \A v \in UpTo(n - 1) : h[v] = g[v]
    <3>1. \A v \in UpTo(n - 1) : h[v] = NextCover(g, v)
      <4> HIDE DEF UpTo
      <4> QED
        BY <2>1
    <3>2. g = [u \in UpTo(n - 1) |-> NextCover(g, u)]
      BY <1>4
    <3>3. \A v \in UpTo(n - 1) : g[v] = NextCover(g, v)
      <4> HIDE DEF UpTo
      <4> QED
        BY <3>2
    <3> QED
      BY <3>1, <3>3
  <2>3. ASSUME NEW u \in UpTo(n)
        PROVE  NextCover(h, u) = NextCover(g, u)
    <3>1. CASE u = {} \/ Size(Best(u), u) = 0
      BY <3>1 DEF NextCover
    <3>2. CASE u # {} /\ Size(Best(u), u) # 0
      <4>1. Rest(u) \in SUBSET AllTargets /\ Cardinality(Rest(u)) < Cardinality(u)
        BY <3>2, RestIsLess
      <4>2. Rest(u) \in UpTo(n - 1)
        BY <1>1, <4>1
      <4>3. h[Rest(u)] = g[Rest(u)]
        BY <2>2, <4>2
      <4> HIDE DEF h
      <4> QED
        BY <3>2, <4>3 DEF NextCover
    <3> QED
      BY <3>1, <3>2
  <2>4. IsCover(n, h)
    <3>1. \A u \in UpTo(n) : NextCover(g, u) = NextCover(h, u)
      BY <2>3
    <3>2. h = [u \in UpTo(n) |-> NextCover(g, u)]
      OBVIOUS
    <3> HIDE DEF h, UpTo
    <3> QED
      BY <3>1, <3>2
  <2> QED
    BY <2>4
<1>5. Without = {}
  <2> SUFFICES ASSUME Without # {} PROVE FALSE
    OBVIOUS
  <2>1. PICK n \in Without : \A m \in Without : n <= m
    <3>1. Without \subseteq Nat
      OBVIOUS
    <3> HIDE DEF Without
    <3> QED
      BY <3>1, LeastNumber
  <2>2. n \in Nat /\ n # 0 /\ n - 1 \in Nat
    <3>1. n \in Nat
      OBVIOUS
    <3>2. n # 0
      <4> HIDE DEF Without
      <4> QED
        BY <1>3
    <3> QED
      BY <3>1, <3>2
  <2>3. n - 1 \notin Without
    <3> HIDE DEF Without
    <3>1. ~ (n <= n - 1)
      BY <2>2
    <3> QED
      BY <2>1, <3>1
  <2>4. PICK g : IsCover(n - 1, g)
    BY <2>2, <2>3
  <2> QED
    BY <1>4, <2>1, <2>2, <2>4
<1>6. PICK g : g = [u \in SUBSET AllTargets |-> NextCover(g, u)]
  <2>1. Cardinality(AllTargets) \in Nat /\ UpTo(Cardinality(AllTargets)) = SUBSET AllTargets
    BY <1>1, TargetsFinite, FS_Subset
  <2>2. \E g : IsCover(Cardinality(AllTargets), g)
    BY <1>5, <2>1
  <2> HIDE DEF UpTo
  <2> QED
    BY <2>1, <2>2
<1>7. Cover = CHOOSE c : c = [u \in SUBSET AllTargets |-> NextCover(c, u)]
  BY Zenon DEF Cover, NextCover, Rest
<1>8. Cover = [u \in SUBSET AllTargets |-> NextCover(Cover, u)]
  BY <1>6, <1>7, Zenon
<1> QED
  BY <1>8, Zenon

\* It has every target, and only scenarios there are.
LEMMA CoverCovers ==
  /\ CoveringScenarios \in Seq(Names)
  /\ \A t \in AllTargets : \E i \in 1 .. Len(CoveringScenarios) : t \in TargetsOf(CoveringScenarios[i])
<1> DEFINE Covers(u) == /\ Cover[u] \in Seq(Names)
                        /\ \A t \in u : \E i \in 1 .. Len(Cover[u]) : t \in TargetsOf(Cover[u][i])
           Sizes == {Cardinality(u) : u \in {v \in SUBSET AllTargets : ~Covers(v)}}
<1>1. \A u \in SUBSET AllTargets : IsFiniteSet(u) /\ Cardinality(u) \in Nat
  BY TargetsFinite, FS_Subset, FS_CardinalityType
<1>2. ASSUME NEW u \in SUBSET AllTargets,
             \A v \in SUBSET AllTargets : Cardinality(v) < Cardinality(u) => Covers(v)
      PROVE  Covers(u)
  <2>1. Cover[u] = NextCover(Cover, u)
    BY CoverIs
  <2>2. CASE u = {}
    <3>1. Cover[u] = <<>>
      BY <2>1, <2>2 DEF NextCover
    <3> QED
      BY <2>2, <3>1
  <2>3. CASE u # {} /\ Size(Best(u), u) = 0
    <3>1. PICK t \in u : TRUE
      BY <2>3
    <3>2. PICK j \in DOMAIN ScenarioNames : t \in TargetsOf(ScenarioNames[j])
      BY DEF AllTargets, Names
    <3>3. Size(j, u) = 0
      BY <2>3, <3>2, BestIs
    <3>4. Gain(ScenarioNames[j], u) \in SUBSET u /\ t \in Gain(ScenarioNames[j], u)
      BY <3>2 DEF Gain
    <3>5. IsFiniteSet(Gain(ScenarioNames[j], u))
      BY <1>1, <3>4, FS_Subset
    <3> QED
      BY <3>3, <3>4, <3>5, FS_EmptySet DEF Size
  <2>4. CASE u # {} /\ Size(Best(u), u) # 0
    <3> DEFINE n == ScenarioNames[Best(u)]
               rest == Cover[Rest(u)]
    <3>1. Rest(u) \in SUBSET AllTargets /\ Cardinality(Rest(u)) < Cardinality(u)
      BY <2>4, RestIsLess
    <3>2. n \in Names
      BY <2>4, RestIsLess, BestIs DEF Names
    <3>3. /\ rest \in Seq(Names)
          /\ \A t \in Rest(u) : \E i \in 1 .. Len(rest) : t \in TargetsOf(rest[i])
      BY <1>2, <3>1
    <3>4. Cover[u] = <<n>> \o rest
      BY <2>1, <2>4 DEF NextCover
    <3>5. \A t \in u : t \in TargetsOf(n) \/ t \in Rest(u)
      BY DEF Rest, Gain
    <3> HIDE DEF n, rest
    <3>6. /\ Cover[u] \in Seq(Names) /\ Len(Cover[u]) = Len(rest) + 1 /\ Cover[u][1] = n
          /\ \A i \in 1 .. Len(rest) : Cover[u][i + 1] = rest[i]
      BY <3>2, <3>3, <3>4
    <3>7. ASSUME NEW t \in u PROVE \E i \in 1 .. Len(Cover[u]) : t \in TargetsOf(Cover[u][i])
      <4>1. CASE t \in TargetsOf(n)
        BY <3>3, <3>6, <4>1
      <4>2. CASE t \in Rest(u)
        <5>1. PICK i \in 1 .. Len(rest) : t \in TargetsOf(rest[i])
          BY <3>3, <4>2
        <5>2. i + 1 \in 1 .. Len(Cover[u]) /\ Cover[u][i + 1] = rest[i]
          BY <3>3, <3>6
        <5> QED
          BY <5>1, <5>2
      <4> QED
        BY <3>5, <4>1, <4>2
    <3> QED
      BY <3>6, <3>7
  <2> QED
    BY <2>2, <2>3, <2>4
<1> HIDE DEF Covers
<1>3. Sizes = {}
  <2> SUFFICES ASSUME Sizes # {} PROVE FALSE
    OBVIOUS
  <2>1. PICK n \in Sizes : \A m \in Sizes : n <= m
    <3>1. Sizes \subseteq Nat
      BY <1>1
    <3> HIDE DEF Sizes
    <3> QED
      BY <3>1, LeastNumber
  <2>2. PICK u \in SUBSET AllTargets : ~Covers(u) /\ n = Cardinality(u)
    OBVIOUS
  <2>3. \A v \in SUBSET AllTargets : Cardinality(v) < Cardinality(u) => Covers(v)
    BY <1>1, <2>1, <2>2
  <2> QED
    BY <1>2, <2>2, <2>3
<1>4. Covers(AllTargets)
  BY <1>3
<1> QED
  BY <1>4 DEF Covers, CoveringScenarios
-----------------------------------------------------------------------------
(* A preflight: how each step keeps the invariant. *)

\* A step of the scenario at hand, and what it asks about.
LEMMA StepIs ==
  ASSUME PreTypeOK, at > 0, step <= Len(Script[plan[at]])
  PROVE  /\ plan[at] \in Names /\ step \in DOMAIN Script[plan[at]]
         /\ Step.act = "tap" => Step.target \in TargetsOf(plan[at]) /\ Step.target \in AllTargets
<1>1. plan[at] \in Names
  BY DEF PreTypeOK
<1>2. Script[plan[at]] \in Seq(Steps)
  BY <1>1, ScriptsAssumption DEF Names
<1>3. step \in DOMAIN Script[plan[at]]
  BY <1>2 DEF PreTypeOK
<1>4. Step.act = "tap" => Step.target \in TargetsOf(plan[at])
  BY <1>3 DEF Step, Scenario, TargetsOf, TapsOf
<1> QED
  BY <1>1, <1>3, <1>4 DEF AllTargets

\* A grade is one more check, of the target at hand.
LEMMA GradedIs ==
  ASSUME NEW status, NEW why, Graded(status, why)
  PROVE  /\ ByTarget' = ByTarget \cup {Step.target}
         /\ checks \subseteq checks'
         /\ \E c \in checks' : c.target = Step.target /\ c.status = status /\ c.why = why
         /\ \A c \in checks' : c \in checks \/ (c.target = Step.target /\ c.status = status /\ c.why = why)
<1> DEFINE g == [scenario |-> Scenario, step |-> step, target |-> Step.target, status |-> status, why |-> why]
<1>1. checks' = checks \cup {g} /\ g.target = Step.target /\ g.status = status /\ g.why = why
  BY DEF Graded
<1> HIDE DEF g
<1>2. \A t : t \in ByTarget' <=> t \in ByTarget \/ t = Step.target
  BY <1>1 DEF ByTarget
<1>3. ByTarget' = ByTarget \cup {Step.target}
  BY <1>2
<1>4. g \in checks' /\ \A c \in checks' : c \in checks \/ c = g
  BY <1>1
<1> QED
  BY <1>1, <1>3, <1>4

\* A step of the preflight that goes on in the scenario at hand: to the next of its steps if it is
\* past this one, with its target in the report.
LEMMA WithinKeeps ==
  ASSUME PreInv, InScenario, InScenario',
         step' \in {step, step + 1}, ByTarget' \in {ByTarget, ByTarget \cup {Step.target}},
         ByTarget' # ByTarget => step <= Len(Script[plan[at]]) /\ Step.act = "tap",
         step' = step + 1 =>
           step <= Len(Script[plan[at]]) /\ (Step.act = "tap" => Step.target \in ByTarget'),
         phase' \in {"looking", "tapping"} => step' = step /\ step <= Len(Script[plan[at]]) /\ Step.act = "tap",
         lost' \in Losses, locked' \in BOOLEAN, missed' \in BOOLEAN, unseen' \subseteq Trouble,
         front' \in {Launcher, Package},
         UNCHANGED <<readable, plan, at, stopped, failed>>
  PROVE  PreInv'
<1>1. PreTypeOK'
  <2>1. step' \in Nat \ {0}
    BY DEF PreInv, PreTypeOK
  <2>2. phase' \in Phases
    BY DEF InScenario, Phases
  <2> QED
    BY <2>1, <2>2 DEF PreInv, PreTypeOK
<1>2. at > 0 /\ ByTarget \subseteq ByTarget'
  BY DEF PreInv, Asked
<1>3. \A i \in 1 .. Len(plan) : Through(i)' => Through(i)
  BY DEF Through, InScenario
<1>4. \A i \in 1 .. Len(plan)' : Through(i)' => TargetsOf(plan[i])' \subseteq ByTarget'
  BY <1>2, <1>3 DEF PreInv, Asked, TargetsOf, TapsOf
<1>5. \A j \in DOMAIN Script[plan[at]] :
        j < step' /\ Script[plan[at]][j].act = "tap" => Script[plan[at]][j].target \in ByTarget'
  <2> SUFFICES ASSUME NEW j \in DOMAIN Script[plan[at]], j < step', Script[plan[at]][j].act = "tap"
               PROVE  Script[plan[at]][j].target \in ByTarget'
    OBVIOUS
  <2>1. CASE j < step
    BY <1>2, <2>1 DEF PreInv, Asked
  <2>2. CASE ~ (j < step)
    <3>1. Script[plan[at]] \in Seq(Steps) /\ step \in Nat
      BY <1>2, ScriptsAssumption DEF PreInv, PreTypeOK, Names
    <3>2. j = step /\ step' = step + 1
      BY <2>2, <3>1
    <3> QED
      BY <3>2 DEF Step, Scenario
  <2> QED
    BY <2>1, <2>2
<1>6. phase' \in {"looking", "tapping"} => (step <= Len(Script[plan[at]]))' /\ (Step.act)' = "tap"
  BY DEF Step, Scenario
<1>7. (ByTarget \subseteq AllTargets)'
  BY <1>2, StepIs DEF PreInv, Asked, AllTargets, Names, TargetsOf, TapsOf
<1>8. Asked'
  BY <1>2, <1>4, <1>5, <1>6, <1>7 DEF Asked
<1>9. AtTheEnd'
  BY DEF AtTheEnd, InScenario
<1> QED
  BY <1>1, <1>8, <1>9 DEF PreInv

\* What no read shows is noted as trouble.
LEMMA UnseenIs ==
  ASSUME PreTypeOK, NEW kinds, kinds \subseteq Trouble, Unseen(kinds) \/ UNCHANGED unseen
  PROVE  unseen' \subseteq Trouble
BY DEF PreTypeOK, Unseen

\* A tap, wherever it lands, leaves in front what was.
LEMMA TappedIs ==
  ASSUME PreTypeOK, NEW to, NEW lands, Tapped(to, lands)
  PROVE  front' = front /\ missed' \in BOOLEAN
<1>1. missed' = (missed \/ locked) /\ front' = front
  BY DEF Tapped
<1> QED
  BY <1>1, Zenon DEF PreTypeOK

\* What a look comes to: the dumps, and what the target resolves to in the last of them.
LEMMA LookIs ==
  ASSUME Look
  PROVE  \E drawn \in SUBSET SelfDrawn, fails \in BOOLEAN : \E s, r :
           /\ s \in Dumps(Count(Shown(OnScreen, works, drawn)), fails)
           /\ r = Resolve(TargetOf[Step.target],
                          ParseHierarchy(Shown(OnScreen, works, drawn), IF fails THEN 0 ELSE Settled(s)))
           /\ Unseen(Mistakes(r, fails, Stalls(s, Count(Shown(OnScreen, works, drawn)))))
           /\ Resolved(r, fails)
BY DEF Look

\* A look grades the target as missing, or the target will be tapped.
LEMMA LookEnds ==
  ASSUME PreTypeOK, Look
  PROVE  /\ unseen' \subseteq Trouble
         /\ \/ \E why : Graded("missing", why) /\ lost' = "untapped" /\ step' = step + 1 /\ phase' = "walking"
            \/ phase' = "tapping" /\ UNCHANGED <<checks, lost, step>>
<1>1. PICK kinds, why :
        /\ kinds \subseteq Trouble /\ Unseen(kinds)
        /\ \/ /\ Graded("missing", why) /\ lost' = LosesScreen("missing")
              /\ step' = step + 1 /\ phase' = "walking"
           \/ phase' = "tapping" /\ UNCHANGED <<checks, lost, step>>
  <2>1. PICK r, fails, stalls : Unseen(Mistakes(r, fails, stalls)) /\ Resolved(r, fails)
    BY LookIs
  <2>2. Mistakes(r, fails, stalls) \subseteq Trouble
    BY DEF Mistakes, Trouble
  <2>3. PICK why : why = IF fails THEN "failed" ELSE ""
    OBVIOUS
  <2>4. \/ /\ Graded("missing", why) /\ lost' = LosesScreen("missing")
           /\ step' = step + 1 /\ phase' = "walking"
        \/ phase' = "tapping" /\ UNCHANGED <<checks, lost, step>>
    BY <2>1, <2>3 DEF Resolved
  <2> QED
    BY <2>1, <2>2, <2>4
<1>3. LosesScreen("missing") = "untapped"
  BY DEF LosesScreen
<1> QED
  BY <1>1, <1>3, UnseenIs

\* What a tap comes to.
LEMMA TapEnds ==
  ASSUME Tap
  PROVE  /\ step' = step + 1 /\ phase' = "walking" /\ UNCHANGED <<locked, unseen, readable, plan, at>>
         /\ \/ /\ Graded(Status, IF seen.failed THEN "failed" ELSE "") /\ lost' = LosesScreen(Status)
               /\ Tapped(Step.to, seen.is = Step.target)
            \/ Graded("error", "failed") /\ lost' = LosesScreen("error") /\ UNCHANGED <<front, screen, missed>>
BY DEF Tap

\* The steps of a scenario, one action after the other.
LEMMA ScenarioKeeps ==
  ASSUME PreInv,
         ResetDevice \/ Navigate \/ Verify \/ TapElement \/ Look \/ Tap \/ TapUnseen \/ Locks \/ Unlocks
  PROVE  PreInv'
<1>1. /\ PreTypeOK /\ front \in {Launcher, Package} /\ lost \in Losses /\ locked \in BOOLEAN
      /\ missed \in BOOLEAN /\ unseen \subseteq Trouble
  BY DEF PreInv, PreTypeOK
<1>2. CASE Locks \/ Unlocks
  <2>1. InScenario /\ InScenario' /\ locked' \in BOOLEAN /\ phase' = phase
        /\ UNCHANGED <<front, missed, readable, plan, at, step, lost, checks, stopped, failed>>
    BY <1>2 DEF Locks, Unlocks, InScenario
  <2>2. unseen' \subseteq Trouble
    <3>1. CASE Locks
      BY <1>1, <3>1 DEF Locks
    <3>2. CASE Unlocks
      <4>1. PICK kinds \in SUBSET Trouble : Unseen(kinds)
        BY <3>2 DEF Unlocks, Trouble
      <4> QED
        BY <1>1, <4>1, UnseenIs
    <3> QED
      BY <1>2, <3>1, <3>2
  <2>3. ByTarget' = ByTarget
    BY <2>1 DEF ByTarget
  <2>4. phase' \in {"looking", "tapping"} => step <= Len(Script[plan[at]]) /\ Step.act = "tap"
    BY <2>1 DEF PreInv, Asked
  <2>5. step \in Nat
    BY <1>1 DEF PreTypeOK
  <2> QED
    BY <1>1, <2>1, <2>2, <2>3, <2>4, <2>5, WithinKeeps
<1>3. CASE ResetDevice
  <2>1. InScenario /\ InScenario' /\ phase' = "walking"
        /\ UNCHANGED <<locked, missed, readable, plan, at, step, lost, checks, stopped, failed>>
    BY <1>3 DEF ResetDevice, InScenario
  <2>2. unseen' \subseteq Trouble /\ front' \in {Launcher, Package}
    <3>1. (Unseen({"swallowed"}) \/ UNCHANGED unseen) /\ front' \in {front, Launcher}
      BY <1>3 DEF ResetDevice
    <3>2. {"swallowed"} \subseteq Trouble
      BY DEF Trouble
    <3> QED
      BY <1>1, <3>1, <3>2, UnseenIs
  <2>3. ByTarget' = ByTarget
    BY <2>1 DEF ByTarget
  <2>4. step \in Nat
    BY <1>1 DEF PreTypeOK
  <2> QED
    BY <1>1, <2>1, <2>2, <2>3, <2>4, WithinKeeps
<1>4. CASE Navigate \/ Verify
  <2>1. InScenario /\ InScenario' /\ phase' = "walking" /\ step' = step + 1
        /\ step <= Len(Script[plan[at]]) /\ Step.act # "tap"
        /\ UNCHANGED <<locked, readable, plan, at, lost, checks, stopped, failed>>
    BY <1>4 DEF Navigate, Verify, Walking, InScenario, Scenario, deviceVars
  <2>2. unseen' \subseteq Trouble /\ front' \in {Launcher, Package} /\ missed' \in BOOLEAN
    <3>1. CASE Verify
      BY <1>1, <3>1 DEF Verify, deviceVars
    <3>2. CASE Navigate
      <4>1. \/ Unseen({"swallowed"}) /\ UNCHANGED <<front, missed>>
            \/ UNCHANGED unseen /\ front' = Package /\ UNCHANGED missed
            \/ UNCHANGED unseen /\ Tapped(Step.to, screen # Elsewhere)
        BY <3>2 DEF Navigate
      <4>2. {"swallowed"} \subseteq Trouble
        BY DEF Trouble
      <4> QED
        BY <1>1, <4>1, <4>2, UnseenIs, TappedIs
    <3> QED
      BY <1>4, <3>1, <3>2
  <2>3. ByTarget' = ByTarget
    BY <2>1 DEF ByTarget
  <2> QED
    BY <1>1, <2>1, <2>2, <2>3, WithinKeeps
<1>5. CASE TapElement
  <2>1. InScenario /\ step <= Len(Script[plan[at]]) /\ Step.act = "tap" /\ step \in Nat
        /\ UNCHANGED <<front, locked, missed, unseen, readable, plan, at, stopped, failed>>
    BY <1>1, <1>5 DEF TapElement, Walking, InScenario, Scenario, PreTypeOK, deviceVars
  <2>2. lost' \in Losses
    BY <1>1, <1>5 DEF TapElement, Losses
  <2>3. CASE lost' # ""
    <3>1. Graded("unreliable", lost') /\ step' = step + 1 /\ phase' = "walking"
      BY <1>5, <2>3 DEF TapElement, Walking
    <3>2. ByTarget' = ByTarget \cup {Step.target}
      BY <3>1, GradedIs
    <3>3. InScenario'
      BY <3>1 DEF InScenario
    <3> QED
      BY <1>1, <2>1, <2>2, <3>1, <3>2, <3>3, WithinKeeps
  <2>4. CASE lost' = ""
    <3>1. checks' = checks /\ step' = step /\ phase' = "looking"
      BY <1>5, <2>4 DEF TapElement
    <3>2. ByTarget' = ByTarget
      BY <3>1 DEF ByTarget
    <3>3. InScenario'
      BY <3>1 DEF InScenario
    <3> QED
      BY <1>1, <2>1, <2>2, <3>1, <3>2, <3>3, WithinKeeps
  <2> QED
    BY <2>3, <2>4
<1>6. CASE Look
  <2>1. InScenario /\ step <= Len(Script[plan[at]]) /\ Step.act = "tap" /\ step \in Nat
        /\ UNCHANGED <<front, locked, missed, readable, plan, at, stopped, failed>>
    BY <1>1, <1>6 DEF Look, InScenario, PreInv, PreTypeOK, Asked
  <2>2. unseen' \subseteq Trouble
    BY <1>1, <1>6, LookEnds
  <2>3. CASE phase' = "tapping" /\ UNCHANGED <<checks, lost, step>>
    <3>1. ByTarget' = ByTarget /\ InScenario'
      BY <2>3 DEF ByTarget, InScenario
    <3> QED
      BY <1>1, <2>1, <2>2, <2>3, <3>1, WithinKeeps
  <2>4. ASSUME NEW why, Graded("missing", why), lost' = "untapped", step' = step + 1, phase' = "walking"
        PROVE  PreInv'
    <3>1. ByTarget' = ByTarget \cup {Step.target}
      BY <2>4, GradedIs
    <3>2. InScenario' /\ lost' \in Losses
      BY <2>4 DEF InScenario, Losses
    <3> QED
      BY <1>1, <2>1, <2>2, <2>4, <3>1, <3>2, WithinKeeps
  <2> QED
    BY <1>1, <1>6, <2>3, <2>4, LookEnds
<1>7. CASE Tap
  <2>1. InScenario /\ step <= Len(Script[plan[at]]) /\ Step.act = "tap" /\ step \in Nat
        /\ step' = step + 1 /\ phase' = "walking"
        /\ UNCHANGED <<locked, unseen, readable, plan, at, stopped, failed>>
    BY <1>1, <1>7 DEF Tap, InScenario, PreInv, PreTypeOK, Asked
  <2>2. PICK status, why : Graded(status, why) /\ lost' = LosesScreen(status)
    BY <1>7, TapEnds
  <2>3. front' = front /\ missed' \in BOOLEAN
    BY <1>1, <1>7, TapEnds, TappedIs
  <2>4. ByTarget' = ByTarget \cup {Step.target}
    BY <2>2, GradedIs
  <2>5. InScenario'
    BY <2>1 DEF InScenario
  <2>6. lost' \in Losses
    BY <2>2 DEF LosesScreen, Losses
  <2> QED
    BY <1>1, <2>1, <2>3, <2>4, <2>5, <2>6, WithinKeeps
<1>8. CASE TapUnseen
  <2>1. InScenario /\ step <= Len(Script[plan[at]]) /\ Step.act = "tap" /\ step \in Nat
        /\ step' = step + 1 /\ phase' = "walking" /\ Graded("not_applicable", "")
        /\ UNCHANGED <<locked, unseen, readable, plan, at, lost, stopped, failed>>
    BY <1>1, <1>8 DEF TapUnseen, InScenario, PreInv, PreTypeOK, Asked
  <2>2. front' = front /\ missed' \in BOOLEAN
    BY <1>1, <1>8, TappedIs DEF TapUnseen
  <2>3. ByTarget' = ByTarget \cup {Step.target} /\ InScenario'
    BY <2>1, GradedIs DEF InScenario
  <2> QED
    BY <1>1, <2>1, <2>2, <2>3, WithinKeeps
<1> QED
  BY <1>2, <1>3, <1>4, <1>5, <1>6, <1>7, <1>8

\* A scenario ends: each of its taps is in the report.
LEMMA EndKeeps ==
  ASSUME PreInv, EndOfScenario
  PROVE  PreInv'
<1>1. /\ phase = "walking" /\ phase' = "between" /\ step > Len(Script[plan[at]])
      /\ UNCHANGED <<front, screen, locked, missed, unseen, readable, plan, at, step, lost, checks, stopped, failed>>
  BY DEF EndOfScenario, Scenario, deviceVars
<1>2. ByTarget' = ByTarget
  BY <1>1 DEF ByTarget
<1>3. PreTypeOK'
  BY <1>1 DEF PreInv, PreTypeOK, Phases
<1>4. at > 0 /\ plan[at] \in Names
  BY <1>1 DEF PreInv, PreTypeOK, Asked, InScenario
<1>5. TargetsOf(plan[at]) \subseteq ByTarget
  <2>1. \A j \in DOMAIN Script[plan[at]] : j < step
    <3>1. Script[plan[at]] \in Seq(Steps) /\ step \in Nat
      BY <1>4, ScriptsAssumption DEF PreInv, PreTypeOK, Names
    <3> QED
      BY <1>1, <3>1
  <2> QED
    BY <1>1, <2>1 DEF PreInv, Asked, InScenario, TargetsOf, TapsOf
<1>6. \A i \in 1 .. Len(plan) : Through(i)' => Through(i) \/ i = at
  BY <1>1 DEF Through
<1>7. Asked'
  <2>1. \A i \in 1 .. Len(plan)' : Through(i)' => TargetsOf(plan[i])' \subseteq ByTarget'
    BY <1>1, <1>2, <1>5, <1>6 DEF PreInv, Asked, TargetsOf, TapsOf
  <2>2. (ByTarget \subseteq AllTargets)'
    BY <1>2 DEF PreInv, Asked, AllTargets, Names, TargetsOf, TapsOf
  <2> QED
    BY <1>1, <2>1, <2>2 DEF Asked, InScenario
<1> QED
  BY <1>1, <1>3, <1>7 DEF PreInv, AtTheEnd

\* Between two scenarios: the next, the end, or a request to stop.
LEMMA BetweenKeeps ==
  ASSUME PreInv, Between
  PROVE  PreInv'
<1>1. phase = "between" /\ UNCHANGED <<front, screen, locked, unseen, readable, plan, checks>>
  BY DEF Between
<1>2. \/ /\ at < Len(plan) /\ at' = at + 1 /\ step' = 1 /\ lost' = "" /\ missed' = FALSE
         /\ phase' = "reset" /\ UNCHANGED <<stopped, failed>>
      \/ at = Len(plan) /\ phase' = "quiet" /\ UNCHANGED <<at, step, lost, missed, stopped, failed>>
      \/ phase' = "quiet" /\ stopped' \in BOOLEAN /\ failed' = ~stopped' /\ UNCHANGED <<at, step, lost, missed>>
  BY DEF Between
<1>3. ByTarget' = ByTarget
  BY <1>1 DEF ByTarget
<1>4. PreTypeOK'
  <2>1. phase' \in Phases
    BY <1>2 DEF Phases
  <2>3. at' \in 0 .. Len(plan) /\ step' \in Nat \ {0}
    <3>1. Len(plan) \in Nat /\ at \in 0 .. Len(plan) /\ step \in Nat \ {0}
      BY DEF PreInv, PreTypeOK
    <3>2. \/ at < Len(plan) /\ at' = at + 1 /\ step' = 1
          \/ at' = at /\ step' = step
      BY <1>2
    <3> HIDE <1>2
    <3> QED
      BY <3>1, <3>2
  <2>2. {missed', stopped', failed'} \subseteq BOOLEAN /\ lost' \in Losses
    BY <1>2 DEF PreInv, PreTypeOK, Losses
  <2> QED
    BY <1>1, <2>1, <2>2, <2>3 DEF PreInv, PreTypeOK
<1>5. \A i \in 1 .. Len(plan) : Through(i)' => Through(i)
  <2>1. at \in Nat /\ Len(plan) \in Nat
    BY DEF PreInv, PreTypeOK
  <2>2. CASE at' = at + 1 /\ phase' = "reset"
    BY <1>1, <2>1, <2>2 DEF Through
  <2>3. CASE at' = at
    BY <1>1, <2>3 DEF Through
  <2> QED
    BY <1>2, <2>2, <2>3
<1>6. Asked'
  <2>1. \A i \in 1 .. Len(plan)' : Through(i)' => TargetsOf(plan[i])' \subseteq ByTarget'
    BY <1>1, <1>3, <1>5 DEF PreInv, Asked, TargetsOf, TapsOf
  <2>2. (ByTarget \subseteq AllTargets)'
    BY <1>3 DEF PreInv, Asked, AllTargets, Names, TargetsOf, TapsOf
  <2>3. InScenario' => /\ at' > 0
                       /\ \A j \in DOMAIN Script[plan'[at']] : ~ (j < step')
    <3> SUFFICES ASSUME InScenario' PROVE at' > 0 /\ \A j \in DOMAIN Script[plan'[at']] : ~ (j < step')
      OBVIOUS
    <3>1. at < Len(plan) /\ at' = at + 1 /\ step' = 1
      BY <1>2 DEF InScenario
    <3>2. at' > 0 /\ plan'[at'] \in Names
      BY <1>4, <3>1 DEF PreTypeOK, PreInv, Names
    <3>3. Script[plan'[at']] \in Seq(Steps)
      BY <3>2, ScriptsAssumption DEF Names
    <3> QED
      BY <3>1, <3>2, <3>3
  <2>4. phase' \notin {"looking", "tapping"}
    BY <1>2
  <2> QED
    BY <2>1, <2>2, <2>3, <2>4 DEF Asked
<1>7. AtTheEnd'
  BY <1>1, <1>2 DEF AtTheEnd
<1> QED
  BY <1>4, <1>6, <1>7 DEF PreInv

\* Ctrl+C, and how the device is left.
LEMMA OverKeeps ==
  ASSUME PreInv, Interrupt \/ StopApps \/ GoHome
  PROVE  PreInv'
<1>1. UNCHANGED <<locked, missed, unseen, readable, plan, at, step, lost, checks, stopped>>
  BY DEF Interrupt, StopApps, GoHome, deviceVars
<1>2. /\ phase' \in {"quiet", "home", "done"} /\ front' \in {front, Launcher}
      /\ \/ failed' = TRUE
         \/ failed' = failed /\ phase \in {"quiet", "home"}
  BY DEF Interrupt, StopApps, GoHome, deviceVars
<1>3. ByTarget' = ByTarget
  BY <1>1 DEF ByTarget
<1>4. PreTypeOK'
  <2>1. front' \in {Launcher, Package} /\ phase' \in Phases /\ failed' \in BOOLEAN
    BY <1>2 DEF PreInv, PreTypeOK, Phases
  <2> QED
    BY <1>1, <2>1 DEF PreInv, PreTypeOK
<1>5. \A i \in 1 .. Len(plan) : Through(i)' => Through(i)
  BY <1>1, <1>2 DEF Through
<1>6. Asked'
  <2>1. \A i \in 1 .. Len(plan)' : Through(i)' => TargetsOf(plan[i])' \subseteq ByTarget'
    BY <1>1, <1>3, <1>5 DEF PreInv, Asked, TargetsOf, TapsOf
  <2>2. (ByTarget \subseteq AllTargets)'
    BY <1>3 DEF PreInv, Asked, AllTargets, Names, TargetsOf, TapsOf
  <2> QED
    BY <1>2, <2>1, <2>2 DEF Asked, InScenario
<1>7. AtTheEnd'
  BY <1>1, <1>2 DEF PreInv, AtTheEnd
<1> QED
  BY <1>4, <1>6, <1>7 DEF PreInv

\* The invariant holds initially.
LEMMA PreInvInit == PreInit => PreInv
<1> SUFFICES ASSUME PreInit PROVE PreInv
  OBVIOUS
<1>1. plan \in Seq(Names)
  <2>1. \/ plan = CoveringScenarios
        \/ \E n \in Names : plan = <<n>>
    BY DEF PreInit
  <2>2. \A n \in Names : <<n>> \in Seq(Names)
    OBVIOUS
  <2> QED
    BY <2>1, <2>2, CoverCovers
<1>2. PreTypeOK
  <2>1. at \in 0 .. Len(plan) /\ step \in Nat \ {0}
    <3>1. at = 0 /\ step = 1
      BY DEF PreInit
    <3>2. Len(plan) \in Nat
      BY <1>1
    <3> QED
      BY <3>1, <3>2
  <2>2. /\ phase \in Phases /\ lost \in Losses /\ unseen \subseteq Trouble /\ front \in {Launcher, Package}
        /\ {locked, missed, readable, stopped, failed} \subseteq BOOLEAN
    BY DEF PreInit, Phases, Losses
  <2> QED
    BY <1>1, <2>1, <2>2 DEF PreTypeOK
<1>3. ByTarget = {}
  BY DEF PreInit, ByTarget
<1>4. at = 0 /\ phase = "between"
  BY DEF PreInit
<1>5. \A i \in 1 .. Len(plan) : ~Through(i)
  <2>1. \A i \in 1 .. Len(plan) : i # 0 /\ ~(i < 0)
    OBVIOUS
  <2> QED
    BY <1>4, <2>1 DEF Through
<1> QED
  BY <1>2, <1>3, <1>4, <1>5 DEF PreInv, Asked, AtTheEnd, InScenario

\* Every step keeps it.
LEMMA PreInvKept == PreInv /\ [PreNext]_preVars => PreInv'
<1>1. PreInv /\ PreNext => PreInv'
  BY ScenarioKeeps, EndKeeps, BetweenKeeps, OverKeeps DEF PreNext
<1>2. ASSUME PreInv, UNCHANGED preVars PROVE PreInv'
  <2>1. UNCHANGED <<front, screen, locked, missed, unseen, readable, plan, at, step, lost, phase, checks, stopped, failed>>
    BY <1>2 DEF preVars
  <2>2. UNCHANGED <<ByTarget, AllTargets, Step>>
    BY <2>1 DEF ByTarget, AllTargets, Names, TargetsOf, TapsOf, Step, Scenario
  <2>3. \A i : Through(i)' <=> Through(i)
    BY <2>1 DEF Through
  <2>4. PreTypeOK' /\ AtTheEnd'
    BY <1>2, <2>1 DEF PreInv, PreTypeOK, AtTheEnd
  <2>5. Asked'
    <3>1. \A i \in 1 .. Len(plan)' : Through(i)' => TargetsOf(plan[i])' \subseteq ByTarget'
      BY <1>2, <2>1, <2>2, <2>3 DEF PreInv, Asked, TargetsOf, TapsOf
    <3>2. InScenario' => /\ at > 0
                         /\ \A j \in DOMAIN Script[plan[at]] :
                              j < step /\ Script[plan[at]][j].act = "tap" => Script[plan[at]][j].target \in ByTarget
      BY <1>2, <2>1 DEF PreInv, Asked, InScenario
    <3>3. phase' \in {"looking", "tapping"} => step <= Len(Script[plan[at]]) /\ Step.act = "tap"
      BY <1>2, <2>1 DEF PreInv, Asked
    <3>4. ByTarget \subseteq AllTargets
      BY <1>2 DEF PreInv, Asked
    <3> QED
      BY <2>1, <2>2, <3>1, <3>2, <3>3, <3>4 DEF Asked
  <2> QED
    BY <2>4, <2>5 DEF PreInv
<1> QED
  BY <1>1, <1>2

\* The plan is one of scenarios there are, and a preflight's place in it is a place in it
\* (preflight.py:554-596).
THEOREM PreflightTypeCorrect == PreSpec => []PreTypeOK
<1>1. PreInv => PreTypeOK
  BY DEF PreInv
<1> QED
  BY <1>1, PreInvInit, PreInvKept, PTL DEF PreSpec

-----------------------------------------------------------------------------
(* A preflight: what a look at the screen finds. *)

\* A selector that misses a control does not match it.
LEMMA MissIs ==
  ASSUME NEW s, NEW n, Misses(s, n)
  PROVE  ~Matches(s, n)
<1>1. CASE s.id # None /\ s.id # n.id
  BY <1>1 DEF Matches, IdMatches
<1>2. CASE /\ s.label \notin {None, <<>>} /\ s.label # n.label
           /\ s.exact \/ Len(s.label) <= ShortLabelLength \/ ~Within(s.label, n.label)
  <2>1. ~TextMatches(s.label, n.label, s.exact)
    BY <1>2 DEF TextMatches, Whole
  <2> QED
    BY <1>2, <2>1 DEF Matches
<1>3. CASE s.clickable # None /\ s.clickable # n.clickable
  BY <1>3 DEF Matches
<1>4. CASE s.minArea # None /\ ~(n.area >= s.minArea)
  BY <1>4 DEF Matches
<1> QED
  BY <1>1, <1>2, <1>3, <1>4 DEF Misses

\* A control that has lost what selectors look for is matched by none that asks for it.
LEMMA DecayedIs ==
  ASSUME NEW s, s.id # None \/ (s.label # None /\ Len(s.label) \in Nat \ {0}) \/ s.clickable = TRUE,
         NEW is, NEW area, NEW enabled
  PROVE  ~Matches(s, Node(is, None, <<>>, area, FALSE, enabled))
<1> DEFINE n == Node(is, None, <<>>, area, FALSE, enabled)
<1>1. n.id = None /\ n.label = <<>> /\ n.clickable = FALSE
  BY DEF Node
<1> SUFFICES ~Matches(s, n)
  OBVIOUS
<1> HIDE DEF n
<1>2. CASE s.id # None
  BY <1>1, <1>2 DEF Matches, IdMatches
<1>3. CASE s.label # None /\ Len(s.label) \in Nat \ {0}
  <2>1. Len(<<>>) = 0
    OBVIOUS
  <2>2. s.label # <<>>
    BY <1>3, <2>1
  <2>3. ~Within(s.label, n.label)
    BY <1>1, <1>3, <2>1 DEF Within
  <2>4. ~TextMatches(s.label, n.label, s.exact)
    BY <1>1, <2>2, <2>3 DEF TextMatches
  <2> QED
    BY <1>3, <2>4 DEF Matches
<1>4. CASE s.clickable = TRUE
  <2>1. s.clickable # None /\ n.clickable # s.clickable
    BY <1>1, <1>4, LookupAssumption
  <2> QED
    BY <2>1 DEF Matches
<1> QED
  BY <1>2, <1>3, <1>4

\* What is found is a node of the dump that can be used and matches.
LEMMA FoundIs ==
  ASSUME NEW nodes, NEW s, Find(nodes, s) # None
  PROVE  \E i \in DOMAIN nodes : /\ Find(nodes, s) = nodes[i]
                                 /\ Usable(nodes[i]) /\ Matches(s, nodes[i])
<1> DEFINE matches == {i \in DOMAIN nodes : Usable(nodes[i]) /\ Matches(s, nodes[i])}
           before(i, j) == LET a == nodes[i].area b == nodes[j].area IN
                             \/ (a # 0 /\ (b = 0 \/ a < b))
                             \/ (a = b /\ i <= j)
           best == {i \in matches : IF s.index # None THEN Cardinality({j \in matches : j < i}) = s.index
                                    ELSE \A j \in matches : before(i, j)}
<1>1. Find(nodes, s) = IF best = {} THEN None ELSE nodes[CHOOSE i \in best : TRUE]
  BY DEF Find
<1>2. best \subseteq matches
  OBVIOUS
<1> HIDE DEF best
<1>3. PICK i \in best : Find(nodes, s) = nodes[i]
  BY <1>1
<1> QED
  BY <1>2, <1>3

\* Two dumps with the same matches, on the same nodes, are the same to a selector.
LEMMA SameMatches ==
  ASSUME NEW a, NEW b, NEW s,
         {i \in DOMAIN a : Usable(a[i]) /\ Matches(s, a[i])} = {i \in DOMAIN b : Usable(b[i]) /\ Matches(s, b[i])},
         \A i \in DOMAIN a : Usable(a[i]) /\ Matches(s, a[i]) => a[i] = b[i]
  PROVE  Find(a, s) = Find(b, s)
<1> DEFINE matches(nodes) == {i \in DOMAIN nodes : Usable(nodes[i]) /\ Matches(s, nodes[i])}
           before(nodes, i, j) == LET x == nodes[i].area y == nodes[j].area IN
                                    \/ (x # 0 /\ (y = 0 \/ x < y))
                                    \/ (x = y /\ i <= j)
           good(nodes, i) == IF s.index # None THEN Cardinality({j \in matches(nodes) : j < i}) = s.index
                             ELSE \A j \in matches(nodes) : before(nodes, i, j)
           best(nodes) == {i \in matches(nodes) : good(nodes, i)}
<1>1. \A nodes : Find(nodes, s) = IF best(nodes) = {} THEN None ELSE nodes[CHOOSE i \in best(nodes) : TRUE]
  BY DEF Find
<1>2. matches(a) = matches(b) /\ \A i \in matches(a) : a[i] = b[i]
  OBVIOUS
<1> HIDE DEF matches
<1>3. \A i \in matches(a) : good(a, i) <=> good(b, i)
  <2>1. \A i, j \in matches(a) : before(a, i, j) <=> before(b, i, j)
    BY <1>2
  <2> HIDE DEF before
  <2> QED
    BY <1>2, <2>1
<1> HIDE DEF good
<1>4. best(a) = best(b) /\ best(a) \subseteq matches(a)
  BY <1>2, <1>3
<1> HIDE DEF best
<1>5. CASE best(a) = {}
  BY <1>1, <1>4, <1>5
<1>6. CASE best(a) # {}
  <2> DEFINE i == CHOOSE i \in best(a) : TRUE
  <2>1. i \in best(a)
    BY <1>6
  <2>2. Find(a, s) = a[i] /\ Find(b, s) = b[i]
    BY <1>1, <1>4, <1>6
  <2> HIDE DEF i
  <2> QED
    BY <1>2, <1>4, <2>1, <2>2
<1> QED
  BY <1>5, <1>6

\* A target resolves by a selector if one of its selectors finds something, and then to that.
LEMMA ResolvedIs ==
  ASSUME NEW t \in TargetNames, NEW nodes,
         NEW r, r = Resolve(TargetOf[t], nodes)
  PROVE  /\ r.strategy = "selector" =>
              \E k \in DOMAIN TargetOf[t].selectors :
                r.node = Find(nodes, TargetOf[t].selectors[k]) /\ r.node # None
         /\ (\E k \in DOMAIN TargetOf[t].selectors : Find(nodes, TargetOf[t].selectors[k]) # None) =>
              r.strategy = "selector"
         /\ r.strategy # "selector" => r.node = None
<1> DEFINE hits == {k \in DOMAIN TargetOf[t].selectors : Find(nodes, TargetOf[t].selectors[k]) # None}
           best == CHOOSE i \in hits : \A j \in hits : i <= j
<1>1. hits \subseteq Nat
  BY ScreensAssumption DEF TargetNames
<1>2. \A k \in hits : k \in DOMAIN TargetOf[t].selectors /\ Find(nodes, TargetOf[t].selectors[k]) # None
  OBVIOUS
<1>3. r = CASE hits # {} -> [strategy |-> "selector", node |-> Find(nodes, TargetOf[t].selectors[best])]
            [] hits = {} /\ TargetOf[t].fallback -> [strategy |-> "coordinates", node |-> None]
            [] OTHER -> [strategy |-> "none", node |-> None]
  BY DEF Resolve
<1>4. (\E k \in DOMAIN TargetOf[t].selectors : Find(nodes, TargetOf[t].selectors[k]) # None) => hits # {}
  OBVIOUS
<1> HIDE DEF hits
<1>5. hits # {} => best \in hits
  BY <1>1, LeastNumber
<1> HIDE DEF best
<1>6. CASE hits # {}
  BY <1>2, <1>3, <1>5, <1>6
<1>7. CASE hits = {}
  <2>1. r.node = None /\ r.strategy \in {"coordinates", "none"}
    BY <1>3, <1>7
  <2> QED
    BY <1>4, <1>7, <2>1
<1> QED
  BY <1>6, <1>7

\* A selector of a target matches, of what is shown, its own control while that has what the selector
\* looks for, or another that looks like it.
LEMMA ShownTells ==
  ASSUME SelectorsAsk, NEW t \in TargetNames, NEW k \in DOMAIN TargetOf[t].selectors,
         NEW scr \in DOMAIN Tree, NEW drawn, NEW i \in DOMAIN Shown(scr, works, drawn),
         Usable(Shown(scr, works, drawn)[i]), Matches(TargetOf[t].selectors[k], Shown(scr, works, drawn)[i])
  PROVE  t \in works \cup drawn \/ LookAlike(t)
<1> DEFINE s == TargetOf[t].selectors[k]
           n == Tree[scr][i]
<1>1. s.id # None \/ (s.label # None /\ Len(s.label) \in Nat \ {0}) \/ s.clickable = TRUE
  BY DEF SelectorsAsk
<1>2. /\ i \in DOMAIN Tree[scr]
      /\ Shown(scr, works, drawn)[i] = IF n.is \in TargetNames \ (works \cup drawn)
                                         THEN Node(n.is, None, <<>>, n.area, FALSE, n.enabled) ELSE n
  BY DEF Shown
<1>3. Matches(s, Shown(scr, works, drawn)[i])
  OBVIOUS
<1> HIDE DEF s, n
<1>4. ~ (n.is \in TargetNames \ (works \cup drawn))
  BY <1>1, <1>2, <1>3, DecayedIs
<1>5. Shown(scr, works, drawn)[i] = n
  BY <1>2, <1>4
<1>6. Usable(n) /\ ~Misses(s, n)
  BY <1>3, <1>5, MissIs
<1>7. CASE n.is = t
  BY <1>4, <1>7
<1>8. CASE n.is # t
  BY <1>2, <1>6, <1>8 DEF LookAlike, n, s
<1> QED
  BY <1>7, <1>8

\* A dump has nodes of the screen, and all of them when it is not cut short.
LEMMA DumpIs ==
  ASSUME NEW nodes, NEW count
  PROVE  /\ DOMAIN ParseHierarchy(nodes, count) \subseteq DOMAIN nodes
         /\ \A i \in DOMAIN ParseHierarchy(nodes, count) : ParseHierarchy(nodes, count)[i] = nodes[i]
         /\ IsFiniteSet(DOMAIN nodes) /\ count = Cardinality(DOMAIN nodes) =>
              DOMAIN ParseHierarchy(nodes, count) = DOMAIN nodes
<1>1. ASSUME IsFiniteSet(DOMAIN nodes), NEW i \in DOMAIN nodes
      PROVE  Cardinality({j \in DOMAIN nodes : j <= i}) <= Cardinality(DOMAIN nodes)
  <2>1. {j \in DOMAIN nodes : j <= i} \in SUBSET DOMAIN nodes
    OBVIOUS
  <2> QED
    BY <1>1, <2>1, FS_Subset
<1> QED
  BY <1>1 DEF ParseHierarchy

\* What a selector finds in a dump of a screen, however short, is a control that has what it looks
\* for: the target's own, or one that looks like it.
LEMMA LookTells ==
  ASSUME SelectorsAsk, NEW t \in TargetNames, NEW scr \in DOMAIN Tree,
         NEW drawn, drawn \subseteq SelfDrawn, NEW count, NEW r,
         r = Resolve(TargetOf[t], ParseHierarchy(Shown(scr, works, drawn), count)), r.strategy = "selector"
  PROVE  t \in works \cup SelfDrawn \/ LookAlike(t)
<1> DEFINE nodes == ParseHierarchy(Shown(scr, works, drawn), count)
<1>1. PICK k \in DOMAIN TargetOf[t].selectors : r.node = Find(nodes, TargetOf[t].selectors[k]) /\ r.node # None
  BY ResolvedIs
<1> HIDE DEF nodes
<1>2. PICK i \in DOMAIN nodes : Usable(nodes[i]) /\ Matches(TargetOf[t].selectors[k], nodes[i])
  BY <1>1, FoundIs
<1>3. i \in DOMAIN Shown(scr, works, drawn) /\ nodes[i] = Shown(scr, works, drawn)[i]
  BY <1>2, DumpIs DEF nodes
<1> QED
  BY <1>2, <1>3, ShownTells

\* A full dump of the screen is to a selector what is shown of it.
LEMMA LookFinds ==
  ASSUME NEW t \in TargetNames, NEW scr \in DOMAIN Tree, NEW drawn,
         \E k \in DOMAIN TargetOf[t].selectors : Find(Shown(scr, works, drawn), TargetOf[t].selectors[k]) # None,
         NEW r,
         r = Resolve(TargetOf[t], ParseHierarchy(Shown(scr, works, drawn), Count(Shown(scr, works, drawn))))
  PROVE  r.strategy = "selector"
<1> DEFINE a == Shown(scr, works, drawn)
           b == ParseHierarchy(a, Count(a))
<1>1. IsFiniteSet(DOMAIN a)
  <2>1. DOMAIN a \subseteq DOMAIN Tree[scr]
    BY DEF Shown
  <2>2. IsFiniteSet(DOMAIN Tree[scr])
    BY ScreensAssumption
  <2> QED
    BY <2>1, <2>2, FS_Subset
<1>2. PICK k \in DOMAIN TargetOf[t].selectors : Find(a, TargetOf[t].selectors[k]) # None
  OBVIOUS
<1> HIDE DEF a
<1>3. DOMAIN b = DOMAIN a /\ \A i \in DOMAIN a : b[i] = a[i]
  BY <1>1, DumpIs DEF Count
<1> HIDE DEF b
<1>4. Find(b, TargetOf[t].selectors[k]) = Find(a, TargetOf[t].selectors[k])
  <2> DEFINE s == TargetOf[t].selectors[k]
  <2>1. {i \in DOMAIN b : Usable(b[i]) /\ Matches(s, b[i])} = {i \in DOMAIN a : Usable(a[i]) /\ Matches(s, a[i])}
    BY <1>3
  <2>2. \A i \in DOMAIN b : Usable(b[i]) /\ Matches(s, b[i]) => b[i] = a[i]
    BY <1>3
  <2> HIDE DEF s
  <2>3. Find(b, s) = Find(a, s)
    BY <2>1, <2>2, SameMatches
  <2> QED
    BY <2>3 DEF s
<1>5. r = Resolve(TargetOf[t], b)
  BY DEF a, b
<1> QED
  BY <1>2, <1>4, <1>5, ResolvedIs

-----------------------------------------------------------------------------
(* A preflight: how it stands between the device and what it reports. *)

(* An app that is in front shows a screen there is.                        *)
ScreenKnown == screen \in DOMAIN Tree \cup {None} /\ (front = Package => screen # None)

(* Something has what the selectors of a target look for.                  *)
Answers(t) == t \in works \cup SelfDrawn \/ LookAlike(t)

SeenIsReal == phase = "tapping" /\ seen.strategy = "selector" => Answers(Step.target)

HealthIsReal == \A c \in checks : c.status = "selector" => Answers(c.target)

DecayInv == ScreenKnown /\ SeenIsReal /\ HealthIsReal

(* The app is where the scenario means to be.                              *)
OnScript(on) == screen = on[plan[at]][step] /\ (screen # None => front = Package)

(* While there is no trouble, as long as a preflight grades: the app is    *)
(* where the scenario means to be, or the keyguard, which the next step    *)
(* will see, has swallowed a tap; a selector that finds something finds    *)
(* the control of the step, and a good one does unless the dump failed.    *)
Walks(on) ==
  unseen = {} /\ readable =>
    /\ InScenario /\ lost = "" /\ missed => locked
    /\ phase = "walking" /\ lost = "" /\ ~missed => OnScript(on)
    /\ phase \in {"looking", "tapping"} => lost = "" /\ (~missed => OnScript(on))
    /\ phase = "tapping" =>
         /\ seen.strategy = "selector" => seen.is = Step.target
         /\ Step.target \in works => seen.strategy = "selector" \/ seen.failed

Fine(c) == c.status \in {"unreliable", IF readable THEN "selector" ELSE "not_applicable"} \/ c.why = "failed"

GradesAreReal == unseen = {} => \A c \in checks : c.target \in works => Fine(c)

FindInv(on) ==
  /\ Walks(on) /\ GradesAreReal
  /\ (phase = "reset" => step = 1 /\ ~missed) /\ (phase = "tapping" => readable)
  /\ works \subseteq TargetNames \ SelfDrawn

\* Where a step means to go is a screen there is, and what it taps is a target.
LEMMA StepLeads ==
  ASSUME PreInv, InScenario, step <= Len(Script[plan[at]])
  PROVE  /\ plan[at] \in Names /\ step \in DOMAIN Script[plan[at]] /\ step \in Nat
         /\ Step \in Steps
         /\ Step.act # "verify" => Step.to \in DOMAIN Tree
         /\ Step.act = "tap" => Step.target \in TargetNames
<1>1. PreTypeOK /\ at > 0
  BY DEF PreInv, Asked
<1>2. plan[at] \in Names /\ step \in DOMAIN Script[plan[at]]
  BY <1>1, StepIs
<1>3. plan[at] \in DOMAIN Script /\ Script[plan[at]] \in Seq(Steps)
  BY <1>2, ScriptsAssumption DEF Names
<1>4. Script[plan[at]][step] \in Steps
  BY <1>2, <1>3
<1> QED
  BY <1>1, <1>2, <1>3, <1>4, ScreensAssumption DEF Step, Scenario, TargetNames, PreTypeOK

\* What is on the screen is a screen there is.
LEMMA OnScreenIs ==
  ASSUME PreInv, ScreenKnown
  PROVE  OnScreen \in DOMAIN Tree
<1>1. front \in {Launcher, Package}
  BY DEF PreInv, PreTypeOK
<1> QED
  BY <1>1, ScreensAssumption DEF OnScreen, ScreenKnown

\* However a tap lands, the app is on a screen there is if it was on one.
LEMMA TappedKeeps ==
  ASSUME ScreenKnown, NEW to \in DOMAIN Tree, NEW lands, Tapped(to, lands)
  PROVE  ScreenKnown'
<1>1. front' = front /\ screen' \in {screen, to, Elsewhere}
  BY DEF Tapped
<1> QED
  BY <1>1, ScreensAssumption DEF ScreenKnown

\* The app's screen, one action after the other.
LEMMA ScreenKeeps ==
  ASSUME PreInv, ScreenKnown, PreNext
  PROVE  ScreenKnown'
<1>1. CASE Locks \/ Unlocks \/ Between \/ EndOfScenario \/ Verify \/ TapElement \/ Look \/ Interrupt
  <2>1. UNCHANGED <<front, screen>>
    <3>1. CASE Locks \/ Unlocks \/ Between \/ EndOfScenario
      BY <3>1 DEF Locks, Unlocks, Between, EndOfScenario, deviceVars
    <3>2. CASE Verify \/ TapElement \/ Look \/ Interrupt
      BY <3>2 DEF Verify, TapElement, Look, Interrupt, deviceVars
    <3> QED
      BY <1>1, <3>1, <3>2
  <2> QED
    BY <2>1 DEF ScreenKnown
<1>2. CASE ResetDevice \/ StopApps \/ GoHome
  <2>1. \/ front' = Launcher /\ screen' \in {screen, None}
        \/ UNCHANGED <<front, screen>>
    BY <1>2 DEF ResetDevice, StopApps, GoHome
  <2> QED
    BY <2>1, ScreensAssumption DEF ScreenKnown
<1>3. CASE Navigate
  <2>1. InScenario /\ step <= Len(Script[plan[at]]) /\ Step.act \in {"launch", "swipe"}
    BY <1>3 DEF Navigate, Walking, InScenario, Scenario
  <2>2. Step.to \in DOMAIN Tree
    BY <2>1, StepLeads
  <2>3. \/ UNCHANGED <<front, screen>>
        \/ front' = Package /\ screen' = IF screen = None THEN Step.to ELSE screen
        \/ Tapped(Step.to, screen # Elsewhere)
    BY <1>3 DEF Navigate
  <2>4. CASE UNCHANGED <<front, screen>>
    BY <2>4 DEF ScreenKnown
  <2>5. CASE front' = Package /\ screen' = IF screen = None THEN Step.to ELSE screen
    BY <2>2, <2>5, ScreensAssumption DEF ScreenKnown
  <2>6. CASE Tapped(Step.to, screen # Elsewhere)
    BY <2>2, <2>6, TappedKeeps
  <2> QED
    BY <2>3, <2>4, <2>5, <2>6
<1>4. CASE Tap \/ TapUnseen
  <2>1. InScenario /\ step <= Len(Script[plan[at]]) /\ Step.act = "tap"
    BY <1>4 DEF Tap, TapUnseen, InScenario, PreInv, Asked
  <2>2. Step.to \in DOMAIN Tree
    BY <2>1, StepLeads
  <2>3. UNCHANGED <<front, screen>> \/ Tapped(Step.to, seen.is = Step.target) \/ Tapped(Step.to, FALSE)
    BY <1>4 DEF Tap, TapUnseen
  <2>4. CASE UNCHANGED <<front, screen>>
    BY <2>4 DEF ScreenKnown
  <2> QED
    BY <2>2, <2>3, <2>4, TappedKeeps
<1> QED
  BY <1>1, <1>2, <1>3, <1>4 DEF PreNext

\* A dump has a number of nodes.
LEMMA CountIs ==
  ASSUME NEW scr \in DOMAIN Tree, NEW drawn
  PROVE  Count(Shown(scr, works, drawn)) \in Nat
<1>1. DOMAIN Shown(scr, works, drawn) \subseteq DOMAIN Tree[scr]
  BY DEF Shown
<1>2. IsFiniteSet(DOMAIN Tree[scr])
  BY ScreensAssumption
<1> QED
  BY <1>1, <1>2, FS_Subset, FS_CardinalityType DEF Count

\* Dumps that nothing stalls settle on all there is.
LEMMA SettledIs ==
  ASSUME NEW all \in Nat, NEW fails, NEW s \in Dumps(all, fails), ~Stalls(s, all)
  PROVE  Settled(s) = all
<1>1. PICK a, b, c \in {0, all \div 2, all - 1, all} : s = <<a, b, c>>
  BY DEF Dumps
<1>2. s[1] = a /\ s[2] = b /\ s[3] = c
  BY <1>1
<1>3. a \in Int /\ b \in Int /\ c \in Int /\ a <= all /\ b <= all /\ c <= all
  OBVIOUS
<1> QED
  BY <1>2, <1>3 DEF Stalls, Settled

\* No trouble now, none before, and none in this step.
LEMMA NoTrouble ==
  ASSUME NEW kinds, Unseen(kinds), unseen' = {}
  PROVE  unseen = {} /\ kinds = {}
BY DEF Unseen

\* Which target is looked for, and where.
LEMMA LookAt ==
  ASSUME PreInv, ScreenKnown, Look
  PROVE  /\ Step.target \in TargetNames /\ OnScreen \in DOMAIN Tree
         /\ UNCHANGED <<works, screen, front, locked, missed, readable, plan, at>>
         /\ readable /\ InScenario /\ step <= Len(Script[plan[at]]) /\ Step.act = "tap"
<1>1. /\ UNCHANGED <<works, screen, front, locked, missed, readable, plan, at>>
      /\ readable /\ InScenario /\ step <= Len(Script[plan[at]]) /\ Step.act = "tap"
  BY DEF Look, InScenario, PreInv, Asked
<1> QED
  BY <1>1, StepLeads, OnScreenIs

\* What a look finds by a selector has what the selectors of the target look for.
LEMMA LookSees ==
  ASSUME SelectorsAsk, PreInv, ScreenKnown, Look, phase' = "tapping", seen'.strategy = "selector"
  PROVE  Answers(Step.target)
<1>1. PICK drawn, count, r, fails :
        /\ drawn \in SUBSET SelfDrawn
        /\ r = Resolve(TargetOf[Step.target], ParseHierarchy(Shown(OnScreen, works, drawn), count))
        /\ Resolved(r, fails)
  BY LookIs
<1>2. r.strategy = "selector"
  BY <1>1 DEF Resolved
<1>3. PICK t \in TargetNames, scr \in DOMAIN Tree : t = Step.target /\ scr = OnScreen
  BY LookAt
<1>4. r = Resolve(TargetOf[t], ParseHierarchy(Shown(scr, works, drawn), count))
  BY <1>1, <1>3
<1>5. drawn \subseteq SelfDrawn
  BY <1>1
<1>6. t \in works \cup SelfDrawn \/ LookAlike(t)
  BY <1>2, <1>4, <1>5, LookTells
<1> QED
  BY <1>3, <1>6 DEF Answers

\* A look without trouble: what a selector finds is the control of the step. If that is good, and on
\* the screen, a selector finds it, unless the dump failed.
LEMMA LookHits ==
  ASSUME PreInv, ScreenKnown, Look, unseen' = {}
  PROVE  /\ unseen = {}
         /\ phase' = "tapping" => (seen'.strategy = "selector" => seen'.is = Step.target)
         /\ (~locked => \A drawn \in SUBSET SelfDrawn :
                          \E k \in DOMAIN TargetOf[Step.target].selectors :
                            Find(Shown(OnScreen, works, drawn), TargetOf[Step.target].selectors[k]) # None) =>
              \/ phase' = "tapping" /\ (seen'.strategy = "selector" \/ seen'.failed)
              \/ phase' = "walking" /\ Graded("missing", "failed")
<1>1. PICK drawn, fails, s, r :
        /\ drawn \in SUBSET SelfDrawn /\ fails \in BOOLEAN
        /\ s \in Dumps(Count(Shown(OnScreen, works, drawn)), fails)
        /\ r = Resolve(TargetOf[Step.target],
                       ParseHierarchy(Shown(OnScreen, works, drawn), IF fails THEN 0 ELSE Settled(s)))
        /\ Unseen(Mistakes(r, fails, Stalls(s, Count(Shown(OnScreen, works, drawn)))))
        /\ Resolved(r, fails)
  BY LookIs
<1> DEFINE all == Count(Shown(OnScreen, works, drawn))
           stalls == Stalls(s, all)
<1>2. unseen = {} /\ Mistakes(r, fails, stalls) = {}
  BY <1>1, NoTrouble
<1>3. PICK t \in TargetNames, scr \in DOMAIN Tree : t = Step.target /\ scr = OnScreen
  BY LookAt
<1>4. all \in Nat
  BY <1>3, CountIs
<1> HIDE DEF all, stalls
<1>5. r.strategy = "selector" => Seen(r) = Step.target
  BY <1>2 DEF Mistakes
<1>6. ~fails => ~locked /\ ~stalls
  BY <1>2 DEF Mistakes
<1>7. phase' = "tapping" => seen'.strategy = r.strategy /\ seen'.failed = fails /\ seen'.is = Seen(r)
  BY <1>1 DEF Resolved
<1>8. \/ phase' = "tapping"
      \/ r.strategy = "none" /\ phase' = "walking" /\ Graded("missing", IF fails THEN "failed" ELSE "")
  BY <1>1 DEF Resolved
<1>9. ASSUME ~locked => \A d \in SUBSET SelfDrawn :
               \E k \in DOMAIN TargetOf[Step.target].selectors :
                 Find(Shown(OnScreen, works, d), TargetOf[Step.target].selectors[k]) # None,
             ~fails
      PROVE  r.strategy = "selector"
  <2>1. Settled(s) = all
    BY <1>1, <1>4, <1>6, <1>9, SettledIs DEF all, stalls
  <2>2. r = Resolve(TargetOf[t], ParseHierarchy(Shown(scr, works, drawn), Count(Shown(scr, works, drawn))))
    BY <1>1, <1>3, <1>9, <2>1 DEF all
  <2>3. \E k \in DOMAIN TargetOf[t].selectors : Find(Shown(scr, works, drawn), TargetOf[t].selectors[k]) # None
    <3>1. \E k \in DOMAIN TargetOf[Step.target].selectors :
            Find(Shown(OnScreen, works, drawn), TargetOf[Step.target].selectors[k]) # None
      <4>1. ~locked /\ drawn \in SUBSET SelfDrawn
        BY <1>1, <1>6, <1>9
      <4> QED
        BY <1>9, <4>1
    <3> QED
      BY <1>3, <3>1, Zenon
  <2> QED
    BY <2>2, <2>3, LookFinds
<1> QED
  BY <1>2, <1>5, <1>7, <1>8, <1>9

\* Neither the selectors nor the platform change while a preflight goes on.
LEMMA PreConstants ==
  ASSUME PreNext
  PROVE  UNCHANGED <<works, readable, plan>>
<1>1. CASE Locks \/ Unlocks \/ Between \/ ResetDevice \/ EndOfScenario \/ Navigate \/ Verify
  BY <1>1 DEF Locks, Unlocks, Between, ResetDevice, EndOfScenario, Navigate, Verify, deviceVars
<1>2. CASE TapElement \/ Look
  BY <1>2 DEF TapElement, Look, deviceVars
<1>3. CASE Tap \/ TapUnseen \/ Interrupt \/ StopApps \/ GoHome
  BY <1>3 DEF Tap, TapUnseen, Interrupt, StopApps, GoHome, deviceVars
<1> QED
  BY <1>1, <1>2, <1>3 DEF PreNext

\* A grade is true if the new one is.
LEMMA HealthKeeps ==
  ASSUME HealthIsReal, UNCHANGED works, NEW status, NEW why,
         checks' = checks \/ Graded(status, why),
         status = "selector" => Answers(Step.target)
  PROVE  HealthIsReal'
<1>1. \A t : Answers(t)' <=> Answers(t)
  BY DEF Answers, SelfDrawn, TargetNames, LookAlike
<1>2. ASSUME NEW c \in checks', c.status = "selector" PROVE Answers(c.target)
  <2>1. CASE c \in checks
    BY <1>2, <2>1 DEF HealthIsReal
  <2>2. CASE c \notin checks
    BY <1>2, <2>2, GradedIs
  <2> QED
    BY <2>1, <2>2
<1> QED
  BY <1>1, <1>2 DEF HealthIsReal

\* No step makes a decayed control pass for one that works, unless another looks like it.
LEMMA DecayInvKept ==
  ASSUME SelectorsAsk, PreInv, DecayInv, PreNext
  PROVE  DecayInv'
<1>1. ScreenKnown'
  BY ScreenKeeps DEF DecayInv
<1>2. UNCHANGED works
  BY PreConstants
<1>3. \A t : Answers(t)' <=> Answers(t)
  BY <1>2 DEF Answers, SelfDrawn, TargetNames, LookAlike
<1>4. CASE Look
  <2>1. SeenIsReal'
    <3> SUFFICES ASSUME phase' = "tapping", seen'.strategy = "selector"
                 PROVE  Answers(Step.target)'
      BY DEF SeenIsReal
    <3>1. Answers(Step.target)
      BY <1>4, LookSees DEF DecayInv
    <3>2. Step' = Step
      <4>1. UNCHANGED <<plan, at>> /\ (step' = step \/ phase' = "walking")
        BY <1>4 DEF Look, Resolved
      <4> QED
        BY <4>1 DEF Step, Scenario
    <3> QED
      BY <1>3, <3>1, <3>2
  <2>2. PICK why : checks' = checks \/ Graded("missing", why)
    BY <1>4, LookEnds DEF PreInv
  <2>3. HealthIsReal'
    BY <1>2, <2>2, HealthKeeps DEF DecayInv
  <2> QED
    BY <1>1, <2>1, <2>3 DEF DecayInv
<1>5. CASE Tap
  <2>1. phase = "tapping" /\ phase' = "walking"
    BY <1>5 DEF Tap
  <2>2. PICK status \in {Status, "error"} : \E why : Graded(status, why)
    BY <1>5, TapEnds
  <2>3. status = "selector" => seen.strategy = "selector"
    BY <2>2 DEF Status
  <2>4. HealthIsReal'
    BY <1>2, <2>1, <2>2, <2>3, HealthKeeps DEF DecayInv, SeenIsReal
  <2> QED
    BY <1>1, <2>1, <2>4 DEF DecayInv, SeenIsReal
<1>6. CASE Locks \/ Unlocks
  <2>1. UNCHANGED <<phase, seen, plan, at, step, checks>>
    BY <1>6 DEF Locks, Unlocks
  <2>2. Step' = Step
    BY <2>1 DEF Step, Scenario
  <2> QED
    BY <1>1, <1>3, <2>1, <2>2 DEF DecayInv, SeenIsReal, HealthIsReal
<1>7. CASE TapElement \/ TapUnseen
  <2>1. phase' # "tapping"
    BY <1>7 DEF TapElement, TapUnseen, Walking
  <2>2. PICK status \in {"unreliable", "not_applicable"} : checks' = checks \/ \E why : Graded(status, why)
    BY <1>7 DEF TapElement, TapUnseen
  <2>3. HealthIsReal'
    BY <1>2, <2>2, HealthKeeps DEF DecayInv
  <2> QED
    BY <1>1, <2>1, <2>3 DEF DecayInv, SeenIsReal
<1>8. CASE Between \/ ResetDevice \/ EndOfScenario \/ Navigate \/ Verify \/ Interrupt \/ StopApps \/ GoHome
  <2>1. phase' # "tapping"
    BY <1>8 DEF Between, ResetDevice, EndOfScenario, Navigate, Verify, Walking, Interrupt, StopApps, GoHome
  <2>2. UNCHANGED checks
    BY <1>8 DEF Between, ResetDevice, EndOfScenario, Navigate, Verify, Interrupt, StopApps, GoHome
  <2> QED
    BY <1>1, <1>3, <2>1, <2>2 DEF DecayInv, SeenIsReal, HealthIsReal
<1> QED
  BY <1>4, <1>5, <1>6, <1>7, <1>8 DEF PreNext

\* What a step of the script does to the place of the app in it.
LEMMA ScriptLeads ==
  ASSUME NEW on, Leads(on), PreInv, InScenario, step <= Len(Script[plan[at]])
  PROVE  /\ Step.act = "launch" =>
              on[plan[at]][step + 1] = IF on[plan[at]][step] = None THEN Step.to ELSE on[plan[at]][step]
         /\ Step.act = "verify" => on[plan[at]][step + 1] = on[plan[at]][step]
         /\ Step.act \in {"swipe", "tap"} =>
              on[plan[at]][step] \in DOMAIN Tree \ {Elsewhere} /\ on[plan[at]][step + 1] = Step.to
         /\ Step.act = "tap" =>
              \A good \in SUBSET (TargetNames \ SelfDrawn), drawn \in SUBSET SelfDrawn : Step.target \in good =>
                \E k \in DOMAIN TargetOf[Step.target].selectors :
                  Find(Shown(on[plan[at]][step], good, drawn), TargetOf[Step.target].selectors[k]) # None
<1>1. plan[at] \in Names /\ step \in DOMAIN Script[plan[at]]
  BY StepLeads
<1>2. PICK n, i : n = plan[at] /\ i = step /\ n \in Names /\ i \in DOMAIN Script[n]
  BY <1>1
<1>3. Step = Script[n][i]
  BY <1>2 DEF Step, Scenario
<1>4. /\ Script[n][i].act = "launch" =>
           on[n][i + 1] = IF on[n][i] = None THEN Script[n][i].to ELSE on[n][i]
      /\ Script[n][i].act = "verify" => on[n][i + 1] = on[n][i]
      /\ Script[n][i].act \in {"swipe", "tap"} =>
           on[n][i] \in DOMAIN Tree \ {Elsewhere} /\ on[n][i + 1] = Script[n][i].to
      /\ Script[n][i].act = "tap" =>
           \A good \in SUBSET (TargetNames \ SelfDrawn), drawn \in SUBSET SelfDrawn : Script[n][i].target \in good =>
             \E k \in DOMAIN TargetOf[Script[n][i].target].selectors :
               Find(Shown(on[n][i], good, drawn), TargetOf[Script[n][i].target].selectors[k]) # None
  BY <1>2 DEF Leads
<1> QED
  BY <1>2, <1>3, <1>4

\* A scenario begins with the app stopped.
LEMMA StartsNowhere ==
  ASSUME NEW on, Leads(on), PreInv, InScenario
  PROVE  on[plan[at]][1] = None
<1>1. plan[at] \in Names
  BY DEF PreInv, PreTypeOK, Asked
<1> QED
  BY <1>1 DEF Leads

\* Where the app is when a scenario's next step begins.
LEMMA WalksOn ==
  ASSUME NEW on, phase' = "walking", UNCHANGED <<plan, at>>,
         unseen' = {} /\ readable' /\ lost' = "" =>
           /\ missed' => locked'
           /\ ~missed' => screen' = on[plan[at]][step'] /\ (screen' # None => front' = Package)
  PROVE  Walks(on)'
BY DEF Walks, OnScript

\* Without trouble a good control that is looked for where the scenario means to be is found, or its
\* own dump failed.
LEMMA GoodIsFound ==
  ASSUME NEW on, Leads(on), PreInv, ScreenKnown, FindInv(on), Look, unseen' = {}
  PROVE  /\ lost = "" /\ (~missed => OnScript(on)) /\ (missed => locked)
         /\ phase' = "tapping" => (seen'.strategy = "selector" => seen'.is = Step.target)
         /\ Step.target \in works =>
              \/ phase' = "tapping" /\ (seen'.strategy = "selector" \/ seen'.failed)
              \/ phase' = "walking" /\ Graded("missing", "failed")
<1>1. /\ unseen = {}
      /\ phase' = "tapping" => (seen'.strategy = "selector" => seen'.is = Step.target)
  BY LookHits
<1>2. readable /\ InScenario /\ step <= Len(Script[plan[at]]) /\ Step.act = "tap" /\ phase = "looking"
  BY LookAt DEF Look
<1>3. lost = "" /\ (~missed => OnScript(on)) /\ (missed => locked)
  BY <1>1, <1>2 DEF FindInv, Walks
<1>4. ASSUME Step.target \in works, ~locked, NEW drawn \in SUBSET SelfDrawn
      PROVE  \E k \in DOMAIN TargetOf[Step.target].selectors :
               Find(Shown(OnScreen, works, drawn), TargetOf[Step.target].selectors[k]) # None
  <2>1. works \in SUBSET (TargetNames \ SelfDrawn)
    BY DEF FindInv
  <2>2. /\ on[plan[at]][step] \in DOMAIN Tree
        /\ \A good \in SUBSET (TargetNames \ SelfDrawn), d \in SUBSET SelfDrawn : Step.target \in good =>
             \E k \in DOMAIN TargetOf[Step.target].selectors :
               Find(Shown(on[plan[at]][step], good, d), TargetOf[Step.target].selectors[k]) # None
    BY <1>2, ScriptLeads
  <2>3. OnScreen = on[plan[at]][step]
    BY <1>3, <1>4, <2>2, ScreensAssumption DEF OnScript, OnScreen
  <2> HIDE DEF OnScreen
  <2> QED
    BY <1>4, <2>1, <2>2, <2>3
<1>5. Step.target \in works =>
        \/ phase' = "tapping" /\ (seen'.strategy = "selector" \/ seen'.failed)
        \/ phase' = "walking" /\ Graded("missing", "failed")
  BY <1>4, LookHits
<1> QED
  BY <1>1, <1>3, <1>5

\* No step sends the app elsewhere than the scenario means to go, while there is no trouble.
LEMMA WalksKeep ==
  ASSUME NEW on, Leads(on), PreInv, ScreenKnown, FindInv(on), PreNext
  PROVE  Walks(on)'
<1>1. UNCHANGED <<works, readable>>
  BY PreConstants
<1>2. /\ Walks(on) /\ locked \in BOOLEAN /\ missed \in BOOLEAN /\ front \in {Launcher, Package}
      /\ \A kinds : Unseen(kinds) /\ unseen' = {} => unseen = {} /\ kinds = {}
  BY NoTrouble DEF FindInv, PreInv, PreTypeOK
<1>3. CASE Locks
  <2>1. locked' = TRUE /\ InScenario /\ UNCHANGED <<phase, screen, front, missed, unseen, plan, at, step, lost, seen>>
    BY <1>3 DEF Locks
  <2>2. Step' = Step
    BY <2>1 DEF Step, Scenario
  <2> QED
    BY <1>1, <1>2, <2>1, <2>2 DEF Walks, OnScript, InScenario
<1>4. CASE Unlocks
  <2>1. /\ locked' = FALSE /\ InScenario
        /\ UNCHANGED <<phase, screen, front, missed, plan, at, step, lost, seen>>
    BY <1>4 DEF Unlocks
  <2>2. Step' = Step
    BY <2>1 DEF Step, Scenario
  <2>3. ASSUME unseen' = {} PROVE unseen = {} /\ ~(missed /\ lost = "")
    <3>1. PICK kinds : Unseen(kinds) /\ (missed /\ lost = "" => kinds = {"blink"})
      BY <1>4 DEF Unlocks
    <3> QED
      BY <1>2, <2>3, <3>1
  <2> QED
    BY <1>1, <1>2, <2>1, <2>2, <2>3 DEF Walks, OnScript, InScenario
<1>5. CASE ResetDevice
  <2>1. /\ phase = "reset" /\ phase' = "walking" /\ UNCHANGED <<plan, at, step, missed>>
        /\ (front' = Launcher /\ screen' = None) \/ Unseen({"swallowed"})
    BY <1>5 DEF ResetDevice
  <2>2. step = 1 /\ ~missed /\ on[plan[at]][1] = None
    BY <2>1, StartsNowhere DEF FindInv, InScenario
  <2>3. unseen' = {} => front' = Launcher /\ screen' = None
    BY <1>2, <2>1
  <2> QED
    BY <2>1, <2>2, <2>3, WalksOn
<1>6. CASE Navigate
  <2>1. /\ InScenario /\ step <= Len(Script[plan[at]]) /\ Step.act \in {"launch", "swipe"}
        /\ phase = "walking" /\ phase' = "walking" /\ step' = step + 1
        /\ UNCHANGED <<locked, plan, at, lost>>
    BY <1>6 DEF Navigate, Walking, InScenario, Scenario
  <2>2. \/ Unseen({"swallowed"})
        \/ /\ UNCHANGED <<unseen, missed>>
           /\ Step.act = "launch"
           /\ front' = Package /\ screen' = IF screen = None THEN Step.to ELSE screen
        \/ /\ UNCHANGED unseen
           /\ Step.act = "swipe"
           /\ Tapped(Step.to, screen # Elsewhere)
    BY <1>6, <2>1 DEF Navigate
  <2> SUFFICES ASSUME unseen' = {}, readable', lost' = ""
               PROVE  /\ missed' => locked'
                      /\ ~missed' => screen' = on[plan[at]][step + 1] /\ (screen' # None => front' = Package)
    BY <2>1, WalksOn
  <2>3. unseen = {} /\ ~Unseen({"swallowed"})
    BY <1>2, <2>2
  <2>4. (missed => locked) /\ (~missed => OnScript(on))
    BY <1>1, <1>2, <2>1, <2>3 DEF Walks
  <2>5. CASE Step.act = "launch"
    <3>1. on[plan[at]][step + 1] = IF on[plan[at]][step] = None THEN Step.to ELSE on[plan[at]][step]
      BY <2>1, <2>5, ScriptLeads
    <3>2. UNCHANGED missed /\ front' = Package /\ screen' = IF screen = None THEN Step.to ELSE screen
      BY <2>2, <2>3, <2>5
    <3>3. ~missed => screen' = on[plan[at]][step + 1]
      BY <2>4, <3>1, <3>2 DEF OnScript
    <3> QED
      BY <2>1, <2>4, <3>2, <3>3
  <2>6. CASE Step.act = "swipe"
    <3>1. on[plan[at]][step] \in DOMAIN Tree \ {Elsewhere} /\ on[plan[at]][step + 1] = Step.to
      BY <2>1, <2>6, ScriptLeads
    <3>2. missed' = (missed \/ locked) /\ front' = front
          /\ screen' \in (IF locked THEN {screen} ELSE IF screen # Elsewhere THEN {Step.to} ELSE {screen, Step.to, Elsewhere})
      BY <2>2, <2>3, <2>6 DEF Tapped
    <3>3. missed' => locked'
      BY <1>2, <2>1, <2>4, <3>2
    <3>4. ASSUME ~missed' PROVE screen' = Step.to /\ front' = Package
      <4>1. ~missed /\ ~locked
        BY <1>2, <3>2, <3>4
      <4>2. screen = on[plan[at]][step] /\ screen # None /\ screen # Elsewhere /\ front = Package
        BY <2>4, <3>1, <4>1, ScreensAssumption DEF OnScript
      <4> QED
        BY <3>2, <4>1, <4>2
    <3> QED
      BY <3>1, <3>3, <3>4
  <2> QED
    BY <2>1, <2>5, <2>6
<1>7. CASE Verify
  <2>1. /\ InScenario /\ step <= Len(Script[plan[at]]) /\ Step.act = "verify"
        /\ phase = "walking" /\ phase' = "walking" /\ step' = step + 1
        /\ UNCHANGED <<screen, front, unseen, missed, locked, plan, at, lost>>
    BY <1>7 DEF Verify, Walking, InScenario, Scenario, deviceVars
  <2> SUFFICES ASSUME unseen' = {}, readable', lost' = ""
               PROVE  /\ missed => locked
                      /\ ~missed => screen = on[plan[at]][step + 1] /\ (screen # None => front = Package)
    BY <2>1, WalksOn
  <2>2. (missed => locked) /\ (~missed => OnScript(on))
    BY <1>1, <1>2, <2>1 DEF Walks
  <2>3. on[plan[at]][step + 1] = on[plan[at]][step]
    BY <2>1, ScriptLeads
  <2> QED
    BY <2>1, <2>2, <2>3 DEF OnScript
<1>8. CASE TapElement
  <2>1. phase = "walking" /\ UNCHANGED <<screen, front, unseen, missed, locked, plan, at>>
    BY <1>8 DEF TapElement, Walking, deviceVars
  <2>2. lost' = lost \/ lost' = "locked"
    BY <1>8 DEF TapElement
  <2>3. IF lost' # "" THEN phase' = "walking" ELSE phase' = "looking" /\ UNCHANGED step
    BY <1>8 DEF TapElement, Walking
  <2>4. CASE lost' # ""
    BY <2>1, <2>3, <2>4, WalksOn
  <2>5. CASE lost' = ""
    <3>1. lost = "" /\ phase' = "looking" /\ step' = step
      BY <2>2, <2>3, <2>5
    <3>2. unseen = {} /\ readable => (missed => locked) /\ (~missed => OnScript(on))
      BY <1>2, <2>1, <3>1 DEF Walks, InScenario
    <3> QED
      BY <1>1, <2>1, <2>5, <3>1, <3>2 DEF Walks, OnScript, InScenario
  <2> QED
    BY <2>4, <2>5
<1>9. CASE Look
  <2>1. UNCHANGED <<screen, front, missed, locked, plan, at>> /\ phase = "looking" /\ readable
    BY <1>9 DEF Look
  <2>2. \/ lost' = "untapped" /\ phase' = "walking"
        \/ phase' = "tapping" /\ UNCHANGED <<checks, lost, step>>
    BY <1>9, LookEnds DEF PreInv
  <2>3. CASE lost' = "untapped" /\ phase' = "walking"
    BY <2>1, <2>3, WalksOn
  <2>4. CASE phase' = "tapping" /\ UNCHANGED <<checks, lost, step>>
    <3>1. Step' = Step
      BY <2>1, <2>4 DEF Step, Scenario
    <3> SUFFICES ASSUME unseen' = {}
                 PROVE  /\ lost = "" /\ (~missed => OnScript(on)) /\ (missed => locked)
                        /\ seen'.strategy = "selector" => seen'.is = Step.target
                        /\ Step.target \in works => seen'.strategy = "selector" \/ seen'.failed
      BY <1>1, <2>1, <2>4, <3>1 DEF Walks, OnScript, InScenario
    <3> QED
      BY <1>9, <2>4, GoodIsFound
  <2> QED
    BY <2>2, <2>3, <2>4
<1>10. CASE Tap
  <2>1. /\ InScenario /\ step <= Len(Script[plan[at]]) /\ Step.act = "tap"
        /\ phase = "tapping" /\ phase' = "walking" /\ step' = step + 1 /\ UNCHANGED <<locked, unseen, plan, at>>
    BY <1>10 DEF Tap, InScenario, PreInv, Asked
  <2>2. \/ lost' = LosesScreen(Status) /\ Tapped(Step.to, seen.is = Step.target)
        \/ lost' = LosesScreen("error")
    BY <1>10, TapEnds
  <2> SUFFICES ASSUME unseen' = {}, readable', lost' = ""
               PROVE  /\ missed' => locked'
                      /\ ~missed' => screen' = on[plan[at]][step + 1] /\ (screen' # None => front' = Package)
    BY <2>1, WalksOn
  <2>3. Status = "selector" /\ Tapped(Step.to, seen.is = Step.target)
    BY <2>2 DEF LosesScreen, Status
  <2>4. seen.strategy = "selector"
    BY <2>3 DEF Status
  <2>5. seen.is = Step.target /\ lost = "" /\ (missed => locked) /\ (~missed => OnScript(on))
    BY <1>1, <1>2, <2>1, <2>4 DEF Walks
  <2>6. on[plan[at]][step] \in DOMAIN Tree \ {Elsewhere} /\ on[plan[at]][step + 1] = Step.to
    BY <2>1, ScriptLeads
  <2>7. missed' = (missed \/ locked) /\ front' = front /\ (~locked => screen' = Step.to)
    BY <2>3, <2>5 DEF Tapped
  <2>8. ASSUME ~missed' PROVE screen' = Step.to /\ front' = Package
    <3>1. ~missed /\ ~locked
      BY <1>2, <2>7, <2>8
    <3>2. front = Package
      BY <2>5, <2>6, <3>1, ScreensAssumption DEF OnScript
    <3> QED
      BY <2>7, <3>1, <3>2
  <2> QED
    BY <1>2, <2>1, <2>5, <2>6, <2>7, <2>8
<1>11. CASE TapUnseen
  <2>1. readable' = FALSE
    BY <1>1, <1>11 DEF TapUnseen, PreInv, PreTypeOK
  <2> QED
    BY <2>1 DEF Walks
<1>12. CASE Between
  <2>1. phase' \in {"reset", "quiet"} /\ (phase' = "reset" => missed' = FALSE)
    BY <1>12 DEF Between
  <2> QED
    BY <2>1 DEF Walks, InScenario
<1>13. CASE EndOfScenario \/ Interrupt \/ StopApps \/ GoHome
  <2>1. phase' \in {"between", "quiet", "home", "done"}
    BY <1>13 DEF EndOfScenario, Interrupt, StopApps, GoHome
  <2> QED
    BY <2>1 DEF Walks, InScenario
<1> QED
  BY <1>3, <1>4, <1>5, <1>6, <1>7, <1>8, <1>9, <1>10, <1>11, <1>12, <1>13 DEF PreNext

\* A grade of a good control is fine if the new one is.
LEMMA GradesKeep ==
  ASSUME GradesAreReal, UNCHANGED <<works, readable>>, unseen' = {} => unseen = {}, NEW status, NEW why,
         checks' = checks \/ Graded(status, why),
         unseen' = {} /\ Step.target \in works =>
           status \in {"unreliable", IF readable THEN "selector" ELSE "not_applicable"} \/ why = "failed"
  PROVE  GradesAreReal'
<1>1. \A c : Fine(c)' <=> Fine(c)
  BY DEF Fine
<1>2. ASSUME unseen' = {}, NEW c \in checks', c.target \in works PROVE Fine(c)
  <2>1. CASE c \in checks
    BY <1>2, <2>1 DEF GradesAreReal
  <2>2. CASE c \notin checks
    <3>1. c.target = Step.target /\ c.status = status /\ c.why = why
      BY <1>2, <2>2, GradedIs
    <3> QED
      BY <1>2, <3>1 DEF Fine
  <2> QED
    BY <2>1, <2>2
<1> QED
  BY <1>1, <1>2 DEF GradesAreReal

\* Nor does a step grade a good control as if it needed attention, unless its own dump or tap failed.
LEMMA GradesStayReal ==
  ASSUME NEW on, Leads(on), PreInv, ScreenKnown, FindInv(on), PreNext
  PROVE  GradesAreReal'
<1>1. UNCHANGED <<works, readable>> /\ GradesAreReal
  BY PreConstants DEF FindInv
<1>2. \A kinds : Unseen(kinds) /\ unseen' = {} => unseen = {}
  BY NoTrouble
<1>3. CASE \/ Locks \/ Unlocks \/ Between \/ ResetDevice \/ EndOfScenario \/ Navigate \/ Verify
           \/ Interrupt \/ StopApps \/ GoHome
  <2>1. UNCHANGED checks /\ (unseen' = {} => unseen = {})
    <3>1. CASE Locks \/ Unlocks \/ Between \/ ResetDevice \/ EndOfScenario
      BY <1>2, <3>1 DEF Locks, Unlocks, Between, ResetDevice, EndOfScenario, deviceVars
    <3>2. CASE Navigate \/ Verify \/ Interrupt \/ StopApps \/ GoHome
      BY <1>2, <3>2 DEF Navigate, Verify, Interrupt, StopApps, GoHome, deviceVars
    <3> QED
      BY <1>3, <3>1, <3>2
  <2> QED
    BY <1>1, <2>1 DEF GradesAreReal, Fine
<1>4. CASE TapElement
  <2>1. (UNCHANGED checks \/ Graded("unreliable", lost')) /\ UNCHANGED unseen
    BY <1>4 DEF TapElement, deviceVars
  <2> QED
    BY <1>1, <2>1, GradesKeep
<1>5. CASE Look
  <2>1. unseen' = {} => unseen = {}
    BY <1>5, LookHits
  <2>2. CASE phase' = "tapping" /\ UNCHANGED <<checks, lost, step>>
    BY <1>1, <2>1, <2>2 DEF GradesAreReal, Fine
  <2>3. ASSUME NEW why, Graded("missing", why), phase' = "walking" PROVE GradesAreReal'
    <3>1. ASSUME unseen' = {}, Step.target \in works PROVE Graded("missing", "failed")
      BY <1>5, <2>3, <3>1, GoodIsFound
    <3>2. CASE unseen' = {} /\ Step.target \in works
      BY <1>1, <2>1, <3>1, <3>2, GradesKeep
    <3>3. CASE ~(unseen' = {} /\ Step.target \in works)
      BY <1>1, <2>1, <2>3, <3>3, GradesKeep
    <3> QED
      BY <3>2, <3>3
  <2> QED
    BY <1>5, <2>2, <2>3, LookEnds DEF PreInv
<1>6. CASE Tap
  <2>1. phase = "tapping" /\ UNCHANGED unseen /\ readable
    BY <1>6 DEF Tap, FindInv
  <2>2. CASE Graded("error", "failed")
    BY <1>1, <2>1, <2>2, GradesKeep
  <2>3. CASE Graded(Status, IF seen.failed THEN "failed" ELSE "")
    <3>1. PICK why : why = IF seen.failed THEN "failed" ELSE ""
      OBVIOUS
    <3>2. ASSUME unseen' = {}, Step.target \in works PROVE Status = "selector" \/ why = "failed"
      <4>1. seen.strategy = "selector" \/ seen.failed
        BY <2>1, <3>2 DEF FindInv, Walks
      <4> QED
        BY <3>1, <4>1 DEF Status
    <3> QED
      BY <1>1, <2>1, <2>3, <3>1, <3>2, GradesKeep
  <2> QED
    BY <1>6, <2>2, <2>3, TapEnds
<1>7. CASE TapUnseen
  <2>1. Graded("not_applicable", "") /\ ~readable /\ UNCHANGED unseen
    BY <1>7 DEF TapUnseen
  <2> QED
    BY <1>1, <2>1, GradesKeep
<1> QED
  BY <1>3, <1>4, <1>5, <1>6, <1>7 DEF PreNext

LEMMA FindInvKept ==
  ASSUME NEW on, Leads(on), PreInv, ScreenKnown, FindInv(on), PreNext
  PROVE  FindInv(on)'
<1>1. Walks(on)' /\ GradesAreReal' /\ UNCHANGED <<works, readable>>
  BY WalksKeep, GradesStayReal, PreConstants
<1>2. (phase' = "reset" => step' = 1 /\ ~missed') /\ (phase' = "tapping" => readable')
  <2>1. CASE Between
    BY <2>1 DEF Between
  <2>2. CASE Locks \/ Unlocks
    <3>1. UNCHANGED <<phase, step, missed, readable>>
      BY <2>2 DEF Locks, Unlocks
    <3> QED
      BY <3>1 DEF FindInv
  <2>3. CASE ResetDevice \/ EndOfScenario \/ Navigate \/ Verify \/ TapElement
    BY <2>3 DEF ResetDevice, EndOfScenario, Navigate, Verify, TapElement, Walking
  <2>4. CASE Look
    <3>1. readable /\ readable' = readable /\ phase' \in {"walking", "tapping"}
      BY <2>4, LookEnds DEF Look, PreInv
    <3> QED
      BY <3>1
  <2>5. CASE Tap \/ TapUnseen \/ Interrupt \/ StopApps \/ GoHome
    BY <2>5 DEF Tap, TapUnseen, Interrupt, StopApps, GoHome
  <2> QED
    BY <2>1, <2>2, <2>3, <2>4, <2>5 DEF PreNext
<1> QED
  BY <1>1, <1>2 DEF FindInv, TargetNames, SelfDrawn

\* A preflight begins with nothing graded, and the app not in front.
LEMMA DecayInvInit == PreInit => DecayInv
BY ScreensAssumption DEF PreInit, DecayInv, ScreenKnown, SeenIsReal, HealthIsReal

LEMMA FindInvInit == ASSUME NEW on PROVE PreInit => FindInv(on)
BY DEF PreInit, FindInv, Walks, GradesAreReal, InScenario

LEMMA DecayInvStutter == ASSUME DecayInv, UNCHANGED preVars PROVE DecayInv'
<1>1. UNCHANGED <<works, front, screen, plan, at, step, seen, phase, checks>>
  BY DEF preVars
<1>2. Step' = Step /\ \A t : Answers(t)' <=> Answers(t)
  BY <1>1 DEF Step, Scenario, Answers, SelfDrawn, TargetNames, LookAlike
<1> QED
  BY <1>1, <1>2 DEF DecayInv, ScreenKnown, SeenIsReal, HealthIsReal

LEMMA FindInvStutter == ASSUME NEW on, FindInv(on), UNCHANGED preVars PROVE FindInv(on)'
<1>1. UNCHANGED <<works, front, screen, locked, missed, unseen, readable, plan, at, step, lost, seen, phase, checks>>
  BY DEF preVars
<1>2. Step' = Step
  BY <1>1 DEF Step, Scenario
<1> QED
  BY <1>1, <1>2 DEF FindInv, Walks, OnScript, InScenario, GradesAreReal, Fine, TargetNames, SelfDrawn

\* With any table of selectors that look for something, and any screens: a decayed control is never
\* reported as healthy, whatever was on the screen when it was looked for, unless another has what
\* its selectors look for, where a short label may well be part of a longer one (uiauto.py:164-181,
\* 234-254).
THEOREM DecayIsNeverHealthy ==
  ASSUME SelectorsAsk
  PROVE  PreSpec => []DecayIsReported
<1>1. PreInv /\ DecayInv /\ [PreNext]_preVars => DecayInv'
  BY DecayInvKept, DecayInvStutter
<1>2. DecayInv => DecayIsReported
  <2> SUFFICES ASSUME DecayInv, NEW t \in ByTarget, Healthy(t)
               PROVE  t \in works \/ TargetOf[t].drawn \/ LookAlike(t)
    BY DEF DecayIsReported
  <2>1. "selector" \in Statuses(t)
    BY DEF Healthy
  <2>2. PICK c \in checks : c.target = t /\ c.status = "selector"
    BY <2>1 DEF Statuses
  <2>3. Answers(t)
    BY <2>2 DEF DecayInv, HealthIsReal
  <2> QED
    BY <2>3 DEF Answers, SelfDrawn
<1> QED
  BY <1>1, <1>2, PreInvInit, PreInvKept, DecayInvInit, PTL DEF PreSpec

\* With any table and any scenarios that lead where they mean to go: unless there was trouble that no
\* read of the device shows, a target is reported as needing attention only when its control has
\* decayed, or its own dump or tap failed, whether the device locked and was unlocked, was tapped
\* blind on the way, or could not be dumped before, and wherever that led (preflight.py:65-80,
\* 219-249, 282-308).
THEOREM AttentionIsDeserved ==
  ASSUME NEW on, Leads(on)
  PROVE  PreSpec => []FindingsAreReal
<1>1. PreInv /\ ScreenKnown /\ [PreNext]_preVars => ScreenKnown'
  BY ScreenKeeps DEF preVars, ScreenKnown
<1>2. PreInv /\ ScreenKnown /\ FindInv(on) /\ [PreNext]_preVars => FindInv(on)'
  BY FindInvKept, FindInvStutter
<1>3. FindInv(on) => FindingsAreReal
  <2> SUFFICES ASSUME FindInv(on), unseen = {}, NEW t \in ByTarget, NeedsAttention(t), t \in works,
                      \A c \in checks : c.target = t => c.why # "failed"
               PROVE  FALSE
    BY DEF FindingsAreReal
  <2> DEFINE g == IF readable THEN "selector" ELSE "not_applicable"
  <2>1. \A c \in checks : c.target = t => c.status \in {"unreliable", g}
    BY DEF FindInv, GradesAreReal, Fine
  <2>2. Statuses(t) \subseteq {g}
    BY <2>1 DEF Statuses
  <2>3. Statuses(t) = {} \/ Statuses(t) = {g}
    BY <2>2
  <2> QED
    BY <2>3 DEF NeedsAttention, Ungraded, Healthy, NotApplicable
<1>4. PreInit => FindInv(on)
  BY FindInvInit
<1>5. PreInit => ScreenKnown
  BY DecayInvInit DEF DecayInv
<1> QED
  BY <1>1, <1>2, <1>3, <1>4, <1>5, PreInvInit, PreInvKept, PTL DEF PreSpec

-----------------------------------------------------------------------------
(* A preflight: why it leaves a target ungraded. *)

(* Before its j-th step the i-th scenario taps a target that is not good.  *)
DecayedBefore(i, j) ==
  \E k \in TapsOf(plan[i]) : k < j /\ Script[plan[i]][k].target \notin works

Past(i, j) == Through(i) \/ (InScenario /\ i = at /\ j < step)

(* As long as nothing failed, locked or gave trouble: a screen is lost     *)
(* behind a target that is not good, and so is a target that is ungraded.  *)
Accounted ==
  Untroubled =>
    /\ InScenario /\ lost # "" => DecayedBefore(at, step)
    /\ \A i \in 1 .. Len(plan) : \A j \in TapsOf(plan[i]) :
         Past(i, j) /\ Ungraded(Script[plan[i]][j].target) => DecayedBefore(i, j)

\* A report only grows, and a preflight does not get out of trouble.
LEMMA ReportGrows ==
  ASSUME PreInv, PreNext
  PROVE  /\ checks \subseteq checks' /\ UNCHANGED <<works, plan, readable>>
         /\ Untroubled' => Untroubled
         /\ \A t : Ungraded(t)' => Ungraded(t)
<1>1. checks \subseteq checks'
  <2>1. CASE \/ Locks \/ Unlocks \/ Between \/ ResetDevice \/ EndOfScenario \/ Navigate \/ Verify
             \/ Interrupt \/ StopApps \/ GoHome
    <3>1. checks' = checks
      BY <2>1 DEF Locks, Unlocks, Between, ResetDevice, EndOfScenario, Navigate, Verify, Interrupt, StopApps, GoHome
    <3> QED
      BY <3>1
  <2>2. CASE TapElement
    <3>1. checks' = checks \/ Graded("unreliable", lost')
      BY <2>2 DEF TapElement
    <3> QED
      BY <3>1, GradedIs
  <2>3. CASE Look
    <3>1. checks' = checks \/ \E why : Graded("missing", why)
      BY <2>3, LookEnds DEF PreInv
    <3> QED
      BY <3>1, GradedIs
  <2>4. CASE Tap
    BY <2>4, TapEnds, GradedIs
  <2>5. CASE TapUnseen
    <3>1. Graded("not_applicable", "")
      BY <2>5 DEF TapUnseen
    <3> QED
      BY <3>1, GradedIs
  <2> QED
    BY <2>1, <2>2, <2>3, <2>4, <2>5 DEF PreNext
<1>2. unseen' = {} => unseen = {}
  <2>1. unseen \subseteq unseen'
    <3>1. CASE UNCHANGED unseen
      BY <3>1
    <3>2. CASE \E kinds : Unseen(kinds)
      BY <3>2 DEF Unseen
    <3>3. (UNCHANGED unseen) \/ \E kinds : Unseen(kinds)
      <4>1. CASE Look
        BY <4>1, LookIs
      <4>2. CASE Locks \/ Between \/ EndOfScenario \/ Verify \/ TapElement \/ Tap \/ TapUnseen \/ Interrupt
                 \/ StopApps \/ GoHome
        BY <4>2 DEF Locks, Between, EndOfScenario, Verify, TapElement, Tap, TapUnseen, Interrupt, StopApps,
                    GoHome, deviceVars
      <4>3. CASE Unlocks \/ ResetDevice \/ Navigate
        BY <4>3 DEF Unlocks, ResetDevice, Navigate
      <4> QED
        BY <4>1, <4>2, <4>3 DEF PreNext
    <3> QED
      BY <3>1, <3>2, <3>3
  <2> QED
    BY <2>1
<1>3. UNCHANGED <<works, plan, readable>>
  BY PreConstants
<1>4. Untroubled' => Untroubled
  BY <1>1, <1>2, <1>3 DEF Untroubled
<1>5. \A t : Ungraded(t)' => Ungraded(t)
  <2> TAKE t
  <2>1. Statuses(t) \subseteq Statuses(t)'
    BY <1>1 DEF Statuses
  <2> QED
    BY <2>1 DEF Ungraded
<1> QED
  BY <1>1, <1>3, <1>4, <1>5

\* What a preflight is past at the end of a scenario, and what it gets past by one step.
LEMMA JustPast ==
  ASSUME PreTypeOK, NEW i \in 1 .. Len(plan), NEW j \in TapsOf(plan[i]), ~Past(i, j)
  PROVE  /\ ~Through(i) /\ ~(InScenario /\ i = at /\ step > Len(Script[plan[at]]))
         /\ i = at' /\ j < step' /\ (step' = 1 \/ (at' = at /\ InScenario /\ step' \in {step, step + 1})) =>
              at' = at /\ InScenario /\ step' = step + 1 /\ j = step
<1>1. plan[i] \in Names /\ step \in Nat \ {0}
  BY DEF PreTypeOK
<1>2. Script[plan[i]] \in Seq(Steps)
  BY <1>1, ScriptsAssumption DEF Names
<1>3. j \in Nat \ {0} /\ j <= Len(Script[plan[i]]) /\ Len(Script[plan[i]]) \in Nat
  BY <1>2 DEF TapsOf
<1>4. ~Through(i) /\ ~(InScenario /\ i = at /\ j < step)
  BY DEF Past
<1>5. ~(InScenario /\ i = at /\ step > Len(Script[plan[at]]))
  BY <1>1, <1>3, <1>4
<1>6. ASSUME i = at', j < step', step' = 1 \/ (at' = at /\ InScenario /\ step' \in {step, step + 1})
      PROVE  at' = at /\ InScenario /\ step' = step + 1 /\ j = step
  <2>1. at' = at /\ InScenario /\ step' \in {step, step + 1}
    BY <1>3, <1>6
  <2> QED
    BY <1>1, <1>3, <1>4, <1>6, <2>1
<1> QED
  BY <1>4, <1>5, <1>6

\* A tap that a preflight is past only now is the one at hand: it has been graded, or lies behind a
\* target that is not good.
LEMMA AccountedOn ==
  ASSUME PreInv, Accounted, PreNext,
         \A i \in 1 .. Len(plan) :
           Through(i)' => Through(i) \/ (InScenario /\ i = at /\ step > Len(Script[plan[at]])),
         InScenario' => step' = 1 \/ (at' = at /\ InScenario /\ step' \in {step, step + 1}),
         Untroubled' /\ InScenario' /\ lost' # "" => DecayedBefore(at, step)',
         \A t : Untroubled' /\ InScenario /\ step' = step + 1 /\ step \in TapsOf(plan[at]) /\ t = Step.target
                  /\ Ungraded(t)' => DecayedBefore(at, step)
  PROVE  Accounted'
<1>1. UNCHANGED <<works, plan>> /\ Untroubled' => Untroubled
  BY ReportGrows
<1>2. \A t : Ungraded(t)' => Ungraded(t)
  BY ReportGrows
<1>3. UNCHANGED plan /\ \A i, j : DecayedBefore(i, j)' <=> DecayedBefore(i, j)
  BY ReportGrows DEF DecayedBefore, TapsOf
<1>4. \A i, j, t : Ungraded(Script[plan[i]][j].target)' /\ t = Script[plan[i]][j].target => Ungraded(t)'
  BY <1>3 DEF Ungraded, Statuses
<1>5. ASSUME Untroubled', NEW i \in 1 .. Len(plan), NEW j \in TapsOf(plan[i]), Past(i, j)',
             NEW t, t = Script[plan[i]][j].target, Ungraded(t)'
      PROVE  DecayedBefore(i, j)
  <2>1. Untroubled /\ Ungraded(t)
    BY <1>2, <1>5, ReportGrows
  <2>2. CASE Past(i, j)
    BY <1>5, <2>1, <2>2 DEF Accounted
  <2>3. CASE ~Past(i, j)
    <3>1. PreTypeOK
      BY DEF PreInv
    <3>2. ~Through(i)'
      BY <2>3, <3>1, JustPast
    <3>3. InScenario' /\ i = at' /\ j < step'
      BY <1>5, <3>2 DEF Past
    <3>4. step' = 1 \/ (at' = at /\ InScenario /\ step' \in {step, step + 1})
      BY <3>3
    <3>5. at' = at /\ InScenario /\ step' = step + 1 /\ j = step
      BY <2>3, <3>1, <3>3, <3>4, JustPast
    <3>6. t = Step.target /\ step \in TapsOf(plan[at])
      BY <1>5, <3>3, <3>5 DEF Step, Scenario
    <3> QED
      BY <1>5, <3>3, <3>5, <3>6
  <2> QED
    BY <2>2, <2>3
<1>6. ASSUME Untroubled'
      PROVE  \A i \in (1 .. Len(plan))' : \A j \in TapsOf(plan[i])' :
               Past(i, j)' /\ Ungraded(Script[plan[i]][j].target)' => DecayedBefore(i, j)'
  <2>1. (1 .. Len(plan))' = 1 .. Len(plan) /\ \A i : TapsOf(plan[i])' = TapsOf(plan[i])
    BY <1>3 DEF TapsOf
  <2> SUFFICES ASSUME NEW i \in 1 .. Len(plan), NEW j \in TapsOf(plan[i]), Past(i, j)',
                      Ungraded(Script[plan[i]][j].target)'
               PROVE  DecayedBefore(i, j)
    BY <1>3, <2>1
  <2>2. PICK t : t = Script[plan[i]][j].target
    OBVIOUS
  <2>3. Ungraded(t)'
    BY <1>4, <2>2
  <2> QED
    BY <1>5, <1>6, <2>2, <2>3
<1> QED
  BY <1>6 DEF Accounted

\* Which checks leave a preflight untroubled, and which a target ungraded.
LEMMA GradedTells ==
  ASSUME NEW status, NEW why, Graded(status, why)
  PROVE  /\ Untroubled' => why \notin {"failed", "locked"}
         /\ status # "unreliable" => \A t : t = Step.target => ~Ungraded(t)'
<1>1. PICK c \in checks' : c.target = Step.target /\ c.status = status /\ c.why = why
  BY GradedIs
<1>2. Untroubled' => why \notin {"failed", "locked"}
  BY <1>1 DEF Untroubled
<1>3. ASSUME status # "unreliable", NEW t, t = Step.target PROVE ~Ungraded(t)'
  <2>1. status \in Statuses(t)'
    BY <1>1, <1>3 DEF Statuses
  <2> QED
    BY <2>1 DEF Ungraded
<1> QED
  BY <1>2, <1>3

\* What is behind a target that is not good stays so from step to step.
LEMMA BehindStays ==
  ASSUME PreTypeOK, at > 0, UNCHANGED <<works, plan, at>>, step' \in {step, step + 1},
         \/ DecayedBefore(at, step)
         \/ step' = step + 1 /\ step \in TapsOf(plan[at]) /\ Step.target \notin works
  PROVE  DecayedBefore(at, step)'
<1>1. plan[at] \in Names /\ step \in Nat
  BY DEF PreTypeOK
<1>2. Script[plan[at]] \in Seq(Steps)
  BY <1>1, ScriptsAssumption DEF Names
<1>3. \A k \in TapsOf(plan[at]) : k \in Nat
  BY <1>2 DEF TapsOf
<1>4. PICK k \in TapsOf(plan[at]) : k < step' /\ Script[plan[at]][k].target \notin works
  <2>1. CASE DecayedBefore(at, step)
    BY <1>1, <1>3, <2>1 DEF DecayedBefore
  <2>2. CASE step' = step + 1 /\ step \in TapsOf(plan[at]) /\ Step.target \notin works
    BY <1>1, <2>2 DEF Step, Scenario
  <2> QED
    BY <2>1, <2>2
<1> QED
  BY <1>4 DEF DecayedBefore, TapsOf

\* A step within a scenario: the screen is lost there only at a target that is not good, and a target
\* is left ungraded only when the screen was lost before.
LEMMA AccountedWithin ==
  ASSUME PreInv, Accounted, PreNext, InScenario, InScenario', UNCHANGED at, step' \in {step, step + 1},
         Untroubled' /\ lost' # "" =>
           lost # "" \/ (step' = step + 1 /\ step \in TapsOf(plan[at]) /\ Step.target \notin works),
         \A t : Untroubled' /\ step' = step + 1 /\ step \in TapsOf(plan[at]) /\ t = Step.target /\ Ungraded(t)' =>
                  lost # ""
  PROVE  Accounted'
<1>1. UNCHANGED <<works, plan>> /\ Untroubled' => Untroubled
  BY ReportGrows
<1>2. UNCHANGED <<works, plan>> /\ PreTypeOK /\ at > 0
  BY ReportGrows DEF PreInv, Asked
<1>3. \A i \in 1 .. Len(plan) : Through(i)' => Through(i)
  BY DEF Through, InScenario
<1>4. Untroubled' => Untroubled /\ (lost # "" => DecayedBefore(at, step))
  BY ReportGrows DEF Accounted
<1>5. ASSUME Untroubled', lost' # "" PROVE DecayedBefore(at, step)'
  BY <1>2, <1>4, <1>5, BehindStays
<1> QED
  BY <1>3, <1>4, <1>5, AccountedOn

LEMMA AccountedKept ==
  ASSUME NEW on, Leads(on), PreInv, ScreenKnown, FindInv(on), Accounted, PreNext
  PROVE  Accounted'
<1>1. step \in Nat \ {0} /\ at \in Nat
  BY DEF PreInv, PreTypeOK
<1>2. CASE Locks \/ Unlocks \/ ResetDevice
  <2>1. InScenario /\ InScenario' /\ UNCHANGED <<at, step, lost>>
    BY <1>2 DEF Locks, Unlocks, ResetDevice, InScenario
  <2>2. step' # step + 1
    BY <1>1, <2>1
  <2> QED
    BY <2>1, <2>2, AccountedWithin
<1>3. CASE Navigate \/ Verify
  <2>1. InScenario /\ InScenario' /\ UNCHANGED <<at, lost>> /\ step' = step + 1 /\ Step.act # "tap"
    BY <1>3 DEF Navigate, Verify, Walking, InScenario
  <2>2. step \notin TapsOf(plan[at])
    BY <2>1 DEF TapsOf, Step, Scenario
  <2> QED
    BY <2>1, <2>2, AccountedWithin
<1>4. CASE TapElement
  <2>1. InScenario /\ UNCHANGED at /\ phase' \in {"walking", "looking"} /\ lost' \in {lost, "locked"}
    BY <1>4 DEF TapElement, Walking, InScenario
  <2>2. InScenario'
    BY <2>1 DEF InScenario
  <2>3. CASE lost' # ""
    <3>1. Graded("unreliable", lost') /\ step' = step + 1
      BY <1>4, <2>3 DEF TapElement
    <3>2. Untroubled' => lost' # "locked"
      BY <3>1, GradedTells
    <3>3. Untroubled' => lost # ""
      BY <2>1, <2>3, <3>2
    <3> QED
      BY <2>1, <2>2, <3>1, <3>3, AccountedWithin
  <2>4. CASE lost' = ""
    <3>1. step' = step
      BY <1>4, <2>4 DEF TapElement
    <3>2. step' # step + 1
      BY <1>1, <3>1
    <3> QED
      BY <2>1, <2>2, <2>4, <3>1, <3>2, AccountedWithin
  <2> QED
    BY <2>3, <2>4
<1>5. CASE Look
  <2>1. InScenario /\ UNCHANGED at
    BY <1>5 DEF Look, InScenario
  <2>2. CASE phase' = "tapping" /\ UNCHANGED <<checks, lost, step>>
    <3>1. InScenario' /\ step' # step + 1
      BY <1>1, <2>2 DEF InScenario
    <3> QED
      BY <2>1, <2>2, <3>1, AccountedWithin
  <2>3. ASSUME NEW why, Graded("missing", why), step' = step + 1, phase' = "walking"
        PROVE  Accounted'
    <3>1. InScenario' /\ step \in TapsOf(plan[at])
      <4>1. plan[at] \in Names /\ step \in DOMAIN Script[plan[at]] /\ Step.act = "tap"
        BY <1>5, StepIs, <1>1 DEF PreInv, Asked, Look, InScenario
      <4> QED
        BY <2>3, <4>1 DEF InScenario, TapsOf, Step, Scenario
    <3>2. \A t : t = Step.target => ~Ungraded(t)'
      BY <2>3, GradedTells
    <3>3. Untroubled' => Step.target \notin works
      <4>1. ASSUME Untroubled', Step.target \in works PROVE Graded("missing", "failed")
        <5>1. unseen' = {}
          BY <4>1 DEF Untroubled
        <5> QED
          BY <1>5, <2>3, <4>1, <5>1, GoodIsFound
      <4> QED
        BY <4>1, GradedTells
    <3> QED
      BY <2>1, <2>3, <3>1, <3>2, <3>3, AccountedWithin
  <2> QED
    BY <1>5, <2>2, <2>3, LookEnds DEF PreInv
<1>6. CASE Tap
  <2>1. /\ InScenario /\ InScenario' /\ UNCHANGED at /\ step' = step + 1 /\ phase = "tapping"
        /\ UNCHANGED <<unseen, readable>>
    BY <1>6 DEF Tap, InScenario
  <2>2. step \in TapsOf(plan[at])
    <3>1. plan[at] \in Names /\ step \in DOMAIN Script[plan[at]] /\ Step.act = "tap"
      BY <1>1, <2>1, StepIs DEF PreInv, Asked
    <3> QED
      BY <3>1 DEF TapsOf, Step, Scenario
  <2>3. ASSUME NEW status, NEW why, Graded(status, why), status # "unreliable",
               Untroubled' /\ lost' # "" => lost # "" \/ Step.target \notin works
        PROVE  Accounted'
    <3>1. \A t : t = Step.target => ~Ungraded(t)'
      BY <2>3, GradedTells
    <3> QED
      BY <2>1, <2>2, <2>3, <3>1, AccountedWithin
  <2>4. CASE Graded("error", "failed")
    <3>1. ~Untroubled'
      BY <2>4, GradedTells
    <3> QED
      BY <2>3, <2>4, <3>1
  <2>5. CASE Graded(Status, IF seen.failed THEN "failed" ELSE "") /\ lost' = LosesScreen(Status)
    <3>1. PICK why : why = IF seen.failed THEN "failed" ELSE ""
      OBVIOUS
    <3>2. Status # "unreliable"
      BY DEF Status
    <3>3. ASSUME Untroubled', lost' # "" PROVE Step.target \notin works
      <4>1. unseen = {} /\ readable
        BY <2>1, <3>3 DEF Untroubled
      <4>2. Step.target \in works => seen.strategy = "selector" \/ seen.failed
        BY <2>1, <4>1 DEF FindInv, Walks
      <4>3. ~seen.failed
        BY <2>5, <3>1, <3>3, GradedTells
      <4>4. seen.strategy # "selector"
        BY <2>5, <3>3 DEF Status, LosesScreen
      <4> QED
        BY <4>2, <4>3, <4>4
    <3> QED
      BY <2>3, <2>5, <3>1, <3>2, <3>3
  <2> QED
    BY <1>6, <2>4, <2>5, TapEnds
<1>7. CASE TapUnseen
  <2>1. ~Untroubled'
    <3>1. ~readable'
      BY <1>7 DEF TapUnseen
    <3> QED
      BY <3>1 DEF Untroubled
  <2> QED
    BY <2>1 DEF Accounted
<1>8. CASE Between \/ EndOfScenario \/ Interrupt \/ StopApps \/ GoHome
  <2>1. \/ ~InScenario'
        \/ InScenario' /\ step' = 1 /\ lost' = "" /\ phase = "between"
    BY <1>8 DEF Between, EndOfScenario, Interrupt, StopApps, GoHome, InScenario
  <2>2. InScenario => ~ (step' = step + 1)
    <3>1. InScenario => step' = step
      BY <1>8 DEF Between, EndOfScenario, Interrupt, StopApps, GoHome, InScenario
    <3> QED
      BY <1>1, <3>1
  <2>3. \A i \in 1 .. Len(plan) :
          Through(i)' => Through(i) \/ (InScenario /\ i = at /\ step > Len(Script[plan[at]]))
    <3>1. CASE Between
      <4>1. phase = "between"
        BY <3>1 DEF Between
      <4>2. (phase' = "reset" /\ at' = at + 1) \/ (phase' = "quiet" /\ at' = at)
        <5>1. \/ at' = at + 1 /\ phase' = "reset"
              \/ phase' = "quiet" /\ UNCHANGED <<at, step, lost, missed, stopped, failed>>
              \/ phase' = "quiet" /\ UNCHANGED <<at, step, lost, missed>>
          BY <3>1 DEF Between
        <5> QED
          BY <5>1
      <4> QED
        BY <1>1, <4>1, <4>2 DEF Through
    <3>2. CASE EndOfScenario
      BY <3>2 DEF EndOfScenario, Through, InScenario, Scenario
    <3>3. CASE Interrupt
      BY <3>3 DEF Interrupt, Through
    <3>4. CASE StopApps \/ GoHome
      BY <3>4 DEF StopApps, GoHome, Through
    <3> QED
      BY <1>8, <3>1, <3>2, <3>3, <3>4
  <2> QED
    BY <2>1, <2>2, <2>3, AccountedOn
<1> QED
  BY <1>2, <1>3, <1>4, <1>5, <1>6, <1>7, <1>8 DEF PreNext

LEMMA AccountedInit == PreInit => Accounted
<1> SUFFICES ASSUME PreInit PROVE Accounted
  OBVIOUS
<1>1. phase = "between" /\ at = 0
  BY DEF PreInit
<1>2. \A i \in 1 .. Len(plan) : \A j : ~Past(i, j)
  <2>1. Len(plan) \in Nat
    BY PreInvInit DEF PreInv, PreTypeOK
  <2> QED
    BY <1>1, <2>1 DEF Past, Through, InScenario
<1> QED
  BY <1>1, <1>2 DEF Accounted, InScenario

LEMMA AccountedStutter == Accounted /\ UNCHANGED preVars => Accounted'
<1> SUFFICES ASSUME Accounted, UNCHANGED preVars PROVE Accounted'
  OBVIOUS
<1>1. UNCHANGED <<works, unseen, readable, plan, at, step, lost, phase, checks, stopped, failed>>
  BY DEF preVars
<1>2. (Untroubled' <=> Untroubled) /\ (InScenario' <=> InScenario)
  BY <1>1 DEF Untroubled, InScenario
<1>3. \A i, j : (DecayedBefore(i, j)' <=> DecayedBefore(i, j)) /\ (Past(i, j)' <=> Past(i, j))
  BY <1>1 DEF DecayedBefore, TapsOf, Past, Through, InScenario
<1>4. \A i, j : Ungraded(Script[plan[i]][j].target)' <=> Ungraded(Script[plan[i]][j].target)
  BY <1>1 DEF Ungraded, Statuses
<1>5. DecayedBefore(at, step)' <=> DecayedBefore(at, step)
  BY <1>1 DEF DecayedBefore, TapsOf
<1>6. ASSUME Untroubled', NEW i \in 1 .. Len(plan), NEW j \in TapsOf(plan[i]), Past(i, j)',
             Ungraded(Script[plan[i]][j].target)'
      PROVE  DecayedBefore(i, j)'
  BY <1>2, <1>3, <1>4, <1>6 DEF Accounted
<1>7. Untroubled' /\ InScenario' /\ lost' # "" => DecayedBefore(at, step)'
  BY <1>1, <1>2, <1>5 DEF Accounted
<1>8. (1 .. Len(plan))' = 1 .. Len(plan) /\ \A i : TapsOf(plan[i])' = TapsOf(plan[i])
  BY <1>1 DEF TapsOf
<1> QED
  BY <1>6, <1>7, <1>8 DEF Accounted

\* With any scenarios, which lead where they mean to go: a preflight that went to its end has each
\* target of the scenarios it walked in its report, with the covering set that is every target there
\* is; and if nothing failed or locked it leaves one ungraded only behind a target that has decayed
\* or is drawn by the app (preflight.py:158-183, 236-252, 394-407, 554-596).
THEOREM EveryTargetIsAccounted ==
  ASSUME NEW on, Leads(on)
  PROVE  PreSpec => []EveryTargetAccounted
<1>1. PreInv /\ ScreenKnown /\ [PreNext]_preVars => ScreenKnown'
  BY ScreenKeeps DEF preVars, ScreenKnown
<1>2. PreInv /\ ScreenKnown /\ FindInv(on) /\ [PreNext]_preVars => FindInv(on)'
  BY FindInvKept, FindInvStutter
<1>3. PreInv /\ ScreenKnown /\ FindInv(on) /\ Accounted /\ [PreNext]_preVars => Accounted'
  BY AccountedKept, AccountedStutter
<1>4. PreInv /\ Accounted => EveryTargetAccounted
  <2> SUFFICES ASSUME PreInv, Accounted, phase = "done", ~stopped, ~failed PROVE EveryTargetAccounted
    BY DEF EveryTargetAccounted
  <2>1. at = Len(plan) /\ DOMAIN plan = 1 .. Len(plan) /\ Len(plan) \in Nat
    BY DEF PreInv, PreTypeOK, AtTheEnd
  <2>2. \A i \in 1 .. Len(plan) : Through(i)
    BY <2>1 DEF Through
  <2>3. \A i \in DOMAIN plan : TargetsOf(plan[i]) \subseteq ByTarget
    BY <2>1, <2>2 DEF PreInv, Asked
  <2>4. ASSUME plan = CoveringScenarios PROVE ByTarget = AllTargets
    <3>1. AllTargets \subseteq ByTarget
      BY <2>1, <2>3, <2>4, CoverCovers
    <3> QED
      BY <3>1 DEF PreInv, Asked
  <2>5. ASSUME Untroubled, NEW i \in DOMAIN plan, NEW j \in TapsOf(plan[i]), Ungraded(Script[plan[i]][j].target)
        PROVE  \E k \in TapsOf(plan[i]) : k < j /\ Script[plan[i]][k].target \notin works
    BY <2>1, <2>2, <2>5 DEF Accounted, Past, DecayedBefore
  <2> QED
    BY <2>3, <2>4, <2>5 DEF EveryTargetAccounted
<1>5. PreInit => FindInv(on)
  BY FindInvInit
<1>6. PreInit => ScreenKnown
  BY DecayInvInit DEF DecayInv
<1> QED
  BY <1>1, <1>2, <1>3, <1>4, <1>5, <1>6, AccountedInit, PreInvInit, PreInvKept, PTL DEF PreSpec

-----------------------------------------------------------------------------
(* A step's action on the device: the inductive invariant. *)

(* How far a lookup is from the end of its budget.                         *)
Spending ==
  /\ Phone /\ attempt = 0 /\ pc = "dump" => clock = lookedFrom
  /\ Phone /\ attempt = 0 /\ pc \in {"looked", "resolved"} => clock = lookedFrom + first
  /\ Phone /\ attempt > 0 /\ pc = "dump" /\ steady => clock + spent <= lookedFrom + ResolveBudget
  /\ Phone /\ attempt > 0 /\ pc \in {"looked", "resolved"} /\ steady => clock <= lookedFrom + ResolveBudget

Gap(a, b) == Distance(Center(a)[1], Center(b)[1]) + Distance(Center(a)[2], Center(b)[2])

(* A walk on a screen that stays as it is, to a control that takes the     *)
(* focus: each key brings it one control nearer.                           *)
Nearer ==
  /\ action = "tv_tap_element" /\ ~moved /\ start # Nowhere /\ goal \in Focusable =>
       /\ start \in Focusable /\ focus \in Focusable
       /\ pc = "dump" => Gap(focus, goal) + Side * presses = Gap(start, goal)
  /\ outcome = "VerificationError" => pc = "done"

ActTypeOK ==
  /\ action \in {"tap_element", "verify_element_state", "verify_playing", "tv_tap_element"}
  /\ pc \in {"dump", "looked", "resolved", "sample", "done"}
  /\ clock \in Nat /\ lookedFrom \in Nat /\ spent \in Nat /\ first \in Nat
  /\ attempt \in 0 .. ResolveAttempts - 1
  /\ steady \in BOOLEAN /\ holds \in BOOLEAN /\ moved \in BOOLEAN
  /\ found \in {"none", "coordinates", "selector"}
  /\ outcome \in {"running", "ElementNotFound", "coordinates", "selector", "passed", "failed", "unknown",
                  "selected", "VerificationError", "UiDumpError"}
  /\ focus \in Focusable \cup {Nowhere} /\ goal \in Targets \cup {Nowhere}
  /\ start \in Focusable \cup {Nowhere}
  /\ presses \in 0 .. MaxFocusSteps

ActInv == ActTypeOK /\ Spending /\ Nearer /\ LookupKeepsBudget /\ WalkArrives

-----------------------------------------------------------------------------
(* A step's action: how each step of it keeps the invariant. *)

\* What one dump of a lookup does.
LEMMA DumpKeeps ==
  ASSUME ActInv, Dump
  PROVE  ActInv'
<1> DEFINE DH == [took : Durations, readable : BOOLEAN]
<1>1. PICK d \in DH, f \in {"none", "coordinates", "selector"}, h \in BOOLEAN :
        /\ clock' = clock + d.took /\ spent' = d.took
        /\ first' = IF attempt = 0 THEN d.took ELSE first
        /\ steady' = (steady /\ (attempt > 0 => d.took <= spent))
        /\ found' = f /\ holds' = h
  BY DEF Dump, DumpHierarchy
<1>2. d.took \in Nat
  BY WaitsAssumption
<1>3. /\ Phone /\ pc = "dump" /\ pc' = "looked"
      /\ UNCHANGED <<action, attempt, lookedFrom, outcome, focus, goal, presses, moved, start>>
  BY DEF Dump, walkVars
<1>4. clock \in Nat /\ lookedFrom \in Nat /\ spent \in Nat /\ attempt \in Nat /\ ResolveBudget \in Nat
  BY WaitsAssumption DEF ActInv, ActTypeOK
<1>5. steady' \in BOOLEAN /\ (steady' => steady /\ (attempt > 0 => d.took <= spent))
  BY <1>1, Zenon DEF ActInv, ActTypeOK
<1>6. ActTypeOK'
  BY <1>1, <1>2, <1>3, <1>4, <1>5 DEF ActInv, ActTypeOK
<1>7. Spending'
  <2>1. attempt = 0 => clock' = lookedFrom' + first'
    BY <1>1, <1>2, <1>3, <1>4 DEF ActInv, Spending
  <2>2. attempt > 0 /\ steady' => clock' <= lookedFrom' + ResolveBudget
    BY <1>1, <1>2, <1>3, <1>4, <1>5 DEF ActInv, Spending
  <2> QED
    BY <1>3, <2>1, <2>2 DEF Spending
<1>8. Nearer' /\ WalkArrives' /\ LookupKeepsBudget'
  BY <1>3 DEF ActInv, Nearer, WalkArrives, Phone, LookupKeepsBudget
<1> QED
  BY <1>6, <1>7, <1>8 DEF ActInv

\* Whether another attempt is made.
LEMMA LookedKeeps ==
  ASSUME ActInv, Looked
  PROVE  ActInv'
<1>1. /\ Phone /\ pc = "looked"
      /\ UNCHANGED <<action, lookedFrom, spent, first, steady, found, holds, outcome, focus, goal, presses, moved, start>>
  BY DEF Looked, walkVars
<1>2. /\ clock \in Nat /\ lookedFrom \in Nat /\ spent \in Nat /\ first \in Nat
      /\ attempt \in 0 .. ResolveAttempts - 1
      /\ ResolveBudget \in Nat /\ ResolveRetry \in Nat /\ ResolveAttempts \in Nat
  BY WaitsAssumption DEF ActInv, ActTypeOK
<1>3. \/ pc' = "resolved" /\ UNCHANGED <<clock, attempt>>
      \/ /\ pc' = "dump" /\ clock' = clock + ResolveRetry /\ attempt' = attempt + 1
         /\ ~NoTimeForAnother /\ attempt # ResolveAttempts - 1
  BY DEF Looked
<1>4. CASE pc' = "resolved" /\ UNCHANGED <<clock, attempt>>
  <2>1. ActTypeOK'
    BY <1>1, <1>4 DEF ActInv, ActTypeOK
  <2>2. Spending'
    BY <1>1, <1>4 DEF ActInv, Spending, Phone
  <2>3. LookupKeepsBudget'
    <3>1. attempt = 0 => clock - lookedFrom = first
      BY <1>1, <1>2 DEF ActInv, Spending
    <3>2. attempt > 0 /\ steady => clock - lookedFrom <= ResolveBudget
      BY <1>1, <1>2 DEF ActInv, Spending
    <3>3. steady => clock - lookedFrom <= (IF first > ResolveBudget THEN first ELSE ResolveBudget)
      BY <1>2, <3>1, <3>2
    <3> QED
      BY <1>1, <1>4, <3>3 DEF LookupKeepsBudget
  <2>4. Nearer' /\ WalkArrives'
    BY <1>1, <1>4 DEF ActInv, Nearer, WalkArrives, Phone
  <2> QED
    BY <2>1, <2>2, <2>3, <2>4 DEF ActInv
<1>5. CASE /\ pc' = "dump" /\ clock' = clock + ResolveRetry /\ attempt' = attempt + 1
           /\ ~NoTimeForAnother /\ attempt # ResolveAttempts - 1
  <2>1. clock' \in Nat /\ attempt' \in 0 .. ResolveAttempts - 1 /\ attempt' # 0
    BY <1>2, <1>5
  <2>2. ActTypeOK'
    BY <1>1, <1>5, <2>1 DEF ActInv, ActTypeOK
  <2>3. clock' + spent' <= lookedFrom' + ResolveBudget
    BY <1>1, <1>2, <1>5 DEF NoTimeForAnother
  <2>4. Spending' /\ LookupKeepsBudget'
    BY <1>5, <2>1, <2>3 DEF Spending, LookupKeepsBudget
  <2>5. Nearer' /\ WalkArrives'
    BY <1>1, <1>5 DEF ActInv, Nearer, WalkArrives, Phone
  <2> QED
    BY <2>2, <2>4, <2>5 DEF ActInv
<1> QED
  BY <1>3, <1>4, <1>5

\* The end of a lookup, and the checks of a state and of the playback.
LEMMA ChecksKeep ==
  ASSUME ActInv, EndLookup \/ VerifyElementState \/ VerifyPlaying
  PROVE  ActInv'
<1>1. /\ UNCHANGED <<action, spent, first, steady, found, holds, focus, goal, presses, moved, start>>
      /\ action # "tv_tap_element" /\ pc # "dump" /\ pc # "done"
  BY DEF EndLookup, VerifyElementState, VerifyPlaying, walkVars
<1>2. /\ clock \in Nat /\ lookedFrom \in Nat /\ attempt \in 0 .. ResolveAttempts - 1
      /\ ResolveAttempts \in Nat \ {0} /\ StatePoll \in Nat /\ PlaybackPoll \in Nat
  BY WaitsAssumption DEF ActInv, ActTypeOK
<1>3. \/ /\ pc' = "done" /\ UNCHANGED <<clock, attempt, lookedFrom>>
         /\ outcome' \in {"ElementNotFound", "coordinates", "selector", "passed", "failed", "unknown"}
      \/ /\ pc' = "dump" /\ clock' = clock + StatePoll /\ attempt' = 0 /\ lookedFrom' = clock + StatePoll
         /\ outcome' = outcome
      \/ /\ pc' = "sample" /\ pc = "sample" /\ clock' = clock + PlaybackPoll
         /\ UNCHANGED <<attempt, lookedFrom, outcome>>
  <2>1. CASE EndLookup
    BY <2>1 DEF EndLookup, Done, ActInv, ActTypeOK
  <2>2. CASE VerifyElementState
    BY <2>2 DEF VerifyElementState, Done
  <2>3. CASE VerifyPlaying
    <3>1. PICK session \in MediaSession :
            IF IsPlaying(session) = "passed" \/ clock >= PlaybackTimeout
              THEN Done(IsPlaying(session)) /\ UNCHANGED clock
              ELSE clock' = clock + PlaybackPoll /\ UNCHANGED <<pc, outcome>>
      BY <2>3 DEF VerifyPlaying
    <3>2. IsPlaying(session) \in {"passed", "failed", "unknown"}
      BY DEF IsPlaying
    <3> QED
      BY <2>3, <3>1, <3>2 DEF VerifyPlaying, Done
  <2> QED
    BY <2>1, <2>2, <2>3
<1>4. ActTypeOK'
  <2>1. clock' \in Nat /\ lookedFrom' \in Nat /\ attempt' \in 0 .. ResolveAttempts - 1
    BY <1>2, <1>3
  <2> QED
    BY <1>1, <1>3, <2>1 DEF ActInv, ActTypeOK
<1>5. Spending' /\ LookupKeepsBudget'
  <2>1. pc' # "looked" /\ pc' # "resolved"
    BY <1>3
  <2>2. pc' = "dump" => attempt' = 0 /\ clock' = lookedFrom'
    BY <1>3
  <2>3. ~(attempt' > 0 /\ pc' = "dump")
    BY <2>2
  <2> QED
    BY <2>1, <2>2, <2>3 DEF Spending, LookupKeepsBudget
<1>6. Nearer' /\ WalkArrives'
  <2>1. outcome' # "VerificationError"
    BY <1>1, <1>3 DEF ActInv, Nearer
  <2> QED
    BY <1>1, <2>1 DEF Nearer, WalkArrives
<1> QED
  BY <1>4, <1>5, <1>6 DEF ActInv

-----------------------------------------------------------------------------
(* The TV's walk. *)

\* Where a control is.
LEMMA ControlIs ==
  ASSUME NEW c \in Cells
  PROVE  /\ c[1] \in 1 .. Columns /\ c[2] \in 1 .. Rows /\ c[1] \in Nat /\ c[2] \in Nat
         /\ Control(c) \in Focusable /\ Control(c) # Nowhere
         /\ Center(Control(c))[1] = 4 * c[1] + 2 /\ Center(Control(c))[2] = 4 * c[2] + 2
<1>1. c[1] \in 1 .. Columns /\ c[2] \in 1 .. Rows /\ Columns \in Nat /\ Rows \in Nat
  BY WaitsAssumption DEF Cells
<1>2. /\ Control(c) = <<4 * c[1], 4 * c[2], 4 * c[1] + 4, 4 * c[2] + 4>>
      /\ Control(c) \in Focusable
  BY DEF Control, Side, Focusable
<1>3. Control(c)[1] = 4 * c[1] /\ Control(c)[2] = 4 * c[2]
      /\ Control(c)[3] = 4 * c[1] + 4 /\ Control(c)[4] = 4 * c[2] + 4
  BY <1>2
<1>4. 4 * c[1] # 0
  BY <1>1
<1>5. Control(c) # Nowhere
  BY <1>3, <1>4 DEF Nowhere
<1>6. Center(Control(c)) = <<4 * c[1] + 2, 4 * c[2] + 2>>
  <2>1. /\ (4 * c[1] + (4 * c[1] + 4)) \div 2 = 4 * c[1] + 2
        /\ (4 * c[2] + (4 * c[2] + 4)) \div 2 = 4 * c[2] + 2
    BY <1>1
  <2> QED
    BY <1>3, <2>1 DEF Center
<1> QED
  BY <1>1, <1>2, <1>5, <1>6

\* The gap of two controls.
LEMMA GapIs ==
  ASSUME NEW c \in Cells, NEW d \in Cells
  PROVE  /\ Gap(Control(c), Control(d)) = 4 * Distance(c[1], d[1]) + 4 * Distance(c[2], d[2])
         /\ Distance(c[1], d[1]) \in Nat /\ Distance(c[2], d[2]) \in Nat
<1>1. c[1] \in Nat /\ c[2] \in Nat /\ d[1] \in Nat /\ d[2] \in Nat
  BY ControlIs
<1>2. /\ Center(Control(c))[1] = 4 * c[1] + 2 /\ Center(Control(c))[2] = 4 * c[2] + 2
      /\ Center(Control(d))[1] = 4 * d[1] + 2 /\ Center(Control(d))[2] = 4 * d[2] + 2
  BY ControlIs
<1>3. /\ Distance(4 * c[1] + 2, 4 * d[1] + 2) = 4 * Distance(c[1], d[1]) /\ Distance(c[1], d[1]) \in Nat
      /\ Distance(4 * c[2] + 2, 4 * d[2] + 2) = 4 * Distance(c[2], d[2]) /\ Distance(c[2], d[2]) \in Nat
  BY <1>1 DEF Distance
<1> QED
  BY <1>2, <1>3 DEF Gap

\* The control beside another.
LEMMA PressedIs ==
  ASSUME NEW c \in Cells, NEW x \in 1 .. Columns, NEW y \in 1 .. Rows, NEW key,
         \/ key = "RIGHT" /\ x = c[1] + 1 /\ y = c[2]
         \/ key = "LEFT" /\ x = c[1] - 1 /\ y = c[2]
         \/ key = "DOWN" /\ x = c[1] /\ y = c[2] + 1
         \/ key = "UP" /\ x = c[1] /\ y = c[2] - 1
  PROVE  Pressed(Control(c), key) = Control(<<x, y>>)
<1>1. /\ Control(c)[1] = 4 * c[1] /\ Control(c)[2] = 4 * c[2]
      /\ Control(c)[3] = 4 * c[1] + 4 /\ Control(c)[4] = 4 * c[2] + 4
  BY DEF Control, Side
<1>2. Control(<<x, y>>) = <<4 * x, 4 * y, 4 * x + 4, 4 * y + 4>> /\ Control(<<x, y>>) \in Focusable
  BY DEF Control, Side, Focusable, Cells
<1>3. c[1] \in Nat /\ c[2] \in Nat /\ x \in Nat /\ y \in Nat
  BY ControlIs, WaitsAssumption
<1> DEFINE dx == CASE key = "RIGHT" -> Side [] key = "LEFT" -> -Side [] OTHER -> 0
           dy == CASE key = "DOWN" -> Side [] key = "UP" -> -Side [] OTHER -> 0
<1>4. dx = 4 * x - 4 * c[1] /\ dy = 4 * y - 4 * c[2]
  BY <1>3 DEF Side
<1>5. Pressed(Control(c), key) =
        IF <<Control(c)[1] + dx, Control(c)[2] + dy, Control(c)[3] + dx, Control(c)[4] + dy>> \in Focusable
          THEN <<Control(c)[1] + dx, Control(c)[2] + dy, Control(c)[3] + dx, Control(c)[4] + dy>>
          ELSE Control(c)
  BY DEF Pressed
<1> HIDE DEF dx, dy
<1>6. /\ Control(c)[1] + dx = 4 * x /\ Control(c)[2] + dy = 4 * y
      /\ Control(c)[3] + dx = 4 * x + 4 /\ Control(c)[4] + dy = 4 * y + 4
  BY <1>1, <1>3, <1>4
<1> QED
  BY <1>2, <1>5, <1>6

\* A key towards another control moves the focus, and one control nearer: it closes the larger gap,
\* and between two controls of the grid there is always one that way.
LEMMA KeyBringsNearer ==
  ASSUME NEW c \in Cells, NEW d \in Cells, c # d
  PROVE  \E e \in Cells :
           /\ Pressed(Control(c), StepToward(Center(Control(c)), Center(Control(d)))) = Control(e)
           /\ Distance(e[1], d[1]) + Distance(e[2], d[2]) + 1 = Distance(c[1], d[1]) + Distance(c[2], d[2])
<1> DEFINE key == StepToward(Center(Control(c)), Center(Control(d)))
<1>1. /\ c[1] \in 1 .. Columns /\ c[2] \in 1 .. Rows /\ d[1] \in 1 .. Columns /\ d[2] \in 1 .. Rows
      /\ Columns \in Nat /\ Rows \in Nat
  BY ControlIs, WaitsAssumption
<1>2. c[1] # d[1] \/ c[2] # d[2]
  BY DEF Cells
<1>3. key = IF Distance(c[2], d[2]) >= Distance(c[1], d[1])
              THEN IF d[2] > c[2] THEN "DOWN" ELSE "UP"
              ELSE IF d[1] > c[1] THEN "RIGHT" ELSE "LEFT"
  <2>1. /\ Center(Control(c))[1] = 4 * c[1] + 2 /\ Center(Control(c))[2] = 4 * c[2] + 2
        /\ Center(Control(d))[1] = 4 * d[1] + 2 /\ Center(Control(d))[2] = 4 * d[2] + 2
    BY ControlIs
  <2>2. /\ Distance(4 * c[1] + 2, 4 * d[1] + 2) = 4 * Distance(c[1], d[1])
        /\ Distance(4 * c[2] + 2, 4 * d[2] + 2) = 4 * Distance(c[2], d[2])
        /\ Distance(c[1], d[1]) \in Nat /\ Distance(c[2], d[2]) \in Nat
    BY <1>1 DEF Distance
  <2>3. /\ 4 * d[2] + 2 > 4 * c[2] + 2 <=> d[2] > c[2]
        /\ 4 * d[1] + 2 > 4 * c[1] + 2 <=> d[1] > c[1]
        /\ 4 * Distance(c[2], d[2]) >= 4 * Distance(c[1], d[1]) <=> Distance(c[2], d[2]) >= Distance(c[1], d[1])
    BY <1>1, <2>2
  <2> QED
    BY <2>1, <2>2, <2>3 DEF StepToward
<1>4. \E x \in 1 .. Columns, y \in 1 .. Rows :
        /\ \/ key = "RIGHT" /\ x = c[1] + 1 /\ y = c[2]
           \/ key = "LEFT" /\ x = c[1] - 1 /\ y = c[2]
           \/ key = "DOWN" /\ x = c[1] /\ y = c[2] + 1
           \/ key = "UP" /\ x = c[1] /\ y = c[2] - 1
        /\ Distance(x, d[1]) + Distance(y, d[2]) + 1 = Distance(c[1], d[1]) + Distance(c[2], d[2])
  <2> HIDE DEF key
  <2>1. CASE Distance(c[2], d[2]) >= Distance(c[1], d[1]) /\ d[2] > c[2]
    <3>1. /\ key = "DOWN" /\ c[1] \in 1 .. Columns /\ c[2] + 1 \in 1 .. Rows
          /\ Distance(c[2] + 1, d[2]) + 1 = Distance(c[2], d[2])
          /\ Distance(c[1], d[1]) \in Nat /\ Distance(c[2] + 1, d[2]) \in Nat
      BY <1>1, <1>3, <2>1 DEF Distance
    <3> QED
      BY <3>1
  <2>2. CASE Distance(c[2], d[2]) >= Distance(c[1], d[1]) /\ ~(d[2] > c[2])
    <3>1. d[2] < c[2]
      BY <1>1, <1>2, <2>2 DEF Distance
    <3>2. /\ key = "UP" /\ c[1] \in 1 .. Columns /\ c[2] - 1 \in 1 .. Rows
          /\ Distance(c[2] - 1, d[2]) + 1 = Distance(c[2], d[2])
          /\ Distance(c[1], d[1]) \in Nat /\ Distance(c[2] - 1, d[2]) \in Nat
      BY <1>1, <1>3, <2>2, <3>1 DEF Distance
    <3> QED
      BY <3>2
  <2>3. CASE ~(Distance(c[2], d[2]) >= Distance(c[1], d[1])) /\ d[1] > c[1]
    <3>1. /\ key = "RIGHT" /\ c[1] + 1 \in 1 .. Columns /\ c[2] \in 1 .. Rows
          /\ Distance(c[1] + 1, d[1]) + 1 = Distance(c[1], d[1])
          /\ Distance(c[2], d[2]) \in Nat /\ Distance(c[1] + 1, d[1]) \in Nat
      BY <1>1, <1>3, <2>3 DEF Distance
    <3> QED
      BY <3>1
  <2>4. CASE ~(Distance(c[2], d[2]) >= Distance(c[1], d[1])) /\ ~(d[1] > c[1])
    <3>1. d[1] < c[1]
      BY <1>1, <1>2, <2>4 DEF Distance
    <3>2. /\ key = "LEFT" /\ c[1] - 1 \in 1 .. Columns /\ c[2] \in 1 .. Rows
          /\ Distance(c[1] - 1, d[1]) + 1 = Distance(c[1], d[1])
          /\ Distance(c[2], d[2]) \in Nat /\ Distance(c[1] - 1, d[1]) \in Nat
      BY <1>1, <1>3, <2>4, <3>1 DEF Distance
    <3> QED
      BY <3>2
  <2> QED
    BY <2>1, <2>2, <2>3, <2>4
<1>5. PICK x \in 1 .. Columns, y \in 1 .. Rows :
        /\ \/ key = "RIGHT" /\ x = c[1] + 1 /\ y = c[2]
           \/ key = "LEFT" /\ x = c[1] - 1 /\ y = c[2]
           \/ key = "DOWN" /\ x = c[1] /\ y = c[2] + 1
           \/ key = "UP" /\ x = c[1] /\ y = c[2] - 1
        /\ Distance(x, d[1]) + Distance(y, d[2]) + 1 = Distance(c[1], d[1]) + Distance(c[2], d[2])
  BY <1>4
<1> HIDE DEF key
<1>6. Pressed(Control(c), key) = Control(<<x, y>>)
  BY <1>5, PressedIs
<1>7. <<x, y>> \in Cells /\ <<x, y>>[1] = x /\ <<x, y>>[2] = y
  BY DEF Cells
<1> QED
  BY <1>5, <1>6, <1>7 DEF key

\* A key that does what it asks for brings the focus one control nearer to another.
LEMMA KeyCloses ==
  ASSUME NEW a \in Focusable, NEW b \in Focusable, a # b
  PROVE  /\ Pressed(a, StepToward(Center(a), Center(b))) \in Focusable
         /\ Gap(Pressed(a, StepToward(Center(a), Center(b))), b) + Side = Gap(a, b)
         /\ Gap(Pressed(a, StepToward(Center(a), Center(b))), b) \in Nat
<1>1. PICK c \in Cells : a = Control(c)
  BY DEF Focusable
<1>2. PICK d \in Cells : b = Control(d)
  BY DEF Focusable
<1>3. c # d
  BY <1>1, <1>2
<1>4. PICK e \in Cells :
        /\ Pressed(a, StepToward(Center(a), Center(b))) = Control(e)
        /\ Distance(e[1], d[1]) + Distance(e[2], d[2]) + 1 = Distance(c[1], d[1]) + Distance(c[2], d[2])
  BY <1>1, <1>2, <1>3, KeyBringsNearer
<1>5. /\ Gap(a, b) = 4 * Distance(c[1], d[1]) + 4 * Distance(c[2], d[2])
      /\ Gap(Control(e), b) = 4 * Distance(e[1], d[1]) + 4 * Distance(e[2], d[2])
      /\ Distance(c[1], d[1]) \in Nat /\ Distance(c[2], d[2]) \in Nat
      /\ Distance(e[1], d[1]) \in Nat /\ Distance(e[2], d[2]) \in Nat
  BY <1>1, <1>2, GapIs
<1>6. Gap(Control(e), b) + 4 = Gap(a, b) /\ Gap(Control(e), b) \in Nat
  BY <1>4, <1>5
<1> QED
  BY <1>4, <1>6, ControlIs DEF Side

\* One iteration of the walk.
LEMMA WalkKeeps ==
  ASSUME ActInv, Walk
  PROVE  ActInv'
<1>1. /\ action = "tv_tap_element" /\ pc = "dump"
      /\ UNCHANGED <<action, clock, attempt, lookedFrom, spent, first, steady, found, holds, goal, start>>
  BY DEF Walk
<1>2. /\ MaxFocusSteps \in Nat /\ presses \in 0 .. MaxFocusSteps /\ moved \in BOOLEAN
      /\ focus \in Focusable \cup {Nowhere} /\ goal \in Targets \cup {Nowhere}
      /\ outcome # "VerificationError"
  BY <1>1, WaitsAssumption DEF ActInv, ActTypeOK, Nearer
<1>3. Nowhere \notin Focusable
  BY ControlIs DEF Focusable
<1>4. Spending' /\ LookupKeepsBudget'
  <2>1. ~Phone' /\ pc' # "resolved"
    BY <1>1 DEF Phone, Walk, Done
  <2> QED
    BY <2>1 DEF Spending, LookupKeepsBudget
<1>5. CASE presses = MaxFocusSteps
  <2>1. pc' = "done" /\ outcome' = "VerificationError" /\ UNCHANGED <<focus, presses, moved>>
    BY <1>5 DEF Walk, Done
  <2>2. ActTypeOK'
    BY <1>1, <2>1 DEF ActInv, ActTypeOK
  <2>3. ASSUME ~moved, start # Nowhere, goal \in Focusable PROVE Gap(start, goal) >= Side * MaxFocusSteps
    <3>1. focus \in Focusable /\ Gap(focus, goal) + Side * presses = Gap(start, goal)
      BY <1>1, <2>3 DEF ActInv, Nearer
    <3>2. Gap(focus, goal) \in Nat
      <4>1. PICK c \in Cells : focus = Control(c)
        BY <3>1 DEF Focusable
      <4>2. PICK d \in Cells : goal = Control(d)
        BY <2>3 DEF Focusable
      <4> QED
        BY <4>1, <4>2, GapIs
    <3> QED
      BY <1>2, <1>5, <3>1, <3>2 DEF Side
  <2>4. WalkArrives'
    BY <1>1, <2>1, <2>3 DEF WalkArrives, Gap
  <2>5. Nearer'
    BY <1>1, <2>1 DEF ActInv, Nearer
  <2> QED
    BY <1>4, <2>2, <2>4, <2>5 DEF ActInv
<1>6. CASE presses # MaxFocusSteps
  <2>1. presses' = presses + 1 /\ presses' \in 0 .. MaxFocusSteps
    BY <1>2, <1>6 DEF Walk
  <2>2. \/ pc' = "done" /\ outcome' \in {"ElementNotFound", "selected"} /\ UNCHANGED <<focus, moved>>
        \/ pc' = pc /\ outcome' = outcome /\ focus = Nowhere /\ focus' \in Focusable /\ UNCHANGED moved
        \/ /\ pc' = pc /\ outcome' = outcome /\ goal # Nowhere /\ focus # Nowhere /\ focus # goal
           /\ Press(StepToward(Center(focus), Center(goal)))
    BY <1>6 DEF Walk, Done
  <2>3. focus' \in Focusable \cup {Nowhere} /\ moved' \in BOOLEAN /\ (moved => moved')
    <3>1. \A key : Pressed(focus, key) \in Focusable \cup {focus}
      BY DEF Pressed
    <3>2. CASE UNCHANGED moved
      BY <1>2, <2>2, <3>1, <3>2 DEF Press
    <3>3. CASE Press(StepToward(Center(focus), Center(goal)))
      BY <1>2, <3>1, <3>3 DEF Press
    <3> QED
      BY <2>2, <3>2, <3>3
  <2>4. ActTypeOK'
    <3>1. pc' \in {"dump", "done"} /\ outcome' \in {outcome, "ElementNotFound", "selected"}
      BY <1>1, <2>2
    <3> QED
      BY <1>1, <2>1, <2>3, <3>1 DEF ActInv, ActTypeOK
  <2>5. outcome' # "VerificationError"
    BY <1>2, <2>2
  <2>6. WalkArrives'
    BY <2>5 DEF WalkArrives
  <2>7. ASSUME ~moved', start # Nowhere, goal \in Focusable
        PROVE  /\ start \in Focusable /\ focus' \in Focusable
               /\ pc' = "dump" => Gap(focus', goal) + Side * presses' = Gap(start, goal)
    <3>1. ~moved
      BY <2>3, <2>7
    <3>2. start \in Focusable /\ focus \in Focusable /\ Gap(focus, goal) + Side * presses = Gap(start, goal)
      BY <1>1, <2>7, <3>1 DEF ActInv, Nearer
    <3>3. CASE pc' = "done"
      BY <1>1, <1>3, <2>2, <3>2, <3>3
    <3>4. CASE pc' # "done"
      <4>1. focus # goal /\ focus' = Pressed(focus, StepToward(Center(focus), Center(goal)))
        BY <1>3, <2>2, <2>7, <3>2, <3>4 DEF Press
      <4>2. focus' \in Focusable /\ Gap(focus', goal) + Side = Gap(focus, goal) /\ Gap(focus', goal) \in Nat
        BY <2>7, <3>2, <4>1, KeyCloses
      <4>3. Gap(focus', goal) + Side * presses' = Gap(start, goal)
        BY <1>2, <2>1, <3>2, <4>2 DEF Side
      <4> QED
        BY <3>2, <4>2, <4>3
    <3> QED
      BY <3>3, <3>4
  <2>8. Nearer'
    BY <1>1, <2>5, <2>7 DEF Nearer
  <2> QED
    BY <1>4, <2>4, <2>6, <2>8 DEF ActInv
<1> QED
  BY <1>5, <1>6

\* Every step of an action keeps the invariant.
LEMMA ActInvKept ==
  ASSUME ActInv, [ActNext]_actVars
  PROVE  ActInv'
<1>1. CASE DumpFails
  <2>1. ~Phone' /\ pc' = "done" /\ outcome' = "UiDumpError"
    BY <1>1 DEF DumpFails, Done, Phone
  <2> QED
    BY <1>1, <2>1 DEF DumpFails, walkVars, ActInv, ActTypeOK, Spending, Nearer, LookupKeepsBudget, WalkArrives
<1>2. CASE ScreenMoves
  <2>1. ~Phone' /\ moved' = TRUE /\ pc' = "dump"
    BY <1>2 DEF ScreenMoves, Phone
  <2> QED
    BY <1>2, <2>1 DEF ScreenMoves, ActInv, ActTypeOK, Spending, Nearer, LookupKeepsBudget, WalkArrives
<1>3. CASE UNCHANGED actVars
  <2>1. ActTypeOK'
    BY <1>3 DEF actVars, ActInv, ActTypeOK
  <2>2. Spending' /\ LookupKeepsBudget'
    BY <1>3 DEF actVars, ActInv, Spending, LookupKeepsBudget, Phone
  <2>3. Nearer' /\ WalkArrives'
    BY <1>3 DEF actVars, ActInv, Nearer, WalkArrives
  <2> QED
    BY <2>1, <2>2, <2>3 DEF ActInv
<1> QED
  BY <1>1, <1>2, <1>3, DumpKeeps, LookedKeeps, ChecksKeep, WalkKeeps DEF ActNext

\* An action begins with the invariant.
LEMMA ActInvInit == ActInit => ActInv
<1> SUFFICES ASSUME ActInit PROVE ActInv
  OBVIOUS
<1>1. 0 \in 0 .. ResolveAttempts - 1 /\ 0 \in 0 .. MaxFocusSteps
  BY WaitsAssumption
<1>2. ActTypeOK
  BY <1>1 DEF ActInit, ActTypeOK
<1>3. Spending /\ LookupKeepsBudget /\ WalkArrives
  BY DEF ActInit, Spending, LookupKeepsBudget, WalkArrives
<1>4. ASSUME action = "tv_tap_element", start # Nowhere, goal \in Focusable
      PROVE  start \in Focusable /\ focus \in Focusable /\ Gap(focus, goal) + Side * presses = Gap(start, goal)
  <2>1. start = focus /\ focus \in Focusable /\ presses = 0
    BY <1>4 DEF ActInit
  <2>2. PICK c \in Cells : focus = Control(c)
    BY <2>1 DEF Focusable
  <2>3. PICK d \in Cells : goal = Control(d)
    BY <1>4 DEF Focusable
  <2>4. Gap(focus, goal) \in Nat
    BY <2>2, <2>3, GapIs
  <2> QED
    BY <2>1, <2>4 DEF Side
<1>5. Nearer
  BY <1>4 DEF ActInit, Nearer
<1> QED
  BY <1>2, <1>3, <1>5 DEF ActInv

\* Whatever the waits, the budget and the time a dump takes: while dumps do not get slower
\* within a lookup, it ends within its budget or after its first dump (adapters.py:304-316).
THEOREM LookupInBudget == ActSpec => []LookupKeepsBudget
<1>1. ActInv => LookupKeepsBudget
  BY DEF ActInv
<1> QED
  BY <1>1, ActInvInit, ActInvKept, PTL DEF ActSpec

\* On a grid of equal controls of any size, where each key does what it asks for, from any control to
\* any other: the TV's walk gives up only on a target that is as far as its steps (adapters.py:607-635).
THEOREM WalkFindsTheTarget == ActSpec => []WalkArrives
<1>1. ActInv => WalkArrives
  BY DEF ActInv
<1> QED
  BY <1>1, ActInvInit, ActInvKept, PTL DEF ActSpec
====
