------------------------------ MODULE Registry ------------------------------
(***************************************************************************)
(* The device registry: the devices table (storage.py), the refresh that   *)
(* fills it (services.py), the device views of the dashboard (views.py)    *)
(* and the adb client they call (adb.py).                                  *)
(*                                                                         *)
(* One phone has one adb serial per way it is attached: over USB and over  *)
(* Wi-Fi it is two serials, so two rows.  Only `ro.serialno`, read by a    *)
(* refresh and kept as the row's hw, tells that they are one phone.  Every *)
(* adb call and every statement of the database is a step of its own:      *)
(* requests interleave between them, phones come and go, and a refresh     *)
(* registers what it read several adb calls ago.                           *)
(***************************************************************************)
EXTENDS Naturals, FiniteSets

CONSTANTS
  Serials,        \* adb serials, one per way a phone can be attached
  Usb,            \* the serials that are USB serials; the others are host:port
  PhoneOf,        \* [Serials -> the phone the serial reaches, its ro.serialno]
  OwnName,        \* [Serials -> the phone's own device_name, or NoValue if unset]
  Typed,          \* nicknames a person types, "" (cleared) among them
  Requests,       \* requests the dashboard serves
  NoValue,        \* SQL NULL, and Python's None
  MaxChanges,     \* bound: attachments that change
  MaxReadFaults   \* bound: adb shell calls to a ready device that fail

ASSUME SerialsAssumption ==
  /\ Usb \subseteq Serials /\ Serials # {} /\ IsFiniteSet(Serials)
  /\ \A s \in Serials : PhoneOf[s] # NoValue
  /\ MaxChanges \in Nat /\ MaxReadFaults \in Nat

VARIABLES
  attached,   \* [Serials -> "no" | "unready" (unauthorized, offline) | "device"]
  trusted,    \* Wi-Fi serials whose phone has been paired with this computer
  rows,       \* the devices table: [Serials -> {NoValue} \cup Row]
  req,        \* [Requests -> where each request is and what it has read]
  typed,      \* history: the nickname last typed for the serial's row
  settled,    \* history: the last refresh read everything, undisturbed, and
              \* nothing has happened since
  changes, readFaults

registryVars == <<attached, trusted, rows, req, typed, settled, changes, readFaults>>

HardwareSerials == {PhoneOf[s] : s \in Serials}
Nicknames == Typed \cup {OwnName[s] : s \in Serials} \cup {NoValue}
Row == [hw: HardwareSerials \cup {NoValue}, nick: Nicknames]
Listed == [serial: Serials, hw: HardwareSerials \cup {NoValue}]
Request == [pc: {"idle", "connected", "scanned", "props", "register", "rows", "listed"},
            todo: SUBSET Serials, serial: Serials \cup {NoValue},
            hw: HardwareSerials \cup {NoValue}, name: Nicknames,
            listed: SUBSET Listed, undisturbed: BOOLEAN]

ASSUME NullAssumption == NoValue \notin Row /\ NoValue \notin Serials

(* A request: the serials it has still to register, what it has read of    *)
(* the one at hand, the rows it listed, and whether it ran undisturbed.    *)
Idle == [pc |-> "idle", todo |-> {}, serial |-> NoValue, hw |-> NoValue, name |-> NoValue,
         listed |-> {}, undisturbed |-> FALSE]

Refreshing(r) == req[r].pc \in {"scanned", "props", "register"}

RegistryInit ==
  /\ attached = [s \in Serials |-> "no"]
  /\ trusted = {}
  /\ rows = [s \in Serials |-> NoValue]
  /\ req = [r \in Requests |-> Idle]
  /\ typed = [s \in Serials |-> NoValue]
  /\ settled = FALSE
  /\ changes = 0 /\ readFaults = 0

Disturbed(R) == [r \in Requests |-> [R[r] EXCEPT !.undisturbed = FALSE]]

-----------------------------------------------------------------------------
(* Outside the program: cables, authorisation prompts and the network.     *)

Attach(s, state) ==
  /\ changes < MaxChanges
  /\ attached' = [attached EXCEPT ![s] = state]
  /\ changes' = changes + 1
  /\ req' = Disturbed(req)
  /\ settled' = FALSE

PlugIn(s) ==
  /\ s \in Usb /\ attached[s] = "no"
  /\ \E state \in {"unready", "device"} : Attach(s, state)
  /\ UNCHANGED <<trusted, rows, typed, readFaults>>

Authorise(s) ==
  /\ attached[s] = "unready"
  /\ Attach(s, "device")
  /\ UNCHANGED <<trusted, rows, typed, readFaults>>

Leave(s) ==
  /\ attached[s] # "no"
  /\ Attach(s, "no")
  /\ UNCHANGED <<trusted, rows, typed, readFaults>>

-----------------------------------------------------------------------------
(* devices_refresh: adb.devices() lists every attached serial, ready or    *)
(* not, and each one is then read and registered.                          *)

Scanned(r) ==
  LET others == {q \in Requests \ {r} : Refreshing(q)}
      asked == IF others = {} THEN req ELSE Disturbed(req) IN
  req' = [asked EXCEPT ![r] = [Idle EXCEPT !.pc = "scanned",
                                           !.todo = {s \in Serials : attached[s] # "no"},
                                           !.undisturbed = (others = {})]]

Refresh(r) ==
  /\ req[r].pc \in {"idle", "connected"}
  /\ Scanned(r)
  /\ settled' = FALSE
  /\ UNCHANGED <<attached, trusted, rows, typed, changes, readFaults>>

(* One getprop per device, best-effort: whatever goes wrong is None.       *)
ReadProps(r) ==
  /\ req[r].pc = "scanned"
  /\ \E s \in req[r].todo :
       \/ /\ attached[s] = "device"
          /\ req' = [req EXCEPT ![r].pc = "props", ![r].serial = s, ![r].hw = PhoneOf[s]]
          /\ UNCHANGED readFaults
       \/ /\ attached[s] = "device" /\ readFaults < MaxReadFaults
          /\ req' = [req EXCEPT ![r].pc = "props", ![r].serial = s, ![r].hw = NoValue,
                                ![r].undisturbed = FALSE]
          /\ readFaults' = readFaults + 1
       \/ /\ attached[s] # "device"
          /\ req' = [req EXCEPT ![r].pc = "props", ![r].serial = s, ![r].hw = NoValue,
                                ![r].undisturbed = FALSE]
          /\ UNCHANGED readFaults
  /\ UNCHANGED <<attached, trusted, rows, typed, settled, changes>>

(* `settings get global device_name`, among the reads that follow.         *)
ReadName(r) ==
  LET s == req[r].serial IN
  /\ req[r].pc = "props"
  /\ req' = [req EXCEPT ![r].pc = "register",
                        ![r].name = IF attached[s] = "device" THEN OwnName[s] ELSE NoValue]
  /\ UNCHANGED <<attached, trusted, rows, typed, settled, changes, readFaults>>

(* INSERT ... ON CONFLICT(serial) DO UPDATE: what was detected overwrites, *)
(* the nickname only fills a NULL one.                                     *)
\* Mutant: the detected name overwrites the stored nickname.
DetectedNick(row, name) == name
StoredNick(row, name) == IF row # NoValue /\ row.nick # NoValue THEN row.nick ELSE name

Register(r) ==
  LET s == req[r].serial
      row == [hw |-> req[r].hw, nick |-> StoredNick(rows[s], req[r].name)] IN
  /\ req[r].pc = "register"
  /\ rows' = [rows EXCEPT ![s] = row]
  /\ req' = [req EXCEPT ![r].pc = "scanned", ![r].todo = @ \ {s}, ![r].serial = NoValue,
                        ![r].hw = NoValue, ![r].name = NoValue]
  /\ UNCHANGED <<attached, trusted, typed, settled, changes, readFaults>>

(* The loop is over: the refreshed table is the answer.                    *)
Refreshed(r) ==
  /\ req[r].pc = "scanned" /\ req[r].todo = {}
  /\ req' = [req EXCEPT ![r] = Idle]
  /\ settled' = req[r].undisturbed
  /\ UNCHANGED <<attached, trusted, rows, typed, changes, readFaults>>

-----------------------------------------------------------------------------
(* Joining over Wi-Fi.  pair and connect are told apart from failures by   *)
(* what adb prints; a connection to a phone that does not trust this       *)
(* computer, or that cannot be reached, is refused with an error.          *)

Pair(s) ==
  /\ s \notin Usb
  /\ trusted' = trusted \cup {s}
  /\ UNCHANGED <<attached, rows, req, typed, settled, changes, readFaults>>

(* devices_connect: an error ends the request; otherwise a refresh.        *)
DevicesConnect(r, s) ==
  /\ req[r].pc = "idle" /\ s \in trusted /\ attached[s] # "device"
  /\ changes < MaxChanges
  /\ attached' = [attached EXCEPT ![s] = "device"]
  /\ changes' = changes + 1
  /\ settled' = FALSE
  /\ req' = [Disturbed(req) EXCEPT ![r].pc = "connected"]
  /\ UNCHANGED <<trusted, rows, typed, readFaults>>

(* devices_connect_discovered: every advertised connect service once;      *)
(* those that fail are reported, and the refresh follows either way.       *)
ConnectDiscovered(r) ==
  /\ req[r].pc = "idle" /\ changes < MaxChanges
  /\ \E reached \in SUBSET trusted :
       attached' = [s \in Serials |-> IF s \in reached THEN "device" ELSE attached[s]]
  /\ changes' = changes + 1
  /\ settled' = FALSE
  /\ req' = [Disturbed(req) EXCEPT ![r].pc = "connected"]
  /\ UNCHANGED <<trusted, rows, typed, readFaults>>

(* device_nickname: an UPDATE, which does nothing for a serial unknown.    *)
Nickname(s, n) ==
  /\ rows[s] # NoValue
  /\ rows' = [rows EXCEPT ![s].nick = n]
  /\ typed' = [typed EXCEPT ![s] = n]
  /\ UNCHANGED <<attached, trusted, req, settled, changes, readFaults>>

-----------------------------------------------------------------------------
(* GET devices?connected=1: the table first, then adb, then one row per    *)
(* physical device, USB winning.                                           *)

\* Mutant: rows are told apart by their adb serial.
KeyOfSerial(row) == row.serial
Key(row) == IF row.hw # NoValue THEN row.hw ELSE row.serial

(* dict iteration keeps the first of equally good rows: any one of them.   *)
OneRowPerPhysicalDevice(present) ==
  {best \in SUBSET present :
     /\ \A a \in present : Cardinality({b \in best : Key(b) = Key(a)}) = 1
     /\ \A a \in present : a.serial \in Usb =>
          \E b \in best : b.serial \in Usb /\ Key(b) = Key(a)}

ListRows(r) ==
  /\ req[r].pc = "idle"
  /\ req' = [req EXCEPT ![r].pc = "rows",
                        ![r].listed = {[serial |-> s, hw |-> rows[s].hw] :
                                         s \in {t \in Serials : rows[t] # NoValue}},
                        ![r].undisturbed = settled]
  /\ UNCHANGED <<attached, trusted, rows, typed, settled, changes, readFaults>>

ListConnected(r) ==
  /\ req[r].pc = "rows"
  /\ \E best \in OneRowPerPhysicalDevice({row \in req[r].listed : attached[row.serial] = "device"}) :
       req' = [req EXCEPT ![r].pc = "listed", ![r].listed = best]
  /\ UNCHANGED <<attached, trusted, rows, typed, settled, changes, readFaults>>

ListAnswered(r) ==
  /\ req[r].pc = "listed"
  /\ req' = [req EXCEPT ![r] = Idle]
  /\ UNCHANGED <<attached, trusted, rows, typed, settled, changes, readFaults>>

-----------------------------------------------------------------------------
RegistryNext ==
  \/ \E s \in Serials : PlugIn(s) \/ Authorise(s) \/ Leave(s) \/ Pair(s)
  \/ \E s \in Serials, n \in Typed : Nickname(s, n)
  \/ \E r \in Requests :
       \/ Refresh(r) \/ ReadProps(r) \/ ReadName(r) \/ Register(r) \/ Refreshed(r)
       \/ \E s \in Serials : DevicesConnect(r, s)
       \/ ConnectDiscovered(r) \/ ListRows(r) \/ ListConnected(r) \/ ListAnswered(r)

RegistrySpec == RegistryInit /\ [][RegistryNext]_registryVars

RegistryTypeOK ==
  /\ attached \in [Serials -> {"no", "unready", "device"}]
  /\ trusted \subseteq Serials
  /\ rows \in [Serials -> Row \cup {NoValue}]
  /\ req \in [Requests -> Request]
  /\ typed \in [Serials -> Nicknames]
  /\ settled \in BOOLEAN
  /\ changes \in 0 .. MaxChanges /\ readFaults \in 0 .. MaxReadFaults

(* Of the serials here, one for each phone, its USB one if there is one.   *)
OncePerPhone(listed, here) ==
  /\ \A p \in {PhoneOf[s] : s \in here} : Cardinality({s \in listed : PhoneOf[s] = p}) = 1
  /\ \A s \in here \cap Usb : \E t \in listed \cap Usb : PhoneOf[t] = PhoneOf[s]
  /\ listed \subseteq here

(***************************************************************************)
(* What "start on every device" is given, once a refresh has read every    *)
(* attached device and nothing has changed: exactly one serial for each    *)
(* phone that is here, and the USB one of a phone that is here both ways   *)
(* (views.devices and _one_row_per_physical_device).  Without the          *)
(* condition it does not hold: a getprop that fails, or a slower refresh   *)
(* that read before the phone was authorised, takes hw away again, and one *)
(* phone is listed twice.                                                  *)
(***************************************************************************)
ListingExact ==
  \A r \in Requests : req[r].pc = "listed" /\ req[r].undisturbed =>
    OncePerPhone({row.serial : row \in req[r].listed}, {s \in Serials : attached[s] = "device"})

(***************************************************************************)
(* A nickname somebody typed is what the table shows, however many         *)
(* refreshes were under way when it was typed and register the device      *)
(* afterwards with the name they read (register_device's COALESCE); a      *)
(* nickname cleared to "" counts as typed.                                 *)
(***************************************************************************)
NicknameKept ==
  \A s \in Serials : typed[s] # NoValue => rows[s] # NoValue /\ rows[s].nick = typed[s]
=============================================================================
