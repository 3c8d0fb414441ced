-------------------------------- MODULE Devices --------------------------------
(***************************************************************************)
(* DeviceService over DeviceRepository: requests read a whole device, and  *)
(* write a whole row back later.  The sessions that removeDevice ends are  *)
(* in SessionStore.                                                        *)
(*                                                                         *)
(* The repository is modelled over the columns it names (deviceId, unique, *)
(* deviceName, userAgent); devices.schema.ts calls them fingerprint, name  *)
(* and has no userAgent.                                                   *)
(***************************************************************************)
EXTENDS Integers

CONSTANTS
    Owners, Machines,   \* accounts, and the fingerprints they sign in from
    DeviceIds,          \* a random id for each row that is ever inserted
    DeviceRequests,     \* requests in flight
    NoDevice,
    UnusedDays,         \* UNUSED_DEVICE_THRESHOLD_DAYS
    MaxDay              \* bound on the days that pass

VARIABLES
    day,
    rows,           \* the table
    issued,         \* ids of the rows inserted so far
    dreq,           \* what a request does, and the device it has read
    trustAsked,     \* history: devices their owner asked to trust
    trustAnswered,  \* history: devices their owner was told are trusted
    lastUse,        \* history: the last day a use of it was stored
    overwritten     \* history: devices written from a copy that was out of date

deviceVars == <<day, rows, issued, dreq, trustAsked, trustAnswered, lastUse, overwritten>>

Device == [user : Owners, machine : Machines, trusted : BOOLEAN, seen : 0..MaxDay]

ASSUME DevicesAssumption ==
    /\ UnusedDays \in Nat /\ MaxDay \in Nat
    /\ NoDevice \notin DeviceIds \cup Owners \cup Machines \cup Device

IdleDevice == [op |-> "idle", user |-> NoDevice, machine |-> NoDevice,
               id |-> NoDevice, copy |-> NoDevice, current |-> TRUE]

DevicesInit ==
    /\ day = 0
    /\ rows = [d \in DeviceIds |-> NoDevice]
    /\ issued = {}
    /\ dreq = [r \in DeviceRequests |-> IdleDevice]
    /\ trustAsked = {}
    /\ trustAnswered = {}
    /\ lastUse = [d \in DeviceIds |-> 0]
    /\ overwritten = {}

Present == {d \in DeviceIds : rows[d] # NoDevice}

-----------------------------------------------------------------------------
(* The first await: the row is read.                                       *)

\* r has read device d and will write it back as copy.
ReadDevice(r, op, user, d, copy) ==
    /\ dreq[r].op = "idle"
    /\ dreq' = [dreq EXCEPT ![r] =
         [op |-> op, user |-> user, machine |-> rows[d].machine,
          id |-> d, copy |-> copy, current |-> TRUE]]

\* Slip: only a new device gets a last-seen time.
RegisterFinds_KeepsSeen(r, u, d) ==
    /\ ReadDevice(r, "seen", u, d, rows[d])
    /\ UNCHANGED <<day, rows, issued, trustAsked, trustAnswered, lastUse, overwritten>>

\* registerDevice, findByFingerprint finds a row: whose it is is not asked.
RegisterFinds(r, u, d) ==
    /\ ReadDevice(r, "seen", u, d, [rows[d] EXCEPT !.seen = day])
    /\ UNCHANGED <<day, rows, issued, trustAsked, trustAnswered, lastUse, overwritten>>

\* registerDevice, no row has the fingerprint.
RegisterNew(r, u, m) ==
    /\ dreq[r].op = "idle"
    /\ \A d \in Present : rows[d].machine # m
    /\ dreq' = [dreq EXCEPT ![r] =
         [op |-> "create", user |-> u, machine |-> m, id |-> NoDevice,
          copy |-> [user |-> u, machine |-> m, trusted |-> FALSE, seen |-> day],
          current |-> TRUE]]
    /\ UNCHANGED <<day, rows, issued, trustAsked, trustAnswered, lastUse, overwritten>>

\* updateDeviceLastSeen
FindForLastSeen(r, d) ==
    /\ ReadDevice(r, "seen", NoDevice, d, [rows[d] EXCEPT !.seen = day])
    /\ UNCHANGED <<day, rows, issued, trustAsked, trustAnswered, lastUse, overwritten>>

AskTrust(u, d) ==
    trustAsked' = IF rows[d].user = u THEN trustAsked \cup {d} ELSE trustAsked

\* markDeviceAsTrusted, of a device that belongs to the user
FindForTrust(r, u, d) ==
    /\ rows[d].user = u
    /\ ReadDevice(r, "trust", u, d, [rows[d] EXCEPT !.trusted = TRUE])
    /\ AskTrust(u, d)
    /\ UNCHANGED <<day, rows, issued, trustAnswered, lastUse, overwritten>>

\* removeDevice
FindForRemoval(r, u, d) ==
    /\ rows[d].user = u
    /\ ReadDevice(r, "remove", u, d, rows[d])
    /\ UNCHANGED <<day, rows, issued, trustAsked, trustAnswered, lastUse, overwritten>>

-----------------------------------------------------------------------------
(* The second await: one statement.                                        *)

\* r is done; copies of d that others hold are out of date once d is written.
Written(r, d) ==
    dreq' = [q \in DeviceRequests |->
               IF q = r THEN IdleDevice
               ELSE IF dreq[q].id = d THEN [dreq[q] EXCEPT !.current = FALSE]
               ELSE dreq[q]]

\* DeviceRepository.update: every column of the copy, keyed by the id.
UpdateDevice(r) ==
    /\ dreq[r].op \in {"seen", "trust"}
    /\ LET d == dreq[r].id IN
       /\ d \in Present
       /\ rows' = [rows EXCEPT ![d] = dreq[r].copy]
       /\ overwritten' = IF dreq[r].current THEN overwritten ELSE overwritten \cup {d}
       /\ trustAnswered' = IF dreq[r].op = "trust" THEN trustAnswered \cup {d}
                           ELSE trustAnswered
       /\ lastUse' = IF dreq[r].op = "seen" THEN [lastUse EXCEPT ![d] = day] ELSE lastUse
       /\ Written(r, d)
    /\ UNCHANGED <<day, issued, trustAsked>>

\* DeviceRepository.create: the fingerprint is unique.
CreateDevice(r, d) ==
    /\ dreq[r].op = "create"
    /\ d \notin issued
    /\ \A e \in Present : rows[e].machine # dreq[r].machine
    /\ rows' = [rows EXCEPT ![d] = dreq[r].copy]
    /\ issued' = issued \cup {d}
    /\ lastUse' = [lastUse EXCEPT ![d] = day]
    /\ Written(r, d)
    /\ UNCHANGED <<day, trustAsked, trustAnswered, overwritten>>

\* DeviceRepository.delete
DeleteDevice(r) ==
    /\ dreq[r].op = "remove" /\ dreq[r].id \in Present
    /\ rows' = [rows EXCEPT ![dreq[r].id] = NoDevice]
    /\ Written(r, NoDevice)
    /\ UNCHANGED <<day, issued, trustAsked, trustAnswered, lastUse, overwritten>>

\* NotFoundError (the row is gone), ConflictError (the fingerprint is taken),
\* or the database fails.
DeviceThrows(r) ==
    /\ dreq[r].op # "idle"
    /\ Written(r, NoDevice)
    /\ UNCHANGED <<day, rows, issued, trustAsked, trustAnswered, lastUse, overwritten>>

\* cleanupUnusedDevices: one DELETE.
CleanupUnusedDevices ==
    /\ rows' = [d \in DeviceIds |->
                  IF d \in Present /\ rows[d].seen + UnusedDays < day THEN NoDevice
                  ELSE rows[d]]
    /\ UNCHANGED <<day, issued, dreq, trustAsked, trustAnswered, lastUse, overwritten>>

\* No request lasts for days.
NextDay ==
    /\ day < MaxDay
    /\ \A r \in DeviceRequests : dreq[r].op = "idle"
    /\ day' = day + 1
    /\ UNCHANGED <<rows, issued, dreq, trustAsked, trustAnswered, lastUse, overwritten>>

DevicesNext ==
    \/ \E r \in DeviceRequests, u \in Owners :
         \/ \E m \in Machines : RegisterNew(r, u, m)
         \/ \E d \in Present :
              RegisterFinds(r, u, d) \/ FindForTrust(r, u, d) \/ FindForRemoval(r, u, d)
    \/ \E r \in DeviceRequests, d \in Present : FindForLastSeen(r, d)
    \/ \E r \in DeviceRequests :
         \/ UpdateDevice(r) \/ DeleteDevice(r) \/ DeviceThrows(r)
         \/ \E d \in DeviceIds : CreateDevice(r, d)
    \/ CleanupUnusedDevices \/ NextDay

DevicesSpec == DevicesInit /\ [][DevicesNext]_deviceVars

-----------------------------------------------------------------------------
(* Properties                                                              *)

\* A trusted device is one whose owner asked for it: neither another account on
\* the same machine nor a write that arrives after the device was removed and
\* registered again makes it trusted (markDeviceAsTrusted, registerDevice).
TrustIsAsked == \A d \in Present : rows[d].trusted => d \in trustAsked

\* A device its owner was told is trusted stays so, unless a request that had
\* read it before wrote its older copy over it.
TrustLossExplained ==
    \A d \in Present : d \in trustAnswered \ overwritten => rows[d].trusted

\* A device disappears because its owner removes it or because it was not used
\* for UnusedDays; one used since can only fall to an overwritten lastSeenAt
\* (cleanupUnusedDevices).
CleanupSparesUsed ==
    \A d \in Present : rows'[d] = NoDevice =>
        \/ lastUse[d] + UnusedDays < day
        \/ d \in overwritten
        \/ \E r \in DeviceRequests : dreq[r].op = "remove" /\ dreq[r].id = d

\* A device keeps what its owner said of it, as long as it is used.
DevicesKept == [][TrustIsAsked' /\ TrustLossExplained' /\ CleanupSparesUsed]_deviceVars
===============================================================================
