------------------------------ MODULE Accounts ------------------------------
(***************************************************************************)
(* Users, channels, subscriptions, enrollment codes and devices of one nod *)
(* server, as the functions of db/users.rs, db/channels.rs,                *)
(* db/subscriptions.rs, db/enrollment.rs and db/devices.rs commit them.    *)
(*                                                                         *)
(* SQLite serialises writers, so what one statement or one BEGIN IMMEDIATE *)
(* transaction does is one step.  Three handlers check in one statement    *)
(* and write in a later one; between the two they sit in handler[h], where *)
(* any other step may overtake them and a crash may lose them.             *)
(***************************************************************************)
EXTENDS Naturals

CONSTANTS
    Users,          \* user ids
    Channels,       \* channel ids
    Devices,        \* device ids, one per enrollment (auth::new_id)
    NativeDevices,  \* devices that run a native app and can obtain a push token
    Codes,          \* enrollment codes (auth::generate_enrollment_code)
    Handlers,       \* concurrent HTTP handlers of the two-statement kind
    Owner,          \* the user 'owner' of seed_defaults
    DefaultChannel, \* the channel 'default' of seed_defaults
    SeedUsers,      \* users already created in the initial database
    SeedOwner,      \* user of a device already enrolled in it, None for the others
    CodeLifetime,   \* expires_in_seconds of a code, in clock units
    MaxTime,        \* bound on the clock
    None            \* SQL NULL

ASSUME AccountsAssumption ==
    /\ Owner \in Users
    /\ DefaultChannel \in Channels
    /\ NativeDevices \subseteq Devices
    /\ SeedUsers \subseteq Users
    /\ Owner \in SeedUsers
    /\ SeedOwner \in [Devices -> SeedUsers \cup {None}]
    /\ CodeLifetime \in Nat \ {0}
    /\ MaxTime \in Nat
    /\ None \notin Users \cup Channels \cup Codes \cup Nat

VARIABLES
    now,            \* Utc::now()
    user,           \* users.deleted_at: "none" (no row), "active", "deleted"
    channels,       \* ids of the rows of channels
    subscription,   \* user_channel_subscriptions: "none" (no row), "on", "off"
    codes,          \* user_enrollment_codes
    device,         \* devices.revoked_at: "none" (no row), "active", "revoked"
    owner,          \* devices.user_id
    registered,     \* devices with a push token and a native app id
    handler,        \* what a two-statement handler has checked but not written
    enrolledBy      \* history: the code a device was enrolled with

accountVars == <<now, user, channels, subscription, codes, device, owner,
                 registered, handler, enrolledBy>>

Code == [user : Users, expires : Nat, consumed : BOOLEAN]

ASSUME NullIsNoCode == None \notin Code

(* An idle handler, or one between its check and its write. *)
Idle == [op |-> "idle"]
Op == {Idle}
        \cup [op : {"welcome", "code"}, user : Users]
        \cup [op : {"subscribe"}, user : Users, channel : Channels, value : {"on", "off"}]

AccountsTypeOK ==
    /\ now \in 0..MaxTime
    /\ user \in [Users -> {"none", "active", "deleted"}]
    /\ channels \subseteq Channels
    /\ subscription \in [Users \X Channels -> {"none", "on", "off"}]
    /\ codes \in [Codes -> Code \cup {None}]
    /\ device \in [Devices -> {"none", "active", "revoked"}]
    /\ owner \in [Devices -> Users \cup {None}]
    /\ registered \subseteq Devices
    /\ handler \in [Handlers -> Op]
    /\ enrolledBy \in [Devices -> Codes \cup {None}]

(* seed_defaults on a new database, and the users and devices a run starts from. *)
AccountsInit ==
    /\ now = 0
    /\ user = [u \in Users |-> IF u \in SeedUsers THEN "active" ELSE "none"]
    /\ channels = {DefaultChannel}
    /\ subscription = [p \in Users \X Channels |->
                         IF p[1] \in SeedUsers /\ p[2] = DefaultChannel THEN "on" ELSE "none"]
    /\ codes = [c \in Codes |-> None]
    /\ device = [d \in Devices |-> IF SeedOwner[d] = None THEN "none" ELSE "active"]
    /\ owner = SeedOwner
    /\ registered = {}
    /\ handler = [h \in Handlers |-> Idle]
    /\ enrolledBy = [d \in Devices |-> None]

-----------------------------------------------------------------------------
(* The clock: any time may pass between two steps. *)
Tick ==
    /\ now' \in (now + 1)..MaxTime
    /\ UNCHANGED <<user, channels, subscription, codes, device, owner,
                   registered, handler, enrolledBy>>

(* Definitions named ...Without..., ...Ignoring... and the like restate the  *)
(* definition that follows with a defect a change to the code could bring    *)
(* in; the properties below are checked to notice it.                        *)

(* create_user: the upsert refuses a deleted id ... *)
CreateUser(h, u) ==
    /\ handler[h] = Idle
    /\ user[u] # "deleted"
    /\ user' = [user EXCEPT ![u] = "active"]
    /\ handler' = [handler EXCEPT ![h] = [op |-> "welcome", user |-> u]]
    /\ UNCHANGED <<now, channels, subscription, codes, device, owner, registered, enrolledBy>>

(* ... and a second statement subscribes the user to 'default', keeping an   *)
(* existing row; with the channel deleted it fails on its foreign key.       *)
SubscribeToDefault(h) ==
    /\ handler[h].op = "welcome"
    /\ LET row == <<handler[h].user, DefaultChannel>>
       IN  subscription' = IF DefaultChannel \in channels /\ subscription[row] = "none"
                           THEN [subscription EXCEPT ![row] = "on"]
                           ELSE subscription
    /\ handler' = [handler EXCEPT ![h] = Idle]
    /\ UNCHANGED <<now, user, channels, codes, device, owner, registered, enrolledBy>>

ActiveDevicesOf(u) == {d \in Devices : owner[d] = u /\ device[d] = "active"}

(* delete_user: a soft delete, refused while an active device remains. *)
DeleteUser(u) ==
    /\ ActiveDevicesOf(u) = {}
    /\ user[u] = "active"
    /\ user' = [user EXCEPT ![u] = "deleted"]
    /\ UNCHANGED <<now, channels, subscription, codes, device, owner, registered,
                   handler, enrolledBy>>

(* create_channel: an upsert, so only a missing id changes anything here. *)
CreateChannel(c) ==
    /\ channels' = channels \cup {c}
    /\ c \notin channels
    /\ UNCHANGED <<now, user, subscription, codes, device, owner, registered,
                   handler, enrolledBy>>

(* The account tables' part of delete_channel. *)
DropChannel(c) ==
    /\ c \in channels
    /\ channels' = channels \ {c}
    /\ subscription' = [p \in Users \X Channels |->
                          IF p[2] = c THEN "none" ELSE subscription[p]]
    /\ UNCHANGED <<now, user, codes, device, owner, registered, handler, enrolledBy>>

(* set_user_subscription: get_user and get_channel ... *)
CheckSubscription(h, u, c, v) ==
    /\ handler[h] = Idle
    /\ user[u] = "active"
    /\ c \in channels
    /\ handler' = [handler EXCEPT ![h] =
                     [op |-> "subscribe", user |-> u, channel |-> c, value |-> v]]
    /\ UNCHANGED <<now, user, channels, subscription, codes, device, owner,
                   registered, enrolledBy>>

(* ... then the upsert, which the foreign key refuses if the channel is gone. *)
WriteSubscription(h) ==
    /\ handler[h].op = "subscribe"
    /\ LET o == handler[h]
       IN  subscription' = IF o.channel \in channels
                           THEN [subscription EXCEPT ![<<o.user, o.channel>>] = o.value]
                           ELSE subscription
    /\ handler' = [handler EXCEPT ![h] = Idle]
    /\ UNCHANGED <<now, user, channels, codes, device, owner, registered, enrolledBy>>

(* create_enrollment_code: get_user, then the insert of a fresh code. *)
CheckCodeUser(h, u) ==
    /\ handler[h] = Idle
    /\ user[u] = "active"
    /\ handler' = [handler EXCEPT ![h] = [op |-> "code", user |-> u]]
    /\ UNCHANGED <<now, user, channels, subscription, codes, device, owner,
                   registered, enrolledBy>>

InsertCode(h, c) ==
    /\ handler[h].op = "code"
    /\ codes[c] = None
    /\ codes' = [codes EXCEPT ![c] =
                   [user |-> handler[h].user, expires |-> now + CodeLifetime, consumed |-> FALSE]]
    /\ handler' = [handler EXCEPT ![h] = Idle]
    /\ UNCHANGED <<now, user, channels, subscription, device, owner, registered, enrolledBy>>

CodeUsableIgnoringConsumption(c) ==
    codes[c] # None /\ now < codes[c].expires /\ user[codes[c].user] = "active"

CodeUsableIgnoringUser(c) ==
    codes[c] # None /\ ~codes[c].consumed /\ now < codes[c].expires

CodeUsable(c) ==
    /\ codes[c] # None
    /\ ~codes[c].consumed
    /\ now < codes[c].expires
    /\ user[codes[c].user] = "active"

(* enroll_device: consume the code and insert the device in one transaction. *)
EnrollDevice(c, d, push) ==
    /\ CodeUsable(c)
    /\ device[d] = "none"
    /\ push => d \in NativeDevices
    /\ codes' = [codes EXCEPT ![c] =
                   [user |-> codes[c].user, expires |-> codes[c].expires, consumed |-> TRUE]]
    /\ device' = [device EXCEPT ![d] = "active"]
    /\ owner' = [owner EXCEPT ![d] = codes[c].user]
    /\ registered' = IF push THEN registered \cup {d} ELSE registered
    /\ enrolledBy' = [enrolledBy EXCEPT ![d] = c]
    /\ UNCHANGED <<now, user, channels, subscription, handler>>

(* delete_device and revoke_user_device. *)
RevokeDevice(d) ==
    /\ device[d] = "active"
    /\ device' = [device EXCEPT ![d] = "revoked"]
    /\ registered' = registered \ {d}
    /\ UNCHANGED <<now, user, channels, subscription, codes, owner, handler, enrolledBy>>

(* update_push_token: the caller authenticated earlier, the statement itself *)
(* re-checks revoked_at.                                                     *)
UpdatePushToken(d) ==
    /\ device[d] = "active"
    /\ d \in NativeDevices \ registered
    /\ registered' = registered \cup {d}
    /\ UNCHANGED <<now, user, channels, subscription, codes, device, owner, handler, enrolledBy>>

(* The process stops and starts again: handlers are lost, seed_defaults runs. *)
Restart ==
    /\ handler' = [h \in Handlers |-> Idle]
    /\ channels' = channels \cup {DefaultChannel}
    /\ user' = [user EXCEPT ![Owner] = IF @ = "none" THEN "active" ELSE @]
    /\ subscription' = [subscription EXCEPT ![<<Owner, DefaultChannel>>] =
                          IF @ = "none" THEN "on" ELSE @]
    /\ UNCHANGED <<now, codes, device, owner, registered, enrolledBy>>

(* Every step of the account tables that leaves the request tables alone. *)
AccountsStep ==
    \/ Tick
    \/ \E h \in Handlers :
         \/ \E u \in Users : CreateUser(h, u) \/ CheckCodeUser(h, u)
         \/ \E u \in Users, c \in Channels, v \in {"on", "off"} : CheckSubscription(h, u, c, v)
         \/ SubscribeToDefault(h)
         \/ WriteSubscription(h)
         \/ \E c \in Codes : InsertCode(h, c)
    \/ \E u \in Users : DeleteUser(u)
    \/ \E c \in Channels : CreateChannel(c)
    \/ \E c \in Codes, d \in Devices, push \in BOOLEAN : EnrollDevice(c, d, push)
    \/ \E d \in Devices : RevokeDevice(d) \/ UpdatePushToken(d)

AccountsNext ==
    \/ AccountsStep
    \/ \E c \in Channels : DropChannel(c)
    \/ Restart

AccountsSpec == AccountsInit /\ [][AccountsNext]_accountVars

-----------------------------------------------------------------------------
(* A deleted user owns no active device, whatever the order in which a code  *)
(* was checked, issued and redeemed and the user deleted (delete_user and    *)
(* enroll_device both run under BEGIN IMMEDIATE).                            *)
DeletedUserHasNoActiveDevice ==
    \A d \in Devices : device[d] = "active" => user[owner[d]] = "active"

(* A code enrolls at most one device (enroll_device: "expired or already     *)
(* used"), and exactly the codes that enrolled one are consumed.             *)
CodeEnrollsOnce ==
    /\ \A d, e \in Devices : enrolledBy[d] # None /\ enrolledBy[d] = enrolledBy[e] => d = e
    /\ \A c \in Codes : (codes[c] # None /\ codes[c].consumed)
                           <=> \E d \in Devices : enrolledBy[d] = c

(* A revoked device holds no push token, so a token registered by a request  *)
(* that authenticated before the revocation never outlives it.               *)
OnlyActiveDevicesRegistered == \A d \in registered : device[d] = "active"

=============================================================================
