----------------------------- MODULE ClientStore ------------------------------
(***************************************************************************)
(* The configuration file that the terminal, the desktop application and   *)
(* the command-line shells of one user share (store.rs), with the          *)
(* workflows that edit it.  Every shell works on its own copy and, when it *)
(* saves, merges its edits since its last save into what is on disk, under *)
(* a file lock.  A shell may be killed between any two steps of a save,    *)
(* and the file may be damaged once.                                       *)
(*                                                                         *)
(* Tokens and software signing keys are written and deleted together and   *)
(* are one map here, in the file or in the system's keyring.               *)
(***************************************************************************)
EXTENDS Naturals, FiniteSets

CONSTANTS
    Shells,
    Ids,            \* profile ids
    OldId,          \* the id each profile had before ids came from the whole URL
    Stored,         \* old ids of the profiles on disk, unless it is a new installation
    MaxEdits,       \* enrollments, selections and forgotten servers
    MaxKills,       \* killed shells
    Nobody

ASSUME StoreAssumption ==
    /\ OldId \in [Ids -> {OldId[i] : i \in Ids}] /\ {OldId[i] : i \in Ids} \cap Ids = {}
    /\ Stored \subseteq {OldId[i] : i \in Ids} /\ {MaxEdits, MaxKills} \subseteq Nat
    /\ Nobody \notin Shells

VARIABLES
    inFile,     \* credentials are kept in the file, not in the keyring
    legacy,     \* an older release had left its configuration
    primary,    \* client-core.json
    backup,     \* client-core.json.bak
    ring,       \* the keyring's credentials
    holder,     \* the shell that holds the file lock
    shell,      \* each shell's copy, merge base and progress
    edits,      \* edits so far
    kills,      \* shells killed so far
    damaged     \* the file was damaged

storeVars == <<inFile, legacy, primary, backup, ring, holder, shell, edits, kills, damaged>>

Absent == [there |-> FALSE, ok |-> FALSE]
File(cfg) == [there |-> TRUE, ok |-> TRUE, cfg |-> cfg]
Readable(file) == file.there /\ file.ok

Without(map, keys) == [x \in DOMAIN map \ keys |-> map[x]]
Overlay(top, map) == [x \in DOMAIN top \cup DOMAIN map |-> IF x \in DOMAIN top THEN top[x] ELSE map[x]]
With(map, x, value) == Overlay([y \in {x} |-> value], map)
NoEntries == [x \in {} |-> 0]
DefaultConfig == [profiles |-> NoEntries, creds |-> NoEntries, sel |-> Nobody]
Off == [pc |-> "off", own |-> DefaultConfig, base |-> DefaultConfig, next |-> DefaultConfig,
        recovered |-> FALSE, edited |-> {}]

\* Mutant: what this shell does not hold is removed, whoever put it there.
MergeMapDropping(base, own, disk) == [x \in DOMAIN own |-> own[x]]

\* merge_map, also the rule for profiles: what this shell removed or changed
\* since its merge base, and nothing else.
MergeMap(base, own, disk) ==
    LET removed == DOMAIN base \ DOMAIN own
        changed == {x \in DOMAIN own : x \notin DOMAIN base \/ base[x] # own[x]}
    IN  Overlay([x \in changed |-> own[x]], Without(disk, removed))

\* Mutant: a credential that is on disk already is not replaced.
MergeConfigKeepingTokens(base, own, disk) ==
    [profiles |-> MergeMap(base.profiles, own.profiles, disk.profiles),
     creds |-> Overlay(disk.creds, MergeMap(base.creds, own.creds, disk.creds)),
     sel |-> IF own.sel # base.sel THEN own.sel ELSE disk.sel]

MergeConfig(base, own, disk) ==
    [profiles |-> MergeMap(base.profiles, own.profiles, disk.profiles),
     creds |-> MergeMap(base.creds, own.creds, disk.creds),
     sel |-> IF own.sel # base.sel THEN own.sel ELSE disk.sel]

\* selected_server_id_for: a selection that is not there falls back.
Selected(cfg) ==
    IF cfg.sel \in DOMAIN cfg.profiles THEN cfg
    ELSE [cfg EXCEPT !.sel = IF DOMAIN cfg.profiles = {} THEN Nobody
                             ELSE CHOOSE x \in DOMAIN cfg.profiles : TRUE]

\* migrate_profile_ids: the profile moves, its credentials stay where they are.
NewId(x) == IF x \in Ids THEN x ELSE CHOOSE i \in Ids : OldId[i] = x
MigrateProfileIds(cfg) ==
    [cfg EXCEPT !.profiles = [i \in {NewId(x) : x \in DOMAIN @} |->
                                IF i \in DOMAIN @ THEN @[i] ELSE @[OldId[i]]],
                !.sel = IF @ = Nobody THEN @ ELSE NewId(@)]
----------------------------------------------------------------------------
StoreInit ==
    /\ inFile \in BOOLEAN /\ legacy \in BOOLEAN
    /\ LET stored == IF legacy THEN Stored ELSE {}
           creds == [x \in stored |-> 0]
           cfg == [profiles |-> [x \in stored |-> [device |-> 0, cred |-> x]],
                   creds |-> IF inFile THEN creds ELSE NoEntries, sel |-> Nobody]
       IN  /\ primary = IF stored = {} THEN Absent ELSE File(cfg)
           /\ ring = IF inFile THEN NoEntries ELSE creds
    /\ backup = Absent /\ holder = Nobody /\ shell = [p \in Shells |-> Off]
    /\ edits = 0 /\ kills = 0 /\ damaged = FALSE

\* Store::load and with_store; no step where both copies are unreadable.
ShellStarts(p) ==
    /\ shell[p].pc = "off"
    /\ Readable(primary) \/ ~primary.there \/ Readable(backup)
    /\ LET recovered == primary.there /\ ~primary.ok
           cfg == IF recovered THEN backup.cfg
                  ELSE IF primary.there THEN primary.cfg ELSE DefaultConfig
           own == MigrateProfileIds(cfg)
           moved == {x \in DOMAIN cfg.profiles : x \notin Ids}
       IN  shell' = [shell EXCEPT ![p] =
                [Off EXCEPT !.pc = IF moved = {} THEN "idle" ELSE "save",
                            !.own = IF moved = {} THEN Selected(own) ELSE own,
                            !.base = cfg, !.recovered = recovered,
                            !.edited = moved \cup {NewId(x) : x \in moved}]]
    /\ UNCHANGED <<inFile, legacy, primary, backup, ring, holder, edits, kills, damaged>>

\* One edit of the shell's own copy; the save follows.
Edits(p, own, touched) ==
    /\ shell[p].pc = "idle" /\ edits < MaxEdits /\ edits' = edits + 1
    /\ shell' = [shell EXCEPT ![p].own = own, ![p].pc = "save",
                              ![p].edited = @ \cup touched]
    /\ UNCHANGED <<inFile, legacy, primary, backup, holder, kills, damaged>>

\* enroll: credentials first, then the profile under the id of its URL.
EnrollsProfile(p, i) ==
    LET device == edits + 1
        own == shell[p].own
    IN  /\ Edits(p, [profiles |-> With(own.profiles, i, [device |-> device, cred |-> i]),
                     creds |-> IF inFile THEN With(own.creds, i, device) ELSE own.creds,
                     sel |-> i], {i})
        /\ ring' = IF inFile THEN ring ELSE With(ring, i, device)

\* select_server.
SelectsProfile(p, i) ==
    /\ i \in DOMAIN shell[p].own.profiles
    /\ Edits(p, [shell[p].own EXCEPT !.sel = i], {})
    /\ UNCHANGED ring

\* forget_server: profile and credentials; another profile is selected.
ForgetsProfile(p, i) ==
    LET own == shell[p].own
        cred == own.profiles[i].cred
    IN  /\ i \in DOMAIN own.profiles
        /\ Edits(p, Selected([own EXCEPT !.profiles = Without(@, {i}),
                                         !.creds = Without(@, {cred})]), {i, cred})
        /\ ring' = Without(ring, {cred})

\* save_locked: the lock, the file as it is now (a recovered shell may still
\* read the backup), and the merge.
SaveLocks(p) ==
    LET disk == IF ~Readable(primary) /\ shell[p].recovered THEN backup ELSE primary
    IN  /\ shell[p].pc = "save" /\ holder = Nobody
        /\ IF disk.there => disk.ok
           THEN /\ holder' = p
                /\ shell' = [shell EXCEPT ![p].pc = "merged",
                     ![p].next = MergeConfig(shell[p].base, shell[p].own,
                                             IF disk.there THEN disk.cfg ELSE DefaultConfig)]
           ELSE shell' = [shell EXCEPT ![p].pc = "idle"] /\ UNCHANGED holder
        /\ UNCHANGED <<inFile, legacy, primary, backup, ring, edits, kills, damaged>>

\* Mutant: whatever is at the path becomes the backup.
BacksUpAlways(p) == primary.there

\* A recovered shell keeps the backup it lives on.
BacksUp(p) == primary.there /\ ~shell[p].recovered

\* fs::copy to the backup is not atomic: it is unreadable while it lasts.
SaveCopies(p) ==
    /\ shell[p].pc = "merged" /\ BacksUp(p)
    /\ backup' = [there |-> TRUE, ok |-> FALSE]
    /\ shell' = [shell EXCEPT ![p].pc = "copying"]
    /\ UNCHANGED <<inFile, legacy, primary, ring, holder, edits, kills, damaged>>

SaveCopied(p) ==
    /\ shell[p].pc = "copying"
    /\ backup' = primary
    /\ shell' = [shell EXCEPT ![p].pc = "backed"]
    /\ UNCHANGED <<inFile, legacy, primary, ring, holder, edits, kills, damaged>>

\* The last requested state is the merge base, not what was merged with it.
NextBase(s) == s.own

\* The synced temporary file is renamed over the configuration.
SaveRenames(p) ==
    /\ shell[p].pc = "backed" \/ (shell[p].pc = "merged" /\ ~BacksUp(p))
    /\ primary' = File(shell[p].next)
    /\ holder' = Nobody
    /\ shell' = [shell EXCEPT ![p].pc = "idle", ![p].base = NextBase(shell[p]),
                              ![p].own = Selected(@), ![p].edited = {}]
    /\ UNCHANGED <<inFile, legacy, backup, ring, edits, kills, damaged>>

\* The shell ends anywhere; the system releases its lock.
ShellKilled(p) ==
    /\ shell[p].pc # "off" /\ kills < MaxKills /\ kills' = kills + 1
    /\ shell' = [shell EXCEPT ![p] = Off]
    /\ holder' = IF holder = p THEN Nobody ELSE holder
    /\ UNCHANGED <<inFile, legacy, primary, backup, ring, edits, damaged>>

\* The file is damaged while no save runs and its backup is whole.
FileDamaged ==
    /\ ~damaged /\ damaged' = TRUE /\ holder = Nobody
    /\ Readable(primary) /\ Readable(backup)
    /\ primary' = [there |-> TRUE, ok |-> FALSE]
    /\ UNCHANGED <<inFile, legacy, backup, ring, holder, shell, edits, kills>>

StoreNext ==
    \/ \E p \in Shells :
        \/ ShellStarts(p) \/ ShellKilled(p)
        \/ \E i \in Ids : EnrollsProfile(p, i) \/ SelectsProfile(p, i) \/ ForgetsProfile(p, i)
        \/ SaveLocks(p) \/ SaveCopies(p) \/ SaveCopied(p) \/ SaveRenames(p)
    \/ FileDamaged

StoreSpec == StoreInit /\ [][StoreNext]_storeVars
----------------------------------------------------------------------------
(***************************************************************************)
(* Properties.                                                             *)
(***************************************************************************)
\* What a save finds on disk.
OnDisk == IF Readable(primary) THEN primary.cfg
          ELSE IF Readable(backup) THEN backup.cfg ELSE DefaultConfig

Entry(map, x) == IF x \in DOMAIN map THEN <<map[x]>> ELSE <<>>

\* "Changes made by another shell are preserved unless this shell actually
\* edits them": a save changes no profile and no credential on disk that its
\* user did not enroll or forget in this shell since its last save.
OtherShellsEditsStay ==
    [][primary'.ok =>
        \A x \in Ids \cup {OldId[i] : i \in Ids} :
            \/ /\ Entry(OnDisk.profiles, x) = Entry(primary'.cfg.profiles, x)
               /\ Entry(OnDisk.creds, x) = Entry(primary'.cfg.creds, x)
            \/ \E p \in Shells : holder = p /\ x \in shell[p].edited]_primary

\* However shells are killed in the middle of saves, and with the file damaged
\* once, one readable copy of the configuration remains.
ConfigurationSurvives ==
    \/ ~primary.there /\ ~backup.there
    \/ Readable(primary) \/ Readable(backup)

\* With credentials in the file of an installation that no older release had
\* used, every profile has on disk the credentials of that very enrollment,
\* though shells enroll and forget the same server concurrently, fail to save
\* or are killed, and each merges profiles and credentials apart.  (Where an
\* older release's profile moves to its new id the two are not always changed
\* together, and after enough edits a profile can lose its credentials.)
ProfilesKeepCredentials ==
    inFile /\ ~legacy /\ Readable(primary) =>
        \A x \in DOMAIN primary.cfg.profiles :
            LET profile == primary.cfg.profiles[x]
            IN  Entry(primary.cfg.creds, profile.cred) = <<profile.device>>
==============================================================================
