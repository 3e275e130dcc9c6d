----------------------------- MODULE ConfigPatch -----------------------------
(* ImprovementEngine and config_patch: approvals of any proposal, and the   *)
(* preparation, application, comparison and roll-back of the patch of a     *)
(* configuration change (E2).  The configuration is a file of its own: a    *)
(* call loads it, copies the file to a backup, writes what it loaded with   *)
(* its changes, and then records an audit row; it may break off before or   *)
(* inside each write, and others may find the file half written.            *)
(*                                                                          *)
(* Nothing in the repository records configuration changes as proposals     *)
(* but its tests; they are there from the start.                            *)
EXTENDS ImprovementTables

CONSTANTS
    Paths, Values,  \* dotted paths of the configuration, and what is there
    Unreadable,     \* a file that is not a YAML mapping
    NoFile,
    Original,       \* the configuration before any call
    Patch,          \* per proposal, the values of the paths it changes
    RollbackValue,  \* per proposal, its rollback_value as YAML
    Whitelisted,    \* proposals that change whitelisted paths only
    LowRisk,        \* proposals whose risk is "low"
    Cuts,           \* per value, what the front of its text may parse as
    Stamps          \* suffixes of backup names: "manual" without created_at,
                    \* else int(created_at * 1000)

Config == [Paths -> Values \cup {None}]

ASSUME ConfigAssumption ==
    /\ Original \in [Paths -> Values]
    /\ None \notin Values
    /\ {Unreadable, NoFile} \cap Config = {}
    /\ DOMAIN Patch = Proposals
    /\ \A p \in Proposals : /\ DOMAIN Patch[p] \subseteq Paths
                            /\ \A q \in DOMAIN Patch[p] : Patch[p][q] \in Values
    /\ RollbackValue \in [Proposals -> Values]
    /\ Whitelisted \cup LowRisk \subseteq Proposals
    /\ Cuts \in [Values -> SUBSET Values]
    /\ \A v \in Values : \A w \in Cuts[v] : Cuts[w] \subseteq Cuts[v]

VARIABLES
    file,      \* the configuration file
    backups,   \* the backup files, by suffix
    torn,      \* history: the file has been half written, for a moment or
               \* for good
    clashed    \* history: two calls have used one backup name

files == <<file, backups, torn, clashed>>

Content == Config \cup {Unreadable}

Copy(s) == [table |-> "backup", stamp |-> s]

Replace(f) == [table |-> "file", content |-> f]

FileWrite == [table : {"backup"}, stamp : Stamps]
                 \cup [table : {"file"}, content : Config]

------------------------------------------------------------------------------

\* No call has used this name.
Unused(s) ==
    /\ backups[s] = NoFile
    /\ \A c \in Callers : \A i \in DOMAIN call[c] : call[c][i] # Copy(s)

\* _backup_path: nothing keeps two calls from using one name, and a copy
\* overwrites what is there.
NamesBackup(s) ==
    /\ clashed' = (clashed \/ ~Unused(s))
    /\ UNCHANGED <<file, backups, torn>>

\* _set_path for every path of the patch.
SetPaths(f, p, value) ==
    [q \in Paths |-> IF q \in DOMAIN Patch[p] THEN value[q] ELSE f[q]]

\* prepare_config_patch: the proposal is recorded, its patch is not empty, the
\* file is a mapping and every path is whitelisted.
Prepares(p) ==
    /\ p \in proposals
    /\ Patch[p] # <<>>
    /\ file # Unreadable
    /\ p \in Whitelisted

\* ImprovementEngine.record_approval looks at nothing: not at the level of
\* the proposal, nor whether it is recorded.
RecordAnyApproval(c, p) ==
    \E d \in {"approved", "rejected"} :
        Starts(c, <<Approve(p, d),
                    Audit(p, IF d = "approved" THEN "human_approved"
                             ELSE "human_rejected", Blank)>>)

PrepareConfigPatch(c, p) ==
    /\ Prepares(p)
    /\ Starts(c, <<Audit(p, "config_patch_prepared", Blank)>>)

CompareConfigPatch(c, p) ==
    /\ Prepares(p)
    /\ Starts(c, <<Audit(p, "dry_run_before", Blank),
                   Audit(p, "dry_run_after", Blank)>>)

\* (Wrong variant: a decision of either kind will do.)
AppliesAskedFor(p) == Prepares(p) /\ AskedFor(p) /\ p \in LowRisk

Applies(p) == Prepares(p) /\ IsApproved(p) /\ p \in LowRisk

\* (Wrong variant: the file is written before it is copied.)
RewriteFirst(s, f, row) == <<Replace(f), Copy(s), row>>

\* The writes of a call that changes the file to f.
Rewrite(s, f, row) == <<Copy(s), Replace(f), row>>

ApplyConfigPatch(c, p, s) ==
    /\ Applies(p)
    /\ NamesBackup(s)
    /\ Starts(c, Rewrite(s, SetPaths(file, p, Patch[p]),
                         Audit(p, "config_patch_applied", Blank)))

\* A roll-back puts its one value at every path of the patch; it asks for no
\* approval and no risk, and a path that is not whitelisted makes it raise
\* after the copy.
RollbackConfigPatch(c, p, s) ==
    /\ p \in proposals
    /\ Patch[p] # <<>>
    /\ file # Unreadable
    /\ NamesBackup(s)
    /\ Starts(c, IF p \notin Whitelisted THEN <<Copy(s)>>
                 ELSE Rewrite(s, SetPaths(file, p,
                                     [q \in Paths |-> RollbackValue[p]]),
                              Audit(p, "rollback_prepared", Blank)))

ConfigChange(c, p) ==
    \/ /\ \/ RecordAnyApproval(c, p)
          \/ PrepareConfigPatch(c, p)
          \/ CompareConfigPatch(c, p)
       /\ UNCHANGED files
    \/ \E s \in Stamps : ApplyConfigPatch(c, p, s) \/ RollbackConfigPatch(c, p, s)

------------------------------------------------------------------------------

\* path.write_text of the copy or of the new configuration.
Writes(w) ==
    \/ /\ w.table = "backup"
       /\ backups' = [backups EXCEPT ![w.stamp] = file]
       /\ UNCHANGED <<file, torn, clashed>>
    \/ /\ w.table = "file"
       /\ file' = w.content
       /\ UNCHANGED <<backups, torn, clashed>>

\* What is left of a value when its text is cut off.
Cut(v) == IF v = None THEN {} ELSE Cuts[v]

\* What can be found of a content while write_text is at it, or after it died:
\* the file is truncated and filled from the front, so that what is there may
\* not parse, or some paths are whole, one may be cut off in its value, and
\* the rest are missing.
Torn(f) == {Unreadable} \cup
    {g \in Config :
        /\ f # Unreadable
        /\ \E cut \in Paths : \A q \in Paths :
              \/ g[q] \in {f[q], None}
              \/ q = cut /\ g[q] \in Cut(f[q])}

\* The file in the middle of its write: any call may load it or copy it.
HalfWrites(w) ==
    /\ w.table = "file"
    /\ file' \in Torn(w.content)
    /\ torn' = TRUE
    /\ UNCHANGED <<backups, clashed>>

\* A copy that breaks off.  Nobody reads a backup, so half a copy matters only
\* when it stays.
TearsCopy(w) ==
    /\ w.table = "backup"
    /\ \E f \in Torn(file) : backups' = [backups EXCEPT ![w.stamp] = f]
    /\ UNCHANGED <<file, torn, clashed>>

FilesInit ==
    /\ file = Original
    /\ backups = [s \in Stamps |-> NoFile]
    /\ torn = FALSE
    /\ clashed = FALSE

=============================================================================
