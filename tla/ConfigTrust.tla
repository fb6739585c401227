------------------------------ MODULE ConfigTrust ------------------------------
(***************************************************************************)
(* The configuration a launch applies (internal/config): the global file,  *)
(* the includes that match the project, and the project's own              *)
(* .devsandbox.toml, which the workload can rewrite and the user has to    *)
(* approve.  Approvals are kept in one file that launches and the trust    *)
(* command load, change and save whole, by truncating and writing it.      *)
(***************************************************************************)
EXTENDS Integers, Sequences

CONSTANTS
  Loaders,         \* launches and trust commands
  Projects,          \* project directories
  LocalFiles,      \* what a project's file may hold: settings
  Globals,         \* what the global file may hold: settings that validate
  Includes,        \* the sequence of [projects, file]: an include and where it matches
  NoFile,          \* an absent file, an absent entry
  Edits            \* how often files are rewritten: a bound

Unset == -1
DefaultBody == 1   \* default_max_log_body_bytes, in the unit of the settings
DefaultScan == 1

VARIABLES
  global,          \* the global file
  localFile,       \* per project its file, or NoFile
  rewrites,        \* rewrites so far
  store,           \* trusted-configs.toml: what it holds, per project
  torn,            \* the store has been truncated and not yet written
  loaderAt,        \* per actor where it is
  task,            \* what it does: launch, add, remove
  where,           \* its project
  loaded,          \* the store it has loaded
  contents,        \* the local file it has read
  settings,        \* the configuration it ends with
  approved,        \* what the user has approved, ever
  revoked,         \* the projects whose approval the user took back, and not since given
  lateSave         \* a store was saved that was loaded before the last other change

trustVars == <<global, localFile, rewrites, store, torn, loaderAt, task, where, loaded,
               contents, settings, approved, revoked, lateSave>>
fileVars == <<global, localFile, rewrites>>
userVars == <<approved, revoked>>

\* The limits are numbers.
Numbers(s) == s.scan \in Int /\ s.body \in Int
ASSUME LimitsAssumption ==
  /\ \A f \in LocalFiles \cup Globals : Numbers(f)
  /\ Len(Includes) \in Nat
  /\ \A n \in 1..Len(Includes) : Includes[n].file # NoFile => Numbers(Includes[n].file)

Empty == [p \in Projects |-> NoFile]
Stores == [Projects -> LocalFiles \cup {NoFile}]

-----------------------------------------------------------------------------
(* Settings and their merge *)

Severity(action) == CASE action = "block" -> 2 [] action = "redact" -> 1 [] OTHER -> 0

\* mostRestrictiveAction
MostRestrictive(a, b) == IF Severity(a) >= Severity(b) THEN a ELSE b

\* GetMaxScanBytes, GetMaxLogBodyBytes
ScanBytes(s) == IF s.scan <= 0 THEN DefaultScan ELSE s.scan
BodyBytes(s) == IF s.body = Unset THEN DefaultBody ELSE s.body

RedactActions == {"block", "redact", "log", "unset"}
IsolationBackends == {"auto", "bwrap", "docker", "krun", "unset"}

\* validateRedaction; "unclear" is a rule with no source and no pattern, or with both.
ValidRedaction(s) ==
  s.action \in RedactActions /\ s.scan >= 0 /\ \A n \in 1..Len(s.rules) : s.rules[n] # "unclear"

\* validatePortForwarding: rules of a file that does not switch it on are not looked at.
ValidForwarding(s) ==
  s.forward = "on" =>
    \A m \in 1..Len(s.ports) : /\ s.ports[m] \in 1..65535
                               /\ \A n \in 1..(m - 1) : s.ports[n] # s.ports[m]

\* Validate: one file by itself.  What comes of the merge is not validated.
Validates(s) ==
  /\ s.body = Unset \/ s.body >= 0
  /\ s.isolation \in IsolationBackends
  /\ ValidForwarding(s) /\ ValidRedaction(s)

\* mergeConfigs: scalars of the overlay win, but redaction can only be switched on
\* and its action only become stricter; lists are put before the base's.
MergeConfigs(base, over) ==
  [redact |-> IF over.redact # "unset" /\ base.redact # "on" THEN over.redact
              ELSE base.redact,
   action |-> IF over.action = "unset" THEN base.action
              ELSE MostRestrictive(base.action, over.action),
   scan |-> IF over.scan > 0 THEN over.scan ELSE base.scan,
   body |-> IF over.body # Unset THEN over.body ELSE base.body,
   isolation |-> IF over.isolation # "unset" THEN over.isolation ELSE base.isolation,
   rules |-> over.rules \o base.rules,
   forward |-> IF over.forward # "unset" THEN over.forward ELSE base.forward,
   ports |-> over.ports \o base.ports]

\* Mutant: a limit of the project is only compared when it is set to something.
MergeProjectConfig_ZeroPasses(base, local) ==
  LET m == MergeConfigs(base, local)
  IN [m EXCEPT !.body = IF m.body > 0 /\ m.body > BodyBytes(base) THEN base.body ELSE m.body,
               !.scan = IF ScanBytes(m) > ScanBytes(base) THEN base.scan ELSE m.scan]
\* mergeProjectConfig: the limits may be tightened only, and not to nothing.
MergeProjectConfig(base, local) ==
  LET m == MergeConfigs(base, local)
  IN [m EXCEPT !.body = IF m.body # Unset /\ (m.body <= 0 \/ m.body > BodyBytes(base))
                        THEN base.body ELSE m.body,
               !.scan = IF ScanBytes(m) > ScanBytes(base) THEN base.scan ELSE m.scan]

\* getMatchingIncludes
Matches(n, p) == p \in Includes[n].projects

\* applyIncludes: the matching ones, in order; one that is missing is skipped.
WithIncludes(p) ==
  LET upTo[n \in 0..Len(Includes)] ==
        IF n = 0 THEN global
        ELSE IF Matches(n, p) /\ Includes[n].file # NoFile
             THEN MergeConfigs(upTo[n - 1], Includes[n].file)
             ELSE upTo[n - 1]
  IN upTo[Len(Includes)]
Included(p) == {n \in 1..Len(Includes) : Matches(n, p) /\ Includes[n].file # NoFile}

-----------------------------------------------------------------------------

TrustTypeOK ==
  /\ global \in Globals /\ localFile \in Stores /\ rewrites \in 0..Edits
  /\ store \in Stores /\ torn \in BOOLEAN
  /\ loaderAt \in [Loaders -> {"start", "store", "local", "prompt", "truncate",
                               "write", "apply", "done", "failed"}]
  /\ task \in [Loaders -> {"launch", "add", "remove"}]
  /\ where \in [Loaders -> Projects]
  /\ loaded \in [Loaders -> Stores] /\ contents \in [Loaders -> LocalFiles \cup {NoFile}]
  /\ approved \subseteq Projects \X LocalFiles /\ revoked \subseteq Projects

TrustInit ==
  /\ global \in Globals
  /\ localFile \in [Projects -> LocalFiles]
  /\ rewrites = 0 /\ store = Empty /\ torn = FALSE
  /\ loaderAt = [a \in Loaders |-> "start"]
  /\ task \in [Loaders -> {"launch", "add", "remove"}]
  /\ where \in [Loaders -> Projects]
  /\ loaded = [a \in Loaders |-> Empty] /\ contents = [a \in Loaders |-> NoFile]
  /\ settings = [a \in Loaders |-> NoFile]
  /\ approved = {} /\ revoked = {} /\ lateSave = FALSE

Turn(a, next) == loaderAt' = [loaderAt EXCEPT ![a] = next]

\* A launch loads the store, then the files; `trust add' hashes the file first.
Begin(a) ==
  /\ loaderAt[a] = "start"
  /\ Turn(a, IF task[a] = "add" THEN "local" ELSE "store")
  /\ UNCHANGED <<fileVars, store, torn, task, where, loaded, contents, settings, userVars,
                 lateSave>>

\* LoadTrustStore: a truncated file is an empty store.
LoadStore(a) ==
  /\ loaderAt[a] = "store"
  /\ loaded' = [loaded EXCEPT ![a] = IF torn THEN Empty ELSE store]
  /\ CASE task[a] = "launch" -> Turn(a, "local")
       [] task[a] = "add" ->
            Turn(a, IF loaded'[a][where[a]] = contents[a] THEN "done" ELSE "truncate")
       [] OTHER -> Turn(a, IF loaded'[a][where[a]] = NoFile THEN "done" ELSE "truncate")
  /\ UNCHANGED <<fileVars, store, torn, task, where, contents, settings, userVars, lateSave>>

\* The local file is read, once; ensureTrusted compares it with the store's entry.
ReadLocal(a) ==
  /\ loaderAt[a] = "local"
  /\ contents' = [contents EXCEPT ![a] = localFile[where[a]]]
  /\ CASE task[a] = "add" -> Turn(a, IF contents'[a] = NoFile THEN "failed" ELSE "store")
       [] task[a] # "add" /\ contents'[a] \in {NoFile, loaded[a][where[a]]} -> Turn(a, "apply")
       [] OTHER -> Turn(a, "prompt")
  /\ UNCHANGED <<fileVars, store, torn, task, where, loaded, settings, userVars,
                 lateSave>>

\* A file that is declined, or nobody is asked about, is left out.
Decline(a) ==
  /\ loaderAt[a] = "prompt" /\ Turn(a, "apply")
  /\ contents' = [contents EXCEPT ![a] = NoFile]
  /\ UNCHANGED <<fileVars, store, torn, task, where, loaded, settings, userVars,
                 lateSave>>

Approve(a) ==
  /\ loaderAt[a] = "prompt" /\ Turn(a, "truncate")
  /\ approved' = approved \cup {<<where[a], contents[a]>>}
  /\ UNCHANGED <<fileVars, store, torn, task, where, loaded, contents, settings, revoked,
                 lateSave>>

\* AddTrust, RemoveTrust: on the copy.
Changed(a) == [loaded[a] EXCEPT ![where[a]] = IF task[a] = "remove" THEN NoFile ELSE contents[a]]

\* Save opens the file with O_TRUNC ...
Truncate(a) ==
  /\ loaderAt[a] = "truncate"
  /\ \/ Turn(a, "write") /\ torn' = TRUE
     \/ Turn(a, "failed") /\ UNCHANGED torn
  /\ lateSave' = (lateSave \/ (~torn /\ store # loaded[a]) \/ torn)
  /\ UNCHANGED <<fileVars, store, task, where, loaded, contents, settings, userVars>>

\* ... and writes it; the command tells the user that it is done.
WriteStore(a) ==
  /\ loaderAt[a] = "write"
  /\ Turn(a, IF task[a] = "launch" THEN "apply" ELSE "done")
  /\ store' = Changed(a) /\ torn' = FALSE
  /\ approved' = IF task[a] = "add" THEN approved \cup {<<where[a], contents[a]>>} ELSE approved
  /\ revoked' = IF task[a] = "remove" THEN revoked \cup {where[a]} ELSE revoked \ {where[a]}
  /\ lateSave' = (lateSave \/ ~torn)
  /\ UNCHANGED <<fileVars, task, where, loaded, contents, settings>>

\* Mutant: the file is read again when it is parsed.
LocalSettings_ReadAgain(a) ==
  LET now == localFile[where[a]] IN IF now = NoFile THEN contents[a] ELSE now
LocalSettings(a) == contents[a]

\* Each file that is applied has to validate.
AllValid(a) ==
  /\ \A n \in Included(where[a]) : Validates(Includes[n].file)
  /\ contents[a] # NoFile => Validates(LocalSettings(a))

\* One that does not ends the launch.
Invalid(a) ==
  /\ loaderAt[a] = "apply" /\ ~AllValid(a) /\ Turn(a, "failed")
  /\ UNCHANGED <<fileVars, store, torn, task, where, loaded, contents, settings, userVars,
                 lateSave>>

ApplyConfig(a) ==
  /\ loaderAt[a] = "apply" /\ AllValid(a) /\ Turn(a, "done")
  /\ LET base == WithIncludes(where[a])
     IN settings' = [settings EXCEPT ![a] =
                       IF contents[a] = NoFile THEN base
                       ELSE MergeProjectConfig(base, LocalSettings(a))]
  /\ UNCHANGED <<fileVars, store, torn, task, where, loaded, contents, userVars, lateSave>>

\* The workload of a sandbox, or the user, rewrites a project's file.
RewriteLocal ==
  /\ rewrites < Edits /\ rewrites' = rewrites + 1
  /\ \E p \in Projects, f \in LocalFiles \cup {NoFile} :
       f # localFile[p] /\ localFile' = [localFile EXCEPT ![p] = f]
  /\ UNCHANGED <<global, store, torn, loaderAt, task, where, loaded, contents, settings,
                 userVars, lateSave>>

\* Killed between the two steps of Save, an actor leaves an empty store.
SaverKilled(a) ==
  /\ loaderAt[a] = "write" /\ Turn(a, "failed")
  /\ store' = IF torn THEN Empty ELSE store
  /\ torn' = FALSE
  /\ UNCHANGED <<fileVars, task, where, loaded, contents, settings, userVars, lateSave>>

LoaderSteps(a) ==
  \/ Begin(a) \/ LoadStore(a) \/ ReadLocal(a) \/ Decline(a) \/ Approve(a)
  \/ Truncate(a) \/ WriteStore(a) \/ ApplyConfig(a) \/ Invalid(a)
  \/ SaverKilled(a)

TrustNext == RewriteLocal \/ \E a \in Loaders : LoaderSteps(a)

TrustSpec == TrustInit /\ [][TrustNext]_trustVars

-----------------------------------------------------------------------------
(* Properties *)

\* What a local file may not do to the user's own configuration: switch redaction off,
\* make an action the user set less strict, raise a limit or record no bodies at all.
Tightens(base, s) ==
  /\ base.redact = "on" => s.redact = "on"
  /\ base.action # "unset" => Severity(s.action) >= Severity(base.action)
  /\ ScanBytes(s) <= ScanBytes(base) /\ BodyBytes(s) <= BodyBytes(base)
  /\ BodyBytes(base) > 0 => BodyBytes(s) > 0

\* A launch applies a project's file only in a version the user approved for that very
\* project -- whatever rewrites it meanwhile, and whoever else saves the store -- that
\* validates by itself.  And the store never holds what the user never approved; an
\* approval that was taken back comes back only by a save of a copy loaded before.
OnlyApproved ==
  /\ \A a \in Loaders :
       settings[a] \notin {NoFile, WithIncludes(where[a])} =>
         \E f \in LocalFiles :
           /\ <<where[a], f>> \in approved /\ Validates(f)
           /\ settings[a] = MergeProjectConfig(WithIncludes(where[a]), f)
  /\ \A p \in Projects : store[p] # NoFile =>
       /\ <<p, store[p]>> \in approved
       /\ p \in revoked => lateSave

\* What is applied was approved, and it loosens nothing the user has set.
AppliedAsApproved ==
  /\ OnlyApproved
  /\ \A a \in Loaders :
       settings[a] # NoFile => Tightens(WithIncludes(where[a]), settings[a])
=============================================================================
