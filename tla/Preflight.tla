----------------------------- MODULE Preflight -----------------------------
(* The preflight report: eleven checks that ask their probes at once, a host   *)
(* that answers each with a command's outcome or not at all, and the verdict   *)
(* over all of them. Facts of the machine may change while it is probed.       *)
EXTENDS Integers, Sequences, FiniteSets

CONSTANTS Services,      \* the sharing services
          Aliases,       \* the credentials a live profile requires
          MaxShifts      \* bound: facts that are not good, or change under the report

Warn == 2                \* CLOCK_WARN_SKEW_SECONDS
Fail == 5                \* CLOCK_FAIL_SKEW_SECONDS
Longest == 2             \* MAXIMUM_SUPERVISED_SESSION_MINUTES, in model ticks
MinimumVersion == <<1, 1, 1>>
Observed == 2            \* the time of the observation, in model ticks

Checks == {"platform", "account", "macos_version", "filevault", "firewall", "sharing",
           "sleep", "disk", "clock", "runtime", "credentials"}

----------------------------------------------------------------------------
(* Probes and what a command can print of the machine. "garbled" stands for    *)
(* output no parser of the check understands.                                  *)

One(kind) == <<kind, "">>
Loaded(s) == <<"sharing_loaded", s>>
Credential(a) == <<"credential_presence", a>>

ProbesOf(c, profile) ==
  CASE c = "account" -> {One("account_user"), One("account_uid"), One("account_groups")}
    [] c = "macos_version" -> {One("os_version")}
    [] c = "filevault" -> {One("filevault")}
    [] c = "firewall" -> {One("firewall_global"), One("firewall_block_all"), One("firewall_stealth")}
    [] c = "sharing" -> {One("sharing_disabled"), One("airplay_receiver")} \cup {Loaded(s) : s \in Services}
    [] c = "sleep" -> {One("sleep")}
    [] c = "disk" -> {One("disk")}
    [] c = "clock" -> {One("clock_sync_service")}
    [] c = "credentials" -> IF profile = "dev" THEN {} ELSE {Credential(a) : a \in Aliases}
    [] OTHER -> {}

Probes(profile) == UNION {ProbesOf(c, profile) : c \in Checks}

\* Commands whose failure the host reads as absence rather than as an error.
MissingIsExpected(p) == p[1] \in {"sharing_loaded", "clock_sync_service", "credential_presence"}

Flags == {"on", "off", "garbled"}
Overrides == [Services -> {"true", "false", "none"}]
Disks == [bytes : {24, 25}, percent : {14, 15, -1}] \* GiB and percent available; -1 is garbled
Versions == {<<1, 1>>, <<1, 1, 1>>, <<1, 0, 2>>, <<2, 0>>, <<>>} \* <<>> is garbled

Facts(p) ==
  CASE p[1] = "account_user" -> {"expected", "other"}
    [] p[1] = "account_uid" -> {"0", "501"}
    [] p[1] = "account_groups" -> {"admin", "staff"}
    [] p[1] = "os_version" -> Versions
    [] p[1] = "sharing_disabled" -> Overrides
    [] p[1] = "sleep" -> {0, 1, -1}            \* minutes; -1 is garbled
    [] p[1] = "disk" -> Disks
    [] MissingIsExpected(p) -> {"present", "missing"}
    [] OTHER -> Flags

Good(p) ==
  CASE p[1] = "account_user" -> "expected"
    [] p[1] = "account_uid" -> "501"
    [] p[1] = "account_groups" -> "staff"
    [] p[1] = "os_version" -> <<1, 1, 1>>
    [] p[1] = "sharing_disabled" -> [s \in Services |-> "true"]
    [] p[1] = "airplay_receiver" -> "off"
    [] p[1] = "sharing_loaded" -> "missing"
    [] p[1] = "sleep" -> 1
    [] p[1] = "disk" -> [bytes |-> 25, percent |-> 15]
    [] p[1] \in {"clock_sync_service", "credential_presence"} -> "present"
    [] OTHER -> "on"

VARIABLES
  given,      \* what the caller passes: profile, host, runtime, assertion, references
  subject,    \* the check whose facts are in doubt; the others' are good and answered
  facts,      \* [probe -> what is true of the machine now]
  replies,    \* [probe -> Pending, Unanswered, Absent or <<the output read>>]
  moments,    \* history: [probe -> <<fact when its command ran>> or <<>>]
  shifts,     \* facts changed so far
  report      \* <<>>, or <<[check -> status]>> once every check has answered

preflightVars == <<given, subject, facts, replies, moments, shifts, report>>

Pending == <<"pending">>
Unanswered == <<"unanswered">>   \* permission_denied, timed_out, unavailable, error
Absent == <<"absent">>           \* not_found
Ok(fact) == <<"ok", fact>>

----------------------------------------------------------------------------
(* The host: one command to a probe.                                           *)

\* A command runs to its end, fails for a reason of its own, is refused by the system,
\* is killed at its time limit or its output limit, cannot be started, or the probe throws.
Outcomes == {"ran", "failed", "refused", "killed", "unstarted", "threw"}

\* Only a command of its own tells a refusal or a death from absence. The class answers
\* AirPlay never, and off macOS nothing.
ClassifyFailure(p, outcome) ==
  IF outcome = "failed" /\ MissingIsExpected(p) THEN Absent ELSE Unanswered

Reply(p, fact, outcome) ==
  IF \/ given.host = "darwin class" /\ p[1] = "airplay_receiver"
     \/ given.platform # "darwin"
  THEN Unanswered
  ELSE IF outcome # "ran" THEN ClassifyFailure(p, outcome)
  ELSE IF MissingIsExpected(p) /\ fact = "missing" THEN Absent
  ELSE IF p[1] = "credential_presence" THEN Ok("present")   \* the output is discarded
  ELSE Ok(fact)

----------------------------------------------------------------------------
(* The checks, each of the replies it has.                                     *)

Seen(p) == replies[p] # Unanswered /\ replies[p] # Absent
Output(p) == replies[p][2]

\* A fact is yes, no, or null when its output was not read or not understood.
Known(holds) == IF holds THEN "yes" ELSE "no"
Flag(p) == IF ~Seen(p) \/ Output(p) = "garbled" THEN "null" ELSE Known(Output(p) = "on")

Worst(readings) ==
  IF "no" \in readings THEN "fail" ELSE IF "null" \in readings THEN "unknown" ELSE "pass"

PlatformStatus == IF given.platform = "darwin" THEN "pass" ELSE "fail"

AccountStatus ==
  LET Is(kind, value) ==
        IF Seen(One(kind)) THEN Known(Output(One(kind)) = value) ELSE "null"
      root == Is("account_uid", "0")
      admin == Is("account_groups", "admin")
      expected == Is("account_user", "expected")
  IN IF root = "yes" \/ (given.profile # "dev" /\ (admin = "yes" \/ expected = "no")) THEN "fail"
     ELSE IF "null" \in {root, admin, expected} THEN "unknown"
     ELSE IF given.profile = "dev" /\ admin = "yes" THEN "warn" ELSE "pass"

Part(v, i) == IF i <= Len(v) THEN v[i] ELSE 0
VersionAtLeast(actual, minimum) ==
  IF actual = <<>> THEN "null"
  ELSE LET differ == {i \in 1..3 : Part(actual, i) # Part(minimum, i)}
           first == CHOOSE i \in differ : \A j \in differ : i <= j
       IN Known(differ = {} \/ Part(actual, first) > Part(minimum, first))

MacOsVersionStatus ==
  Worst({IF Seen(One("os_version")) THEN VersionAtLeast(Output(One("os_version")), MinimumVersion) ELSE "null"})

\* Output that does not say that FileVault is on says that it is not.
FileVaultStatus ==
  Worst({IF Seen(One("filevault")) THEN Known(Output(One("filevault")) = "on") ELSE "null"})

FirewallStatus == Worst({Flag(p) : p \in ProbesOf("firewall", given.profile)})

DisabledOverride(s) ==
  IF Seen(One("sharing_disabled")) THEN Output(One("sharing_disabled"))[s] ELSE "none"

SharingStatus ==
  LET loaded(s) == Loaded(s)
      enabled == {s \in Services : Seen(loaded(s)) \/ DisabledOverride(s) = "false"}
      unverifiable == {s \in Services \ enabled :
                         replies[loaded(s)] = Unanswered \/ DisabledOverride(s) # "true"}
      airplay == Flag(One("airplay_receiver"))
  IN IF enabled # {} \/ airplay = "yes" THEN "fail"
     ELSE IF unverifiable # {} \/ airplay = "null" THEN "unknown" ELSE "pass"

\* An assertion is bounded when it is of a session's scope and its canonical times are
\* at most Longest apart, and covers the observation from its first moment to before its last.
Bounded(w) ==
  w.scope = "supervised-session" /\ w.canonical
  /\ w.expiresAt - w.acquiredAt > 0 /\ w.expiresAt - w.acquiredAt <= Longest
Covers(w) == w.canonical /\ w.acquiredAt <= Observed /\ w.expiresAt > Observed

SleepStatus ==
  IF ~Seen(One("sleep")) \/ Output(One("sleep")) = -1 THEN "unknown"
  ELSE IF Output(One("sleep")) = 0 THEN "fail"
  ELSE IF given.profile = "dev" THEN "pass"
  ELSE IF ~given.assertion.supplied THEN "unknown"
  ELSE IF given.assertion.active /\ Bounded(given.assertion) /\ Covers(given.assertion) THEN "pass"
  ELSE "fail"

DiskStatus ==
  LET disk == Output(One("disk"))
  IN IF ~Seen(One("disk")) \/ disk.percent = -1 THEN "unknown"
     ELSE Worst({Known(disk.bytes >= 25 /\ disk.percent >= 15)})

\* Of references with one source the last counts; one with no source does not.
Distinct(refs) ==
  {i \in DOMAIN refs : refs[i].source # "" /\ \A j \in i + 1..Len(refs) : refs[j].source # refs[i].source}
Skews(refs) == {IF refs[i].skew < 0 THEN -refs[i].skew ELSE refs[i].skew : i \in Distinct(refs)}

ClockStatus ==
  LET service == One("clock_sync_service")
      skews == Skews(given.references)
  IN IF replies[service] = Absent THEN "fail"
     ELSE IF ~Seen(service) \/ Cardinality(Distinct(given.references)) < 2 THEN "unknown"
     ELSE IF \E s \in skews : s > Fail THEN "fail"
     ELSE IF \E s \in skews : s > Warn THEN "warn" ELSE "pass"

RuntimeStatus == Worst({given.node, given.pnpm})

CredentialsStatus ==
  Worst({IF replies[p] = Absent THEN "no" ELSE IF Seen(p) THEN "yes" ELSE "null" :
           p \in ProbesOf("credentials", given.profile)})

Observations ==
  [platform |-> PlatformStatus, account |-> AccountStatus, macos_version |-> MacOsVersionStatus,
   filevault |-> FileVaultStatus, firewall |-> FirewallStatus, sharing |-> SharingStatus,
   sleep |-> SleepStatus, disk |-> DiskStatus, clock |-> ClockStatus,
   runtime |-> RuntimeStatus, credentials |-> CredentialsStatus]

Ready(observations) == \A c \in Checks : observations[c] \notin {"fail", "unknown"}

----------------------------------------------------------------------------
(* A preflight.                                                                *)

NoAssertion == [supplied |-> FALSE, active |-> FALSE, scope |-> "", canonical |-> FALSE,
                acquiredAt |-> 0, expiresAt |-> 0]
Assertions ==
  {NoAssertion} \cup
  {[supplied |-> TRUE, active |-> active, scope |-> scope, canonical |-> canonical,
    acquiredAt |-> from, expiresAt |-> to] :
      active \in BOOLEAN, scope \in {"supervised-session", "other"}, canonical \in BOOLEAN,
      from \in 1..3, to \in 1..4}
GoodAssertion == [supplied |-> TRUE, active |-> TRUE, scope |-> "supervised-session",
                  canonical |-> TRUE, acquiredAt |-> 2, expiresAt |-> 3]

References == [source : {"", "s1", "s2"}, skew : {-6, -2, 0, 3, 5}]
GoodReferences == <<[source |-> "s1", skew |-> 0], [source |-> "s2", skew |-> -2]>>

\* What a caller passes: all that the subject's check reads, and good values of the rest.
Given ==
  [profile : {"dev", "canary"}, host : {"darwin class", "another"},
   platform : IF subject = "platform" THEN {"darwin", "linux"} ELSE {"darwin"},
   node : IF subject = "runtime" THEN {"yes", "no"} ELSE {"yes"},
   pnpm : IF subject = "runtime" THEN {"yes", "no", "null"} ELSE {"yes"},
   assertion : IF subject = "sleep" THEN Assertions ELSE {GoodAssertion},
   references : IF subject = "clock" THEN {<<>>} \cup [1..2 -> References] \cup
                    {GoodReferences \o <<r>> : r \in References} ELSE {GoodReferences}]

PreflightInit ==
  /\ subject \in Checks
  /\ given \in Given
  /\ facts = [p \in Probes(given.profile) |-> Good(p)]
  /\ replies = [p \in Probes(given.profile) |->
                  IF p \in ProbesOf(subject, given.profile) THEN Pending ELSE Reply(p, Good(p), "ran")]
  /\ moments = [p \in Probes(given.profile) |->
                  IF replies[p] \in {Pending, Unanswered} THEN <<>> ELSE <<Good(p)>>]
  /\ shifts = 0 /\ report = <<>>

\* A service's state is asked once the overrides and AirPlay have been answered.
Asked(p) ==
  p[1] = "sharing_loaded" =>
    replies[One("sharing_disabled")] # Pending /\ replies[One("airplay_receiver")] # Pending

\* SafeProbe: a probe is answered once, whatever becomes of its command.
SafeProbe(p) ==
  /\ replies[p] = Pending /\ Asked(p)
  /\ \E outcome \in Outcomes :
       /\ replies' = [replies EXCEPT ![p] = Reply(p, facts[p], outcome)]
       /\ moments' = [moments EXCEPT ![p] =
            IF outcome = "ran" /\ replies'[p] # Unanswered THEN <<facts[p]>> ELSE <<>>]
  /\ UNCHANGED <<given, subject, facts, shifts, report>>

\* Somebody changes the machine under the report.
Shift(p) ==
  /\ report = <<>> /\ shifts < MaxShifts /\ p \in ProbesOf(subject, given.profile)
  /\ \E fact \in Facts(p) : fact # facts[p] /\ facts' = [facts EXCEPT ![p] = fact]
  /\ shifts' = shifts + 1
  /\ UNCHANGED <<given, subject, replies, moments, report>>

RunPreflight ==
  /\ report = <<>> /\ \A p \in DOMAIN replies : replies[p] # Pending
  /\ report' = <<Observations>>
  /\ UNCHANGED <<given, subject, facts, replies, moments, shifts>>

PreflightNext ==
  \/ \E p \in DOMAIN replies : SafeProbe(p) \/ Shift(p)
  \/ RunPreflight

PreflightSpec == PreflightInit /\ [][PreflightNext]_preflightVars

----------------------------------------------------------------------------
(* What a report promises.                                                     *)

\* What a profile demands of a fact, said of the machine and not of any output.
Demanded(p) ==
  CASE p[1] = "account_user" -> IF given.profile = "dev" THEN Facts(p) ELSE {"expected"}
    [] p[1] = "account_groups" -> IF given.profile = "dev" THEN Facts(p) ELSE {"staff"}
    [] p[1] = "os_version" -> {<<1, 1, 1>>, <<2, 0>>}
    [] p[1] = "disk" -> {d \in Disks : d.bytes = 25 /\ d.percent = 15}
    [] OTHER -> {Good(p)}

Garbled(p, fact) ==
  CASE p[1] = "os_version" -> fact = <<>>
    [] p[1] = "sleep" -> fact = -1
    [] p[1] = "disk" -> fact.percent = -1
    [] OTHER -> fact = "garbled"

\* The command that asks launchd for a service fails alike for a service that is not
\* loaded and for an error of its own; its override has been read besides.
AskedInVain(p) == p[1] = "sharing_loaded" /\ moments[p] = <<>> /\ replies[p] = Absent

\* A report that says ready is about a machine on which every fact the profile demands
\* held when its own command ran: no answer that was refused, late, missing or garbled
\* passes for a good one, whatever the order of the answers. A report that says fail has
\* a fact that did not hold, an input the caller got wrong, or a command that failed.
ReportIsEarned ==
  report # <<>> =>
    /\ Ready(report[1]) =>
         /\ given.platform = "darwin" /\ given.node = "yes" /\ given.pnpm = "yes"
         /\ given.host # "darwin class"
         /\ \A p \in DOMAIN moments :
              AskedInVain(p) \/ (moments[p] # <<>> /\ moments[p][1] \in Demanded(p))
         /\ Cardinality({r.source : r \in {given.references[i] : i \in DOMAIN given.references}} \ {""}) >= 2
         /\ given.profile # "dev" =>
              /\ given.assertion.active /\ given.assertion.acquiredAt <= Observed
              /\ given.assertion.expiresAt \in Observed + 1..given.assertion.acquiredAt + Longest
    /\ (report[1][subject] = "fail" /\ subject \notin {"platform", "runtime", "sleep", "clock"}) =>
         \E p \in ProbesOf(subject, given.profile) :
           \/ moments[p] # <<>> /\ moments[p][1] \notin Demanded(p)
           \/ moments[p] = <<>> /\ replies[p] = Absent

\* What says in so many words that a demand is not met.
Refutes(p, fact) ==
  CASE p[1] = "sharing_disabled" -> \E s \in Services : fact[s] = "false"
    [] p[1] \in {"sleep", "os_version", "disk", "filevault"} ->
         fact \notin Demanded(p) \cup {x \in Facts(p) : Garbled(p, x)}
    [] OTHER -> fact \notin Demanded(p) \cup {"garbled"}

\* A fact that was seen not to hold is reported as a failure, however many other
\* answers of its check are missing.
FailuresShow ==
  report # <<>> =>
    \A p \in ProbesOf(subject, given.profile) :
      (moments[p] # <<>> /\ Refutes(p, moments[p][1])) => report[1][subject] = "fail"
=============================================================================
