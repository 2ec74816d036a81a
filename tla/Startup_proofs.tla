--------------------------- MODULE Startup_proofs ---------------------------
(***************************************************************************)
(* What holds of every reconciler process, for every command line, every   *)
(* width of its integers, every clock and any number of clients of its     *)
(* profiler.                                                               *)
(***************************************************************************)
EXTENDS Startup, TLAPS

-----------------------------------------------------------------------------
\* Integers.

\* The integer division of validate compares as the exact ratio does.
LEMMA RatioIsAProduct ==
  \A m, n \in Nat \ {0} : m \div n >= 5 <=> m >= 5 * n
<1>1. SUFFICES ASSUME NEW m \in Nat \ {0}, NEW n \in Nat \ {0}
               PROVE  m \div n >= 5 <=> m >= 5 * n
  OBVIOUS
<1> DEFINE q == m \div n
           r == m % n
<1>2. q \in Int /\ r \in Int /\ m = q * n + r /\ 0 <= r /\ r < n
  BY SMT
<1> HIDE DEF q, r
<1>3. CASE q >= 5
  <2>1. q * n >= 5 * n
    BY <1>2, <1>3, SMT
  <2> QED  BY <1>2, <1>3, <2>1 DEF q
<1>4. CASE q < 5
  <2>1. q * n <= 4 * n
    BY <1>2, <1>4, SMT
  <2>2. m < 5 * n
    BY <1>2, <2>1, SMT
  <2> QED  BY <1>2, <1>4, <2>2 DEF q
<1> QED  BY <1>2, <1>3, <1>4

\* Sizes in bytes are ordered as those in MiB are.
LEMMA OrderOfBytes ==
  \A m, n, b \in Nat : b > 0 =>
     /\ m < n <=> m * b < n * b
     /\ m <= n <=> m * b <= n * b
BY SMTT(30)

\* What fits a width as a product fits it as a factor.
LEMMA FitsIffQuotient ==
  \A m, b, u \in Nat : b > 0 => (m * b <= u <=> m <= u \div b)
<1>1. SUFFICES ASSUME NEW m \in Nat, NEW b \in Nat, NEW u \in Nat, b > 0
               PROVE  m * b <= u <=> m <= u \div b
  OBVIOUS
<1> DEFINE q == u \div b
           r == u % b
<1>2. q \in Int /\ r \in Int /\ u = q * b + r /\ 0 <= r /\ r < b
  BY <1>1, SMT
<1> HIDE DEF q, r
<1>3. CASE m <= q
  <2>1. m * b <= q * b
    BY <1>1, <1>2, <1>3, SMT
  <2>2. q * b \in Int /\ m * b \in Int
    BY <1>2, SMT
  <2> QED  BY <1>2, <1>3, <2>1, <2>2 DEF q
<1>4. CASE m > q
  <2>1. m * b >= q * b + b
    BY <1>1, <1>2, <1>4, SMT
  <2>2. q * b \in Int /\ m * b \in Int
    BY <1>2, SMT
  <2> QED  BY <1>2, <1>4, <2>1, <2>2 DEF q
<1> QED  BY <1>2, <1>3, <1>4
-----------------------------------------------------------------------------
\* Configurations.

LEMMA ConfigNumbers ==
  ASSUME NEW c \in Configs
  PROVE  /\ c.lease \in Nat \ {0} /\ c.renew \in Nat \ {0} /\ c.progress \in Nat \ {0}
         /\ c.file \in Nat \ {0} /\ c.inline \in Nat \ {0} /\ c.dedicated \in Nat \ {0}
BY ConfigsAreParsed

LEMMA WidthNumbers ==
  /\ MaxSigned \in Nat \ {0} /\ MaxUsize \in Nat \ {0} /\ MsPerSec \in Nat \ {0}
  /\ BytesPerMib \in Nat \ {0} /\ MaxClock \in Nat \ {0}
BY WidthsAreNumbers

\* Config::validate accepts exactly the sound leases.
LEMMA ValidConfigIsSound ==
  ASSUME NEW c \in Configs
  PROVE  ValidConfig(c) <=> LeaseIsSound(c)
<1>1. c.lease \div c.renew >= 5 <=> c.lease >= 5 * c.renew
  BY ConfigNumbers, RatioIsAProduct
<1>2. c.lease * MsPerSec >= c.lease /\ c.lease * MsPerSec \in Nat
  BY ConfigNumbers, WidthNumbers, SMT
<1>3. c.lease * MsPerSec <= MaxSigned => c.lease <= MaxSigned
  BY <1>2, ConfigNumbers, WidthNumbers
<1> QED
  BY <1>1, <1>3, ConfigNumbers
  DEF ValidConfig, LeaseIsSound, RenewsOftenEnough, FitsSigned, LeaseMs

LEMMA BytesAreProduct ==
  ASSUME NEW m \in Nat, MibFits(m)
  PROVE  Bytes(m) = m * BytesPerMib
<1>1. m * BytesPerMib \in Nat /\ m * BytesPerMib <= MaxUsize
  BY WidthNumbers, SMT DEF MibFits
<1>2. ASSUME NEW n \in Nat, n <= MaxUsize
      PROVE  n % (MaxUsize + 1) = n
  BY <1>2, WidthNumbers, SMT
<1> QED  BY <1>1, <1>2 DEF Bytes

\* ConverterConfig::validate accepts exactly the sound sizes.
LEMMA ValidConverterConfigIsSound ==
  ASSUME NEW c \in Configs
  PROVE  ValidConverterConfig(c) <=> SizesAreSound(c)
<1> DEFINE u == MaxUsize \div BytesPerMib
<1>1. \A m \in Nat : MibFits(m) <=> m <= u
  BY WidthNumbers, FitsIffQuotient DEF MibFits
<1>2. u \in Int
  BY WidthNumbers, SMT
<1> HIDE DEF u
<1>3. ASSUME MibFits(c.file), MibFits(c.inline), MibFits(c.dedicated)
      PROVE  /\ Bytes(c.inline) < Bytes(c.dedicated) <=> c.inline < c.dedicated
             /\ Bytes(c.inline) <= Bytes(c.file) <=> c.inline <= c.file
             /\ Bytes(c.dedicated) # 0
  <2>1. /\ Bytes(c.file) = c.file * BytesPerMib
        /\ Bytes(c.inline) = c.inline * BytesPerMib
        /\ Bytes(c.dedicated) = c.dedicated * BytesPerMib
    BY <1>3, ConfigNumbers, BytesAreProduct
  <2>2. /\ c.inline * BytesPerMib < c.dedicated * BytesPerMib <=> c.inline < c.dedicated
        /\ c.inline * BytesPerMib <= c.file * BytesPerMib <=> c.inline <= c.file
    BY ConfigNumbers, WidthNumbers, OrderOfBytes
  <2>3. c.dedicated * BytesPerMib # 0
    BY ConfigNumbers, WidthNumbers, SMT
  <2> QED  BY <2>1, <2>2, <2>3
<1>4. CASE MibFits(c.file) /\ MibFits(c.inline) /\ MibFits(c.dedicated)
  <2>1. c.file \in 1..u /\ c.dedicated \in 1..u
    BY <1>1, <1>2, <1>4, ConfigNumbers
  <2> QED
    BY <1>3, <1>4, <2>1 DEF ValidConverterConfig, SizesAreSound, u
<1>5. CASE ~(MibFits(c.file) /\ MibFits(c.inline) /\ MibFits(c.dedicated))
  <2>1. ~ValidConverterConfig(c)
    BY <1>5 DEF ValidConverterConfig
  <2>2. ASSUME c.inline < c.dedicated, c.file \in 1..u, c.dedicated \in 1..u
        PROVE  FALSE
    BY <1>1, <1>2, <1>5, <2>2, ConfigNumbers
  <2> QED  BY <2>1, <2>2 DEF SizesAreSound, u
<1> QED  BY <1>4, <1>5

\* A configuration that was accepted leaves a renewal four intervals of room: this is
\* what RenewalsFitLease of Reconciler asks of lease, delay and clocks.
THEOREM RenewalsAreInTime ==
  ASSUME NEW c \in Configs, ValidConfig(c),
         NEW late \in Nat, late < 4 * (c.renew * MsPerSec)
  PROVE  c.renew * MsPerSec + late < LeaseMs(c)
<1>1. c.lease >= 5 * c.renew
  BY ConfigNumbers, RatioIsAProduct DEF ValidConfig, RenewsOftenEnough
<1>2. 5 * c.renew \in Nat
  BY ConfigNumbers
<1>3. (5 * c.renew) * MsPerSec <= c.lease * MsPerSec
  BY <1>1, <1>2, ConfigNumbers, WidthNumbers, OrderOfBytes
<1>4. (5 * c.renew) * MsPerSec = 5 * (c.renew * MsPerSec) /\ c.renew * MsPerSec \in Nat
  BY ConfigNumbers, WidthNumbers, SMT
<1>5. c.lease * MsPerSec \in Nat
  BY ConfigNumbers, WidthNumbers, SMT
<1> QED  BY <1>3, <1>4, <1>5 DEF LeaseMs

-----------------------------------------------------------------------------
\* The process.

\* What the steps of main have established when the process is at each of them.
ProgressInv ==
  /\ config \in Configs /\ clock \in Nat
  /\ at \in {"validated", "listening", "connected", "running"} => LeaseIsSound(config)
  /\ at \in {"connected", "running"} => UrlIsSound(config)
  /\ at = "running" => SizesAreSound(config)

StartInv == ProgressInv /\ ExitsAreExplained /\ LeasesEndLater

LEMMA StartInvHolds == SInit => StartInv
BY DEF SInit, StartInv, ProgressInv, ExitsAreExplained, LeasesEndLater

\* A step that takes the process from one point to another keeps StartInv if it
\* establishes what is needed there, and gives a reason for an end.
LEMMA MovesKeepInv ==
  ASSUME StartInv,
         UNCHANGED <<config, clock, lease>>,
         at' \in {"validated", "listening", "connected", "running"} => LeaseIsSound(config),
         at' \in {"connected", "running"} => UrlIsSound(config),
         at' = "running" => SizesAreSound(config),
         at' = "exited" =>
           /\ why' = "config" => ~LeaseIsSound(config)
           /\ why' = "converter" => ~SizesAreSound(config)
           /\ why' = "url" => ~UrlIsSound(config)
           /\ why' = "overflow" => clock + config.lease * MsPerSec > MaxSigned
  PROVE  StartInv'
BY DEF StartInv, ProgressInv, ExitsAreExplained, LeasesEndLater,
       LeaseIsSound, SizesAreSound, UrlIsSound

LEMMA StartInvKept == StartInv /\ [SNext]_svars => StartInv'
<1> SUFFICES ASSUME StartInv, [SNext]_svars
             PROVE  StartInv'
  OBVIOUS
<1>c. config \in Configs
  BY DEF StartInv, ProgressInv
<1>1. CASE ValidateConfig
  BY <1>1, <1>c, ValidConfigIsSound, MovesKeepInv DEF ValidateConfig, GoOn, Exit
<1>2. CASE Bind
  BY <1>2, MovesKeepInv DEF Bind, GoOn, Exit, StartInv, ProgressInv
<1>3. CASE Connect
  <2>1. config.url \in {"malformed", "unsupported", "sqlite", "postgres", "postgresql"}
    BY <1>c, ConfigsAreParsed
  <2>2. CASE config.url \in {"sqlite", "postgres", "postgresql"}
    BY <1>3, <2>2, MovesKeepInv
    DEF Connect, GoOn, Exit, StartInv, ProgressInv, UrlIsSound
  <2>3. CASE config.url \in {"malformed", "unsupported"}
    BY <1>3, <2>3, MovesKeepInv
    DEF Connect, GoOn, Exit, StartInv, ProgressInv, UrlIsSound
  <2> QED  BY <2>1, <2>2, <2>3
<1>4. CASE NewConverter
  BY <1>4, <1>c, ValidConverterConfigIsSound, MovesKeepInv
  DEF NewConverter, GoOn, Exit, StartInv, ProgressInv
<1>5. CASE Grant
  <2>1. CASE CanAdd(clock, LeaseMs(config))
    <3>1. lease' = [from |-> clock, until |-> clock + config.lease * MsPerSec]
      BY <1>5, <2>1 DEF Grant, CanAdd, Sum, LeaseMs
    <3>2. UNCHANGED <<config, clock, at, why>>
      BY <1>5, <2>1 DEF Grant
    <3>3. LeasesEndLater'
      BY <3>1, <3>2 DEF LeasesEndLater
    <3> QED
      BY <3>2, <3>3
      DEF StartInv, ProgressInv, ExitsAreExplained, LeaseIsSound, SizesAreSound, UrlIsSound
  <2>2. CASE ~CanAdd(clock, LeaseMs(config))
    <3>1. at' = "exited" /\ why' = "overflow" /\ UNCHANGED <<config, clock, lease>>
      BY <1>5, <2>2 DEF Grant, Exit
    <3>2. clock + config.lease * MsPerSec > MaxSigned
      <4>1. config.lease * MsPerSec \in Nat
        BY <1>c, ConfigNumbers, WidthNumbers, SMT
      <4>2. clock \in Nat
        BY DEF StartInv, ProgressInv
      <4> QED  BY <2>2, <4>1, <4>2, WidthNumbers DEF CanAdd, FitsSigned, LeaseMs
    <3> QED  BY <3>1, <3>2, MovesKeepInv
  <2> QED  BY <2>1, <2>2
<1>6. CASE Fail
  BY <1>6, MovesKeepInv DEF Fail, Exit
<1>7. CASE Restart
  BY <1>7, MovesKeepInv DEF Restart, GoOn
<1>8. CASE Tick
  <2>1. clock' = clock + 1 /\ UNCHANGED <<config, at, why, lease>>
    BY <1>8 DEF Tick
  <2>2. config.lease * MsPerSec \in Nat /\ clock \in Nat
    BY <1>c, ConfigNumbers, WidthNumbers, SMT DEF StartInv, ProgressInv
  <2>3. /\ clock' \in Nat
        /\ clock + config.lease * MsPerSec > MaxSigned
           => clock' + config.lease * MsPerSec > MaxSigned
    BY <2>1, <2>2, WidthNumbers
  <2>4. ExitsAreExplained'
    BY <2>1, <2>3
    DEF StartInv, ExitsAreExplained, LeaseIsSound, SizesAreSound, UrlIsSound
  <2> QED
    BY <2>1, <2>3, <2>4
    DEF StartInv, ProgressInv, LeasesEndLater, LeaseIsSound, SizesAreSound, UrlIsSound
<1>9. CASE UNCHANGED <<config, at, why, clock, lease>>
  BY <1>9
  DEF StartInv, ProgressInv, ExitsAreExplained, LeasesEndLater,
      LeaseIsSound, SizesAreSound, UrlIsSound
<1> QED
  BY <1>1, <1>2, <1>3, <1>4, <1>5, <1>6, <1>7, <1>8, <1>9 DEF SNext, Profile, svars

\* The start and its clocks satisfy their inductive invariant.
THEOREM StartCorrect == SSpec => []StartInv
BY StartInvHolds, StartInvKept, PTL DEF SSpec

\* Jobs are claimed only with a sound command line, and no sound one is refused.
THEOREM StartSound == SSpec => []StartIsRight
<1>1. StartInv => StartIsRight
  BY DEF StartInv, ProgressInv, StartIsRight, RunningIsSound
<1> QED  BY <1>1, StartCorrect, PTL

\* No lease is over before it begins.
THEOREM LeasesLater == SSpec => []LeasesEndLater
<1>1. StartInv => LeasesEndLater
  BY DEF StartInv
<1> QED  BY <1>1, StartCorrect, PTL
-----------------------------------------------------------------------------
\* The profiler, in a process that may end at any time.

\* The permit is with a handler that lives, and says whose.
PermitInv ==
  /\ phase \in [Requests -> {"none", "sampling", "waiting"}]
  /\ answer \in [Requests -> {"none", "conflict", "error", "profile"}]
  /\ reporting \subseteq Requests
  /\ permit # Nobody => permit \in Requests /\ phase[permit] # "none"

ProfilerInv == PermitInv /\ SamplingHasAnOwner

LEMMA ProfilerInvHolds == PrInit => ProfilerInv
BY NobodyAsksNothing DEF PrInit, ProfilerInv, PermitInv, SamplingHasAnOwner

LEMMA BuildKeepsInv ==
  ASSUME ProfilerInv, NEW r \in Requests, Build(r)
  PROVE  ProfilerInv'
<1>1. \A s \in Requests : phase[s] = "none" /\ s \notin reporting
  BY NobodyAsksNothing DEF ProfilerInv, PermitInv, SamplingHasAnOwner, Build
<1>2. PermitInv'
  BY DEF ProfilerInv, PermitInv, Build
<1>3. /\ phase' = [phase EXCEPT ![r] = "sampling"]
      /\ permit' = r /\ sampler' = r /\ reporting' = reporting
  BY DEF Build
<1>4. \A s \in Requests : phase'[s] = IF s = r THEN "sampling" ELSE "none"
  BY <1>1, <1>3 DEF ProfilerInv, PermitInv
<1>5. SamplingHasAnOwner'
  BY <1>1, <1>3, <1>4, NobodyAsksNothing DEF SamplingHasAnOwner
<1> QED  BY <1>2, <1>5 DEF ProfilerInv

LEMMA StartReportKeepsInv ==
  ASSUME ProfilerInv, NEW r \in Requests, StartReport(r)
  PROVE  ProfilerInv'
<1>1. /\ sampler = r /\ permit = r /\ r \notin reporting
      /\ \A s \in Requests \ {r} : phase[s] = "none" /\ s \notin reporting
  BY DEF ProfilerInv, PermitInv, SamplingHasAnOwner, StartReport
<1>2. /\ phase' = [phase EXCEPT ![r] = "waiting"]
      /\ reporting' = reporting \cup {r}
      /\ UNCHANGED <<answer, permit, sampler>>
  BY DEF StartReport
<1>3. \A s \in Requests : phase'[s] = IF s = r THEN "waiting" ELSE "none"
  BY <1>1, <1>2 DEF ProfilerInv, PermitInv
<1>4. PermitInv'
  BY <1>1, <1>2 DEF ProfilerInv, PermitInv
<1>5. SamplingHasAnOwner'
  BY <1>1, <1>2, <1>3, NobodyAsksNothing DEF SamplingHasAnOwner
<1> QED  BY <1>4, <1>5 DEF ProfilerInv

LEMMA ReportEndsKeepsInv ==
  ASSUME ProfilerInv, NEW r \in Requests, ReportEnds(r)
  PROVE  ProfilerInv'
<1>1. /\ sampler = r
      /\ \A s \in Requests : phase[s] # "sampling" /\ (s # r => s \notin reporting)
  BY DEF ProfilerInv, SamplingHasAnOwner, ReportEnds
<1>2. /\ reporting' = reporting \ {r} /\ sampler' = Nobody
      /\ UNCHANGED <<phase, answer, permit>>
  BY DEF ReportEnds
<1>3. PermitInv'
  BY <1>2 DEF ProfilerInv, PermitInv
<1>4. SamplingHasAnOwner'
  BY <1>1, <1>2 DEF ProfilerInv, SamplingHasAnOwner
<1> QED  BY <1>3, <1>4 DEF ProfilerInv

LEMMA RespondKeepsInv ==
  ASSUME ProfilerInv, NEW r \in Requests, Respond(r)
  PROVE  ProfilerInv'
<1>1. /\ permit = r /\ r \notin reporting
      /\ \A s \in Requests \ {r} : phase[s] = "none"
  BY DEF ProfilerInv, PermitInv, SamplingHasAnOwner, Respond
<1>2. PICK text \in {"profile", "error"} : Answered(r, text)
  BY DEF Respond
<1>3. /\ phase' = [phase EXCEPT ![r] = "none"]
      /\ answer' = [answer EXCEPT ![r] = text]
      /\ permit' = Nobody /\ UNCHANGED <<sampler, reporting>>
  BY <1>2 DEF Respond, Answered
<1>4. \A s \in Requests : phase'[s] = "none" /\ phase[s] # "sampling"
  BY <1>1, <1>3 DEF ProfilerInv, PermitInv, Respond
<1>5. PermitInv'
  BY <1>3 DEF ProfilerInv, PermitInv
<1>6. SamplingHasAnOwner'
  BY <1>3, <1>4 DEF ProfilerInv, SamplingHasAnOwner
<1> QED  BY <1>5, <1>6 DEF ProfilerInv

LEMMA DisconnectKeepsInv ==
  ASSUME ProfilerInv, NEW r \in Requests, Disconnect(r)
  PROVE  ProfilerInv'
<1>1. permit = r /\ \A s \in Requests \ {r} : phase[s] = "none"
  BY DEF ProfilerInv, PermitInv, SamplingHasAnOwner, Disconnect
<1>2. /\ phase' = [phase EXCEPT ![r] = "none"]
      /\ answer' = [answer EXCEPT ![r] = "none"]
      /\ permit' = Nobody /\ reporting' = reporting
      /\ sampler' = IF phase[r] = "sampling" THEN Nobody ELSE sampler
  BY DEF Disconnect, Answered
<1>3. \A s \in Requests : phase'[s] = "none"
  BY <1>1, <1>2 DEF ProfilerInv, PermitInv
<1>4. PermitInv'
  BY <1>2 DEF ProfilerInv, PermitInv
<1>5. CASE phase[r] = "sampling"
  <2>1. \A s \in Requests : s \notin reporting
    BY <1>5 DEF ProfilerInv, SamplingHasAnOwner
  <2>2. SamplingHasAnOwner'
    BY <1>2, <1>3, <1>5, <2>1 DEF SamplingHasAnOwner
  <2> QED  BY <1>4, <2>2 DEF ProfilerInv
<1>6. CASE phase[r] # "sampling"
  <2>1. \A s \in Requests : phase[s] # "sampling"
    BY <1>1, <1>6
  <2>2. SamplingHasAnOwner'
    BY <1>2, <1>3, <1>6, <2>1 DEF ProfilerInv, SamplingHasAnOwner
  <2> QED  BY <1>4, <2>2 DEF ProfilerInv
<1> QED  BY <1>5, <1>6

\* A request that is refused leaves everything but its answer.
LEMMA RefusalKeepsInv ==
  ASSUME ProfilerInv, NEW r \in Requests, Conflict(r) \/ BuildFails(r)
  PROVE  ProfilerInv'
<1>1. PICK text \in {"conflict", "error"} : phase[r] = "none" /\ Answered(r, text)
  BY DEF Conflict, BuildFails
<1>2. /\ answer' = [answer EXCEPT ![r] = text] /\ phase' = phase
      /\ UNCHANGED <<permit, sampler, reporting>>
  BY <1>1 DEF Answered, Conflict, BuildFails, ProfilerInv, PermitInv
<1> QED  BY <1>2 DEF ProfilerInv, PermitInv, SamplingHasAnOwner

LEMMA ProfilerInvKept == ProfilerInv /\ [SNext]_svars => ProfilerInv'
<1> SUFFICES ASSUME ProfilerInv, [SNext]_svars
             PROVE  ProfilerInv'
  OBVIOUS
<1>1. CASE Serve
  BY <1>1, BuildKeepsInv, StartReportKeepsInv, ReportEndsKeepsInv, RespondKeepsInv,
     DisconnectKeepsInv, RefusalKeepsInv
  DEF Serve
<1>2. CASE UNCHANGED prvars
  BY <1>2 DEF prvars, ProfilerInv, PermitInv, SamplingHasAnOwner
<1>3. CASE at' = "exited" /\ phase' = [r \in Requests |-> "none"]
           /\ answer' = [r \in Requests |-> "none"]
           /\ permit' = Nobody /\ sampler' = Nobody /\ reporting' = {}
  BY <1>3 DEF ProfilerInv, PermitInv, SamplingHasAnOwner
<1> QED
  BY <1>1, <1>2, <1>3
  DEF SNext, svars, ValidateConfig, Bind, Connect, NewConverter, Grant, Fail, Profile,
      Restart, Tick, GoOn, Exit

\* So does the profiler.
THEOREM ProfilerCorrect == SSpec => []ProfilerInv
<1>1. SInit => ProfilerInv
  BY ProfilerInvHolds DEF SInit
<1> QED  BY <1>1, ProfilerInvKept, PTL DEF SSpec

\* The sampler has one owner, as long as its handler sleeps or its report is made,
\* which may be after its client left and the permit is free.
THEOREM SamplingOwned == SSpec => []SamplingHasAnOwner
<1>1. ProfilerInv => SamplingHasAnOwner
  BY DEF ProfilerInv
<1> QED  BY <1>1, ProfilerCorrect, PTL

\* Who is told that another profile is running is told so while one is: no permit
\* outlives its handler.
THEOREM ConflictsTrue == SSpec => ConflictsAreTrue
<1> DEFINE Refused(r) == answer'[r] = "conflict" /\ answer'[r] # answer[r]
           Busy(r) == \E s \in Requests \ {r} : permit = s /\ phase[s] \in {"sampling", "waiting"}
<1>1. ASSUME ProfilerInv, [SNext]_svars, NEW r \in Requests, Refused(r)
      PROVE  Busy(r)
  <2>1. ASSUME NEW t \in Requests, Conflict(t)
        PROVE  Busy(r)
    <3>1. t = r
      BY <1>1, <2>1 DEF Conflict, Answered, ProfilerInv, PermitInv
    <3>2. permit \in Requests /\ phase[permit] # "none" /\ phase[t] = "none"
      BY <1>1, <2>1 DEF Conflict, ProfilerInv, PermitInv
    <3>3. phase[permit] \in {"sampling", "waiting"} /\ permit # r
      BY <1>1, <3>1, <3>2 DEF ProfilerInv, PermitInv
    <3> QED  BY <3>2, <3>3
  <2>2. ASSUME NEW t \in Requests, NEW text, text # "conflict", Answered(t, text)
        PROVE  FALSE
    <3>1. answer' = [answer EXCEPT ![t] = text]
      BY <2>2 DEF Answered
    <3> QED  BY <1>1, <2>2, <3>1 DEF ProfilerInv, PermitInv
  <2>3. ASSUME NEW t \in Requests, Build(t)
        PROVE  FALSE
    <3>1. answer' = [answer EXCEPT ![t] = "none"]
      BY <2>3 DEF Build
    <3> QED  BY <1>1, <3>1 DEF ProfilerInv, PermitInv
  <2>4. ASSUME NEW t \in Requests, StartReport(t) \/ ReportEnds(t)
        PROVE  FALSE
    BY <1>1, <2>4 DEF StartReport, ReportEnds
  <2>5. ASSUME NEW t \in Requests, BuildFails(t) \/ Respond(t) \/ Disconnect(t)
        PROVE  FALSE
    <3>1. \E text \in {"error", "profile", "none"} : Answered(t, text)
      BY <2>5 DEF BuildFails, Respond, Disconnect
    <3> QED  BY <2>2, <3>1
  <2>6. CASE Serve
    BY <2>1, <2>3, <2>4, <2>5, <2>6 DEF Serve
  <2>7. CASE UNCHANGED prvars
    BY <1>1, <2>7 DEF prvars
  <2>8. CASE answer' = [s \in Requests |-> "none"]
    BY <1>1, <2>8
  <2> QED
    BY <1>1, <2>6, <2>7, <2>8
    DEF SNext, svars, ValidateConfig, Bind, Connect, NewConverter, Grant, Fail, Profile,
        Restart, Tick, GoOn, Exit
<1>2. ProfilerInv /\ [SNext]_svars =>
        [\A r \in Requests :
           answer'[r] = "conflict" /\ answer'[r] # answer[r] =>
             \E s \in Requests \ {r} : permit = s /\ phase[s] \in {"sampling", "waiting"}]_prvars
  BY <1>1
<1> QED  BY <1>2, ProfilerCorrect, PTL DEF SSpec, ConflictsAreTrue
=============================================================================
