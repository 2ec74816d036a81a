------------------------------- MODULE Startup -------------------------------
(***************************************************************************)
(* A reconciler process from its command line to its claims (main.rs,      *)
(* config.rs): what it checks, in which order, and with which integers.    *)
(* It serves profiles from the moment it listens.  Whatever goes wrong     *)
(* ends it, and the supervisor starts it again with the same command line. *)
(* Integers are narrow, so that they overflow as i64, u64 and usize do.    *)
(***************************************************************************)
EXTENDS Integers, Profiler

CONSTANTS
  Configs,      \* the command lines
  MaxSigned,    \* the largest i64
  MaxUsize,     \* the largest usize
  MsPerSec,
  BytesPerMib,
  MaxClock      \* bound on the clock, which reads milliseconds

ASSUME WidthsAreNumbers ==
  {MaxSigned, MaxUsize, MsPerSec, BytesPerMib, MaxClock} \subseteq Nat \ {0}
ASSUME ClockFits == MaxClock <= MaxSigned
ASSUME ConfigsAreParsed ==
  \A c \in Configs :
    /\ {c.lease, c.renew, c.progress, c.file, c.inline, c.dedicated} \subseteq Nat \ {0}
    /\ c.url \in {"malformed", "unsupported", "sqlite", "postgres", "postgresql"}

VARIABLES
  config,     \* the command line
  at,         \* how far the process is
  why,        \* what ended it
  clock,
  lease       \* the last lease that a claim or a renewal granted

svars == <<prvars, config, at, why, clock, lease>>

NoLeaseYet == [from |-> 0, until |-> 0]

SInit ==
  /\ PrInit
  /\ config \in Configs
  /\ at = "started" /\ why = "nothing"
  /\ clock = 0 /\ lease = NoLeaseYet

\* main returns; the listener, its handlers and their threads end with the process.
Exit(reason) ==
  /\ at' = "exited" /\ why' = reason
  /\ phase' = [r \in Requests |-> "none"]
  /\ answer' = [r \in Requests |-> "none"]
  /\ permit' = Nobody /\ sampler' = Nobody /\ reporting' = {}

GoOn(next) == at' = next /\ UNCHANGED <<why, prvars>>

-----------------------------------------------------------------------------
\* config.rs

\* Mutant of RenewsOftenEnough: exactly five is refused.
RenewsMoreThanFiveTimes(c) == c.lease \div c.renew > 5

RenewsOftenEnough(c) == c.lease \div c.renew >= 5

LeaseMs(c) == c.lease * MsPerSec

FitsSigned(n) == n <= MaxSigned

\* Config::validate.
ValidConfig(c) ==
  /\ RenewsOftenEnough(c)
  /\ c.progress <= c.renew
  /\ FitsSigned(c.lease) /\ FitsSigned(LeaseMs(c))

ValidateConfig ==
  /\ at = "started"
  /\ IF ValidConfig(config) THEN GoOn("validated") ELSE Exit("config")
  /\ UNCHANGED <<config, clock, lease>>

\* The profiling listener, if one is asked for.
Listens == config.pprof /\ at \in {"listening", "connected", "running"}

Bind ==
  /\ at = "validated"
  /\ GoOn("listening") \/ (config.pprof /\ Exit("address"))
  /\ UNCHANGED <<config, clock, lease>>

\* connect, with a URL that is malformed, names no backend of this build, or opens.
Connect ==
  /\ at = "listening"
  /\ IF config.url \in {"sqlite", "postgres", "postgresql"}
     THEN GoOn("connected") \/ Exit("database")
     ELSE Exit("url")
  /\ UNCHANGED <<config, clock, lease>>

MibFits(mib) == mib * BytesPerMib <= MaxUsize

Bytes(mib) == mib * BytesPerMib % (MaxUsize + 1)

\* ConverterConfig::validate.
ValidConverterConfig(c) ==
  /\ MibFits(c.file) /\ MibFits(c.inline) /\ MibFits(c.dedicated)
  /\ Bytes(c.inline) < Bytes(c.dedicated)
  /\ Bytes(c.inline) <= Bytes(c.file)
  /\ Bytes(c.dedicated) # 0

NewConverter ==
  /\ at = "connected"
  /\ IF ValidConverterConfig(config) THEN GoOn("running") ELSE Exit("converter")
  /\ UNCHANGED <<config, clock, lease>>

-----------------------------------------------------------------------------
\* run

\* Mutant of CanAdd: the addition wraps.
CanAddWrapping(now, ms) == TRUE

CanAdd(now, ms) == FitsSigned(now + ms)

\* The sum as an i64, wrapped if nobody looked.
Sum(now, ms) == IF FitsSigned(now + ms) THEN now + ms ELSE now + ms - 2 * (MaxSigned + 1)

\* claim_jobs, and renew_lease for a job it handed out: checked_add to the clock.
Grant ==
  /\ at = "running"
  /\ IF CanAdd(clock, LeaseMs(config))
     THEN /\ lease' = [from |-> clock, until |-> Sum(clock, LeaseMs(config))]
          /\ UNCHANGED <<at, why, prvars>>
     ELSE Exit("overflow") /\ UNCHANGED lease
  /\ UNCHANGED <<config, clock>>

\* Any other error of a task or of the store.
Fail ==
  /\ at = "running"
  /\ Exit("fault")
  /\ UNCHANGED <<config, clock, lease>>

Profile == Listens /\ Serve /\ UNCHANGED <<config, at, why, clock, lease>>

\* The supervisor.
Restart ==
  /\ at = "exited"
  /\ GoOn("started")
  /\ UNCHANGED <<config, clock, lease>>

Tick ==
  /\ clock < MaxClock
  /\ clock' = clock + 1
  /\ UNCHANGED <<config, at, why, lease, prvars>>

SNext ==
  \/ ValidateConfig \/ Bind \/ Connect \/ NewConverter
  \/ Grant \/ Fail \/ Profile \/ Restart \/ Tick

SSpec == SInit /\ [][SNext]_svars

\* Nothing obliges a process to get anywhere, nor a supervisor to restart it.
SFairSpec == SSpec /\ ServeFairness
-----------------------------------------------------------------------------
\* What a command line has to be, in numbers that do not overflow.

LeaseIsSound(c) ==
  /\ c.lease >= 5 * c.renew /\ c.renew >= c.progress
  /\ c.lease * MsPerSec <= MaxSigned

SizesAreSound(c) ==
  /\ c.inline < c.dedicated /\ c.inline <= c.file
  /\ {c.file, c.dedicated} \subseteq 1..(MaxUsize \div BytesPerMib)

UrlIsSound(c) == c.url \notin {"malformed", "unsupported"}

\* Properties.

RunningIsSound ==
  at = "running" => LeaseIsSound(config) /\ SizesAreSound(config) /\ UrlIsSound(config)

ExitsAreExplained ==
  at = "exited" =>
    /\ why = "config" => ~LeaseIsSound(config)
    /\ why = "converter" => ~SizesAreSound(config)
    /\ why = "url" => ~UrlIsSound(config)
    /\ why = "overflow" => clock + config.lease * MsPerSec > MaxSigned

\* Jobs are claimed only with a sound configuration: a lease outlives four renewals
\* that fail to come, and thresholds are in order in bytes as they are in MiB, at
\* every integer width.  And a process that ends has a reason: a sound command line
\* is never refused, the defaults included, which keep the ratio of five exactly;
\* and no claim overflows unless the lease ends beyond what i64 can express.
StartIsRight == RunningIsSound /\ ExitsAreExplained

\* Every lease that is granted ends after it began, by the configured duration: at
\* the end of the clock's range a claim is an error, never a lease in the past that
\* every other reconciler may reclaim at once.
LeasesEndLater ==
  lease # NoLeaseYet => lease.until = lease.from + config.lease * MsPerSec
=============================================================================
