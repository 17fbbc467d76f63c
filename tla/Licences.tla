------------------------------- MODULE Licences -------------------------------
(***************************************************************************)
(* Licences of callsigns: CallsignValidator::verify_license of             *)
(* auth/callsign.rs over the license_cache table and the memory of the     *)
(* Database, by lookups that interleave between the table, the memory and  *)
(* the source. A licence is kept by its stamp, the turn at which it was   *)
(* fetched, in place of verified_at; 0 is no licence. What a licence says  *)
(* decides nothing: validate takes any answer, Unknown too, as verified.   *)
(***************************************************************************)
EXTENDS Naturals, FiniteSetsExt

CONSTANTS
  Signs,        \* callsigns, in upper case, of a valid format
  Lookups,      \* calls of verify_license that may be under way
  MaxFetches    \* bound: licences fetched in all

ASSUME LicenceAssumption == Signs # {} /\ MaxFetches \in Nat

VARIABLES
  saved,     \* license_cache: the stamp of each sign's row
  kept,   \* the Database's memory of licences
  look,    \* where each lookup is
  old,     \* stamps up to this one are older than thirty days
  last,    \* history: the stamp last fetched for each sign
  spoilt   \* history: signs whose last licence overlapping lookups, an error, a stop or
           \* a cleanup may have kept from the table or the memory

licenceVars == <<saved, kept, look, old, last, spoilt>>

Stamps == 0..MaxFetches
AtRest == [at |-> "rest"]
Lookup == [at: {"load", "keep", "fetch", "store", "note"}, sign: Signs, info: Stamps]

LicencesTypeOK ==
  /\ saved \in [Signs -> Stamps] /\ kept \in [Signs -> Stamps] /\ last \in [Signs -> Stamps]
  /\ look \in [Lookups -> Lookup \cup {AtRest}]
  /\ old \in Stamps
  /\ spoilt \subseteq Signs

NoLicences == [c \in Signs |-> 0]

LicencesInit ==
  /\ saved = NoLicences /\ kept = NoLicences /\ last = NoLicences
  /\ look = [l \in Lookups |-> AtRest]
  /\ old = 0 /\ spoilt = {}

----------------------------------------------------------------------------
Busy(c)  == {l \in Lookups : look[l] # AtRest /\ look[l].sign = c}
Fetched  == {last[c] : c \in Signs}
Fresh(stamp) == stamp > old
TakeUp(l, point, c, stamp) ==
  look' = [look EXCEPT ![l] = [at |-> point, sign |-> c, info |-> stamp]]
Answer(l) == look' = [look EXCEPT ![l] = AtRest]

\* A fresh licence in the memory is the answer, and nothing changes.
VerifyLicense(l, c) ==
  /\ look[l] = AtRest
  /\ ~Fresh(kept[c])
  /\ TakeUp(l, IF kept[c] = 0 THEN "load" ELSE "fetch", c, 0)
  /\ spoilt' = IF Busy(c) # {} THEN spoilt \cup {c} ELSE spoilt
  /\ UNCHANGED <<saved, kept, old, last>>

LoadLicense(l) ==
  /\ look[l].at = "load"
  /\ LET c == look[l].sign
     IN TakeUp(l, IF saved[c] = 0 THEN "fetch" ELSE "keep", c, saved[c])
  /\ UNCHANGED <<saved, kept, old, last, spoilt>>

\* A row is remembered whatever its age, in place of what was remembered since.
KeepLicense(l) ==
  /\ look[l].at = "keep"
  /\ LET c == look[l].sign
     IN /\ kept' = [kept EXCEPT ![c] = look[l].info]
        /\ IF Fresh(look[l].info) THEN Answer(l) ELSE TakeUp(l, "fetch", c, 0)
  /\ UNCHANGED <<saved, old, last, spoilt>>

\* The sources are placeholders that always answer, with the time of the answer.
FetchLicense(l) ==
  /\ look[l].at = "fetch"
  /\ Max(Fetched) < MaxFetches
  /\ LET stamp == Max(Fetched) + 1
     IN /\ last' = [last EXCEPT ![look[l].sign] = stamp]
        /\ TakeUp(l, "store", look[l].sign, stamp)
  /\ UNCHANGED <<saved, kept, old, spoilt>>

\* INSERT OR REPLACE, the same statement in Database and in Queries.
ReplacedRow_Absent(c, stamp) == [saved EXCEPT ![c] = IF @ = 0 THEN stamp ELSE @]
ReplacedRow(c, stamp) == [saved EXCEPT ![c] = stamp]
StoreLicense(l) ==
  /\ look[l].at = "store"
  /\ saved' = ReplacedRow(look[l].sign, look[l].info)
  /\ TakeUp(l, "note", look[l].sign, look[l].info)
  /\ UNCHANGED <<kept, old, last, spoilt>>

NoteLicense(l) ==
  /\ look[l].at = "note"
  /\ LET c == look[l].sign
     IN /\ kept' = [kept EXCEPT ![c] = look[l].info]
        /\ spoilt' = IF Busy(c) = {l} /\ look[l].info = last[c] /\ saved[c] = last[c]
                     THEN spoilt \ {c} ELSE spoilt
  /\ Answer(l)
  /\ UNCHANGED <<saved, old, last>>

\* An error of the database ends a lookup, and what was fetched is not kept.
LicenseDbError(l) ==
  /\ look[l].at \in {"load", "store"}
  /\ spoilt' = IF look[l].at = "store" THEN spoilt \cup {look[l].sign} ELSE spoilt
  /\ Answer(l)
  /\ UNCHANGED <<saved, kept, old, last>>

\* The table loses the rows up to an age, and the memory nothing.
CleanupLicenseCache(cutoff) ==
  /\ \E c \in Signs : saved[c] \in 1..cutoff
  /\ saved' = [c \in Signs |-> IF saved[c] <= cutoff THEN 0 ELSE saved[c]]
  /\ spoilt' = spoilt \cup {c \in Signs : Fresh(saved[c]) /\ saved[c] <= cutoff}
  /\ UNCHANGED <<kept, look, old, last>>

ClearLicences ==
  /\ kept # NoLicences
  /\ kept' = NoLicences
  /\ UNCHANGED <<saved, look, old, last, spoilt>>

GrowOlder ==
  /\ \E t \in 1..Max(Fetched) : t > old /\ old' = t
  /\ UNCHANGED <<saved, kept, look, last, spoilt>>

RestartLicences ==
  /\ kept' = NoLicences
  /\ look' = [l \in Lookups |-> AtRest]
  /\ spoilt' = spoilt \cup {c \in Signs : \E l \in Busy(c) : look[l].at = "store"}
  /\ UNCHANGED <<saved, old, last>>

Verifying(l) == \/ LoadLicense(l) \/ KeepLicense(l) \/ FetchLicense(l) \/ StoreLicense(l)
                \/ NoteLicense(l) \/ LicenseDbError(l)

LicencesNext ==
  \/ \E l \in Lookups : Verifying(l) \/ \E c \in Signs : VerifyLicense(l, c)
  \/ \E cutoff \in 1..MaxFetches : CleanupLicenseCache(cutoff)
  \/ ClearLicences \/ GrowOlder \/ RestartLicences

LicencesSpec == LicencesInit /\ [][LicencesNext]_licenceVars

----------------------------------------------------------------------------
(* Properties.                                                             *)

\* The source is asked again only for a licence that has grown old, whatever is cleared
\* or started again in between, unless lookups overlapped, an error or a stop came
\* before it was stored, or it was cleaned up young.
SourceSpared ==
  [][\A c \in Signs : last'[c] # last[c] => last[c] <= old \/ c \in spoilt]_licenceVars
=============================================================================
