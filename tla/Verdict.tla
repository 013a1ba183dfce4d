------------------------------ MODULE Verdict ------------------------------
(***************************************************************************)
(* What becomes of one file: scan_one of src/src/scan.c, which reports it  *)
(* or not and leaves the rest to the user, and rt_check of                 *)
(* src/src/realtime.c, on whose word the shield quarantines.  Both may be  *)
(* at the same file.                                                       *)
(*                                                                         *)
(* Each asks a chain of questions, and for most of them it opens the file  *)
(* again: its archive manifest, its hashes, its PE sections, its signer,   *)
(* its first bytes, in a deep scan all of it.  Between two questions       *)
(* another program may replace the file, and any of the opens may fail.    *)
(*                                                                         *)
(* A content is a record of the answers it gives.                          *)
(***************************************************************************)
EXTENDS Naturals

CONSTANTS
  Contents,   \* contents the file may have
  MaxChanges  \* bound: how often another program replaces the file

Content == [
  archive  : {"fine", "bomb", "odd"},   \* arc_inspect; no archive is fine
  sig      : {"none", "whole", "section", "pattern"}, \* what kind of signature matches
  scaffold : BOOLEAN,                   \* known_good_hash
  recorded : BOOLEAN,                   \* the bytes the baseline has for this path
  cached   : BOOLEAN,                   \* wfp_trusted
  heur     : {"none", "heur", "pua"},   \* heur_check
  signer   : {"none", "other", "microsoft"}]  \* trust_file

ASSUME VerdictAssumption == Contents \subseteq Content /\ MaxChanges \in Nat

VARIABLES
  file,    \* the content the file has
  place,   \* of its path: excluded or in grace, and in the baseline or not
  option,  \* archive guard; of the scan: heuristics, deep mode
  changes, \* replacements so far
  \* of each checker:
  pc,      \* where it is
  md5,     \* the content it has hashed, if any
  hit,     \* the content a hash signature of which matched, if any
  guess,   \* what kind its heuristic hit is of
  verdict,
  had,     \* the contents the file has had meanwhile (history)
  failed   \* the opens that have failed (history)

given   == <<file, place, option, changes>>
learnt  == <<md5, hit, guess>>
history == <<had, failed>>
vars    == <<given, pc, learnt, verdict, history>>

Checkers == {"scan", "shield"}
Reported == {"sig", "heur", "pua", "modified", "disputed"}  \* enum DET_*
Kinds(k) == IF k = "shield" THEN {"act", "none"} ELSE Reported \cup {"none"}

\* Kinds WM_SCAN_HIT offers to the user to quarantine.
Actionable == Reported \ {"modified", "disputed"}

Init ==
  /\ file \in Contents
  /\ place \in [exempt : {"no", "excluded", "grace"}, baseline : BOOLEAN]
  /\ option \in [arcguard : BOOLEAN, heuristics : BOOLEAN, deep : BOOLEAN]
  /\ changes = 0
  /\ pc = [k \in Checkers |-> "start"] /\ verdict = [k \in Checkers |-> "none"]
  /\ md5 = [k \in Checkers |-> {}] /\ hit = [k \in Checkers |-> {}]
  /\ guess = [k \in Checkers |-> "none"]
  /\ had = [k \in Checkers |-> {}] /\ failed = [k \in Checkers |-> {}]

-----------------------------------------------------------------------------
At(k, at)     == pc[k] = at
Goes(k, next) == pc' = [pc EXCEPT ![k] = next] /\ UNCHANGED verdict
Ends(k, v)    == pc' = [pc EXCEPT ![k] = "over"] /\ verdict' = [verdict EXCEPT ![k] = v]

\* A shield verdict is to act, a scan's is of a kind.
Finds(k, kind) == Ends(k, IF k = "shield" THEN "act" ELSE kind)

\* An open fails or not.
Opens(k)       == UNCHANGED failed
Fails(k, open) == failed' = [failed EXCEPT ![k] = @ \cup {open}]

\* base_check_path, and `verified`: the bytes are those on record for this path
\* or those of Windows' own copy.
BaseClean(c)    == place.baseline /\ c.recorded
BaseModified(c) == place.baseline /\ ~c.recorded
Verified(c)     == BaseClean(c) \/ c.cached

\* path_excluded and excl_match; only the shield asks grace_active.
Enter(k) ==
  /\ At(k, "start")
  /\ IF place.exempt = "excluded" \/ (place.exempt = "grace" /\ k = "shield")
     THEN Ends(k, "none") /\ UNCHANGED had
     ELSE Goes(k, "archive") /\ had' = [had EXCEPT ![k] = {file}]
  /\ UNCHANGED <<given, learnt, failed>>

Archive(k) ==
  /\ At(k, "archive")
  /\ IF option.arcguard /\ file.archive # "fine"
     THEN Finds(k, IF file.archive = "bomb" THEN "heur" ELSE "pua")
     ELSE Goes(k, "hash")
  /\ UNCHANGED <<given, learnt, history>>

\* eng_hash_file.  A scan skips a file that cannot be read, the shield goes on.
Hash(k) ==
  /\ At(k, "hash")
  /\ \/ /\ Opens(k) /\ Goes(k, "sections")
        /\ md5' = [md5 EXCEPT ![k] = {file}]
        /\ hit' = [hit EXCEPT ![k] = {c \in {file} : c.sig = "whole"}]
     \/ /\ Fails(k, "hash") /\ UNCHANGED <<md5, hit>>
        /\ IF k = "scan" THEN Ends(k, "none") ELSE Goes(k, "head")
  /\ UNCHANGED <<given, guess, had>>

\* The rest of eng_match_file: the sections are read through an open of their
\* own, and one that fails is as if none matched.
Sections(k) ==
  /\ At(k, "sections")
  /\ \/ Opens(k) /\ hit' = [hit EXCEPT ![k] = @ \cup {c \in {file} : c.sig = "section"}]
     \/ Fails(k, "sections") /\ UNCHANGED hit
  /\ Goes(k, "weigh")
  /\ UNCHANGED <<given, md5, guess, had>>

\* Variant: the shield does not ask whether Windows or the baseline vouches.
ShieldWeighsUnverified(c) ==
  IF c.scaffold THEN Ends("shield", "none")
  ELSE Goes("shield", IF hit["shield"] # {} THEN "trust" ELSE "head")

ShieldWeighs(c) ==
  IF c.scaffold \/ Verified(c) THEN Ends("shield", "none")
  ELSE Goes("shield", IF hit["shield"] # {} THEN "trust" ELSE "head")

\* Variant: a verified file is taken for harmless, signature or not.
ScanWeighsVerifiedFirst(c) ==
  IF c.scaffold \/ Verified(c) THEN Ends("scan", "none")
  ELSE IF hit["scan"] # {} THEN Goes("scan", "trust")
  ELSE IF BaseModified(c) THEN Ends("scan", "modified")
  ELSE Goes("scan", "head")

ScanWeighs(c) ==
  IF c.scaffold THEN Ends("scan", "none")
  ELSE IF hit["scan"] # {}
  THEN IF Verified(c) THEN Ends("scan", "disputed") ELSE Goes("scan", "trust")
  ELSE IF BaseModified(c) THEN Ends("scan", "modified")
  ELSE IF Verified(c) THEN Ends("scan", "none")
  ELSE Goes("scan", "head")

\* known_good_hash, base_check_path and wfp_trusted, on the hash.
Weigh(k) ==
  /\ At(k, "weigh")
  /\ \E c \in md5[k] : IF k = "shield" THEN ShieldWeighs(c) ELSE ScanWeighs(c)
  /\ UNCHANGED <<given, learnt, history>>

\* trust_file after a signature hit; a file it cannot open is signed by nobody.
Trust(k) ==
  /\ At(k, "trust")
  /\ \/ /\ Opens(k)
        /\ IF file.signer = "microsoft"
           THEN Ends(k, IF k = "shield" THEN "none" ELSE "disputed")
           ELSE Finds(k, "sig")
     \/ Fails(k, "trust") /\ Finds(k, "sig")
  /\ UNCHANGED <<given, learnt, had>>

AfterHead(k) == IF k = "scan" /\ option.deep THEN Goes(k, "sweep") ELSE Ends(k, "none")

\* The first bytes and heur_check.
HeadCheck(k) ==
  /\ At(k, "head")
  /\ \/ /\ Opens(k)
        /\ IF file.heur # "none" /\ (k = "shield" \/ option.heuristics)
           THEN Goes(k, "guess") /\ guess' = [guess EXCEPT ![k] = file.heur]
           ELSE AfterHead(k) /\ UNCHANGED guess
     \/ Fails(k, "head") /\ AfterHead(k) /\ UNCHANGED guess
  /\ UNCHANGED <<given, md5, hit, had>>

\* Variant: only Microsoft's signature outweighs a guess.
GuessSparesMicrosoft(k) ==
  /\ At(k, "guess")
  /\ \/ /\ Opens(k)
        /\ IF file.signer = "microsoft" THEN Ends(k, "none") ELSE Finds(k, guess[k])
     \/ Fails(k, "trust") /\ Finds(k, guess[k])
  /\ UNCHANGED <<given, learnt, had>>

\* trust_file after a heuristic hit.
Guess(k) ==
  /\ At(k, "guess")
  /\ \/ /\ Opens(k)
        /\ IF file.signer # "none" THEN Ends(k, "none") ELSE Finds(k, guess[k])
     \/ Fails(k, "trust") /\ Finds(k, guess[k])
  /\ UNCHANGED <<given, learnt, had>>

\* The deep scan's pattern sweep.
Sweep(k) ==
  /\ At(k, "sweep")
  /\ \/ Opens(k) /\ IF file.sig = "pattern" THEN Finds(k, "sig") ELSE Ends(k, "none")
     \/ Fails(k, "sweep") /\ Ends(k, "none")   \* or the scan is stopped meanwhile
  /\ UNCHANGED <<given, learnt, had>>

Replace(c) ==
  /\ changes < MaxChanges /\ changes' = changes + 1
  /\ c # file /\ file' = c
  /\ had' = [k \in Checkers |-> IF pc[k] \in {"start", "over"} THEN had[k] ELSE had[k] \cup {c}]
  /\ UNCHANGED <<place, option, pc, learnt, verdict, failed>>

Step(k) == \/ Enter(k) \/ Archive(k) \/ Hash(k) \/ Sections(k) \/ Weigh(k)
           \/ Trust(k) \/ HeadCheck(k) \/ Guess(k) \/ Sweep(k)
Next == (\E k \in Checkers : Step(k)) \/ (\E c \in Contents : Replace(c))
Spec == Init /\ [][Next]_vars

-----------------------------------------------------------------------------
(* Properties.                                                             *)

Over(k)  == At(k, "over")
Had(k)   == had[k]
Clear(k) == Over(k) /\ failed[k] = {}
Says(k)  == verdict[k]

\* Every variable stays in its range; a signature hit is asked about only when
\* there is one, a guess likewise, and a hash is weighed only when it was read.
TypeOK ==
  /\ file \in Contents
  /\ place \in [exempt : {"no", "excluded", "grace"}, baseline : BOOLEAN]
  /\ option \in [arcguard : BOOLEAN, heuristics : BOOLEAN, deep : BOOLEAN]
  /\ changes \in 0..MaxChanges
  /\ pc \in [Checkers -> {"start", "archive", "hash", "sections", "weigh", "trust", "head",
                         "guess", "sweep", "over"}]
  /\ md5 \in [Checkers -> SUBSET Contents] /\ hit \in [Checkers -> SUBSET Contents]
  /\ guess \in [Checkers -> {"none", "heur", "pua"}]
  /\ verdict \in [Checkers -> Reported \cup {"none", "act"}]
  /\ had \in [Checkers -> SUBSET Contents]
  /\ failed \in [Checkers -> SUBSET {"hash", "sections", "trust", "head", "sweep"}]
  /\ \A k \in Checkers :
       /\ At(k, "sections") \/ At(k, "weigh") => md5[k] # {}
       /\ At(k, "trust") => hit[k] # {}
       /\ At(k, "guess") => guess[k] # "none"
       /\ Says(k) \in Kinds(k)

\* README.md:22-23: the shield acts on a file only if, of the contents it had
\* while it was checked, one was not signed by Microsoft and one was not known
\* to the baseline, to Windows or as the installer's own.  What the archive
\* guard refuses, and an open that failed, are the exceptions.
ShieldSparesVouched ==
  Clear("shield") /\ Says("shield") = "act" =>
    \/ \E c \in Had("shield") : option.arcguard /\ c.archive # "fine"
    \/ /\ \E c \in Had("shield") : c.signer # "microsoft"
       /\ \E c \in Had("shield") : ~c.scaffold /\ ~Verified(c)

\* A guess never outweighs a signature: a file without a matching signature
\* and signed in every content it had is neither acted on nor offered.
SignedSkipHeuristics ==
  \A k \in Checkers : Clear(k) /\ Says(k) \in Actionable \cup {"act"} =>
    \E c \in Had(k) : c.signer = "none" \/ c.sig # "none" \/ (option.arcguard /\ c.archive # "fine")

\* scan.c:324-329: a file that had, in every content, a hash signature is never
\* passed over by a scan that could read it, verified or not; only the exact
\* bytes of the installer's own files are.  This is what the code does, and it is
\* not what baseline.c:6-10 says ("any file you chose to baseline ... can never be
\* reported by a signature or a heuristic") and the user is told after a snapshot
\* ("will never be reported as threats", main.c:1953-1954): a baselined file
\* with a signature is reported, as disputed.
SignatureIsReported ==
  Clear("scan") /\ Had("scan") # {} /\ Says("scan") = "none" =>
    \E c \in Had("scan") : c.sig # "whole" \/ c.scaffold

\* What the shield acts on, a scan with heuristics that saw the same file
\* unchanged offers to quarantine or shows as modified: the shield, which asks
\* nobody, is never the stricter of the two.
ShieldWithinScan ==
  /\ Clear("scan") /\ Clear("shield") /\ changes = 0 /\ option.heuristics
  /\ Says("shield") = "act"
  => Says("scan") \in Actionable \cup {"modified"}

\* The strengthening that makes the first three inductive: the contents a
\* checker met account for what it has learnt.
Present(k) == /\ pc[k] \notin {"start", "over"} => file \in had[k]
              /\ At(k, "start") => had[k] = {}
              /\ md5[k] \subseteq had[k] /\ hit[k] \subseteq had[k]
HitHasCause(k) ==
  /\ \A c \in hit[k] : c.sig # "none"
  /\ At(k, "sections") \/ At(k, "weigh") => \A c \in md5[k] : c.sig = "whole" => c \in hit[k]
ShieldDoubts ==
  pc["shield"] \in {"trust", "head", "guess"} /\ failed["shield"] = {} =>
    \E c \in had["shield"] : ~c.scaffold /\ ~Verified(c)
ScanFoundNone ==
  pc["scan"] \in {"head", "guess", "sweep"} /\ failed["scan"] = {} =>
    \E c \in had["scan"] : c.sig # "whole"
IndInv == /\ TypeOK /\ ~At("shield", "sweep")
          /\ \A k \in Checkers : Present(k) /\ HitHasCause(k)
          /\ ShieldDoubts /\ ScanFoundNone
          /\ ShieldSparesVouched /\ SignedSkipHeuristics /\ SignatureIsReported

\* The strengthening for the last: while the file is not replaced and no open of
\* the checker has failed, where the checker is tells what the file is, so that
\* the shield ends with acting only on what is due, and the scan spares only what
\* is not.
Refused == option.arcguard /\ file.archive # "fine"
Hashed  == file.sig \in {"whole", "section"}
Vouched == file.scaffold \/ Verified(file)
Due == /\ place.exempt = "no"
       /\ \/ Refused
          \/ ~Vouched /\ Hashed /\ file.signer # "microsoft"
          \/ ~Vouched /\ ~Hashed /\ file.heur # "none" /\ file.signer = "none"
Entered(k) ==
  /\ had[k] \subseteq {file}
  /\ pc[k] \notin {"start", "over"} => place.exempt # "excluded" /\ (k = "shield" => place.exempt = "no")
Passed(k) ==
  /\ pc[k] \notin {"start", "archive", "over"} => ~Refused
  /\ At(k, "sections") => (hit[k] # {} <=> file.sig = "whole")
  /\ At(k, "weigh") => (hit[k] # {} <=> Hashed)
  /\ At(k, "trust") => Hashed
  /\ pc[k] \in {"head", "guess", "sweep"} => ~Hashed
  /\ pc[k] \in {"trust", "head", "guess", "sweep"} => ~Vouched
  /\ At(k, "guess") => guess[k] = file.heur
  /\ At(k, "sweep") /\ option.heuristics => file.heur = "none"
Concluded(k) ==
  Clear(k) =>
    /\ k = "shield" /\ Says(k) = "act" => Due
    /\ k = "scan" /\ option.heuristics /\ Due => Says(k) \in Actionable \cup {"modified"}
Follows(k)  == Entered(k) /\ (failed[k] = {} => Passed(k)) /\ Concluded(k)
Undisturbed == changes = 0 => \A k \in Checkers : Follows(k)
=============================================================================
