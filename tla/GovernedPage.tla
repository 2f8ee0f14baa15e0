---------------------------- MODULE GovernedPage ----------------------------
(***************************************************************************)
(* The HH and Brent workspaces, whose pages hold one candidate of one      *)
(* settlement day.  HH keeps the candidate on the server under its owner   *)
(* and publishes what was kept; Brent keeps a fingerprint in the browser   *)
(* and rebuilds the candidate when it is published.  Either page publishes *)
(* in several reads and one transaction, while the settlement is corrected,*)
(* others publish, the application is deployed anew, and answers of other  *)
(* callbacks arrive.                                                       *)
(***************************************************************************)
EXTENDS Naturals, Sequences, FiniteSets

CONSTANTS Signed,           \* identities that may sign in
          Picks,            \* market snapshots a trader may select
          Nil,              \* nothing: no candidate, no request
          MaxUpsets,        \* bound on corrections, deployments, expiries, changes
                            \* of the identity and of the snapshot, all together
          MaxCalibrations,  \* bound on calibrations
          MaxGoverned       \* bound on publications

ASSUME GovernedAssumption ==
    /\ Signed # {} /\ Picks # {}
    /\ {MaxUpsets, MaxCalibrations, MaxGoverned} \subseteq Nat

VARIABLES commodity,  \* the workspace: HH or Brent
          desk,       \* the stores of its page, and who is signed in
          asked,      \* per callback: the request under way
          settlement, \* revision of the settlement the page fits
          code,       \* revision of the application
          candidates,       \* candidates the server still keeps
          governed,   \* publications of the day, in order
          fits,       \* calibrations asked for
          upsets

governedVars == <<commodity, desk, asked, settlement, code, candidates, governed, fits, upsets>>

GovernedCallbacks == {"load", "calibrate", "publish"}

GovernedInit ==
    /\ commodity \in {"HH", "BRENT"}
    /\ desk = [who |-> CHOOSE w \in Signed : TRUE, pick |-> CHOOSE k \in Picks : TRUE,
               published |-> 0, candidate |-> Nil]
    /\ asked = [c \in GovernedCallbacks |-> Nil]
    /\ settlement = 0 /\ code = 0 /\ candidates = {} /\ fits = 0 /\ upsets = 0
    /\ governed = <<>>

Page(c) == commodity = c
Requires(c, r) == asked' = [asked EXCEPT ![c] = r]
Serves(c, step) == asked[c] # Nil /\ asked[c].step = step
LastGoverned == Len(governed)

-----------------------------------------------------------------------------
(* Surroundings.                                                           *)

Upsets == upsets < MaxUpsets /\ upsets' = upsets + 1

CorrectSettlement ==
    /\ Upsets
    /\ settlement' = settlement + 1
    /\ UNCHANGED <<commodity, desk, asked, code, candidates, governed, fits>>

\* A deployment ends the requests under way.
Deploy ==
    /\ Upsets
    /\ code' = code + 1
    /\ asked' = [c \in GovernedCallbacks |-> Nil]
    /\ UNCHANGED <<commodity, desk, settlement, candidates, governed, fits>>

OtherGoverned ==
    /\ LastGoverned < MaxGoverned
    /\ governed' = Append(governed, Nil)
    /\ UNCHANGED <<commodity, desk, asked, settlement, code, candidates, fits, upsets>>

\* Candidates are kept for two hours.
CandidateExpires ==
    /\ Upsets
    /\ \E c \in candidates : candidates' = candidates \ {c}
    /\ UNCHANGED <<commodity, desk, asked, settlement, code, governed, fits>>

\* Another trader signs in, which is of no matter to the Brent page.
SignIn(who) ==
    /\ Page("HH") /\ Upsets /\ desk.who # who
    /\ desk' = [desk EXCEPT !.who = who]
    /\ UNCHANGED <<commodity, asked, settlement, code, candidates, governed, fits>>

\* Another market snapshot is selected on the Brent page, which keeps its
\* candidate; an HH page is of one snapshot.
Pick(k) ==
    /\ Page("BRENT") /\ Upsets /\ desk.pick # k
    /\ desk' = [desk EXCEPT !.pick = k]
    /\ UNCHANGED <<commodity, asked, settlement, code, candidates, governed, fits>>

-----------------------------------------------------------------------------
(* Callbacks of the pages.                                                 *)

\* HH loads the publication that was active when its snapshot was observed.
LoadGoverned ==
    /\ Page("HH") /\ asked["load"] = Nil
    /\ \E seen \in {0, LastGoverned} : Requires("load", [step |-> "answer", published |-> seen])
    /\ UNCHANGED <<commodity, desk, settlement, code, candidates, governed, fits, upsets>>
LoadAnswers ==
    /\ Serves("load", "answer")
    /\ desk' = [desk EXCEPT !.published = asked["load"].published]
    /\ Requires("load", Nil)
    /\ UNCHANGED <<commodity, settlement, code, candidates, governed, fits, upsets>>

\* A calibration fits the settlement as it is.  HH takes the base the page
\* holds; Brent reads the active publication after it has fitted.
Calibrate ==
    /\ asked["calibrate"] = Nil
    /\ fits < MaxCalibrations /\ fits' = fits + 1
    /\ Requires("calibrate",
         [step |-> "keep",
          candidate |-> [pick |-> desk.pick, fit |-> <<settlement, code>>,
                         base |-> desk.published, owner |-> desk.who]])
    /\ UNCHANGED <<commodity, desk, settlement, code, candidates, governed, upsets>>
KeepCandidate ==
    /\ Serves("calibrate", "keep")
    /\ LET fitted == asked["calibrate"].candidate
           c == IF Page("BRENT") THEN [fitted EXCEPT !.base = LastGoverned] ELSE fitted
       IN /\ candidates' = IF Page("HH") THEN candidates \cup {c} ELSE candidates
          /\ Requires("calibrate", [step |-> "answer", candidate |-> c])
    /\ UNCHANGED <<commodity, desk, settlement, code, governed, fits, upsets>>
CalibrateAnswers ==
    /\ Serves("calibrate", "answer")
    /\ desk' = [desk EXCEPT !.candidate = asked["calibrate"].candidate]
    /\ Requires("calibrate", Nil)
    /\ UNCHANGED <<commodity, settlement, code, candidates, governed, fits, upsets>>
\* Blocked by an error: the page drops the candidate it had.
CalibrateFails ==
    /\ asked["calibrate"] # Nil
    /\ desk' = [desk EXCEPT !.candidate = Nil]
    /\ Requires("calibrate", Nil)
    /\ UNCHANGED <<commodity, settlement, code, candidates, governed, fits, upsets>>

\* Publish is confirmed and clicked: the request is of the stores as they are.
ClickPublish ==
    /\ asked["publish"] = Nil
    /\ desk.candidate # Nil
    /\ Requires("publish", [step |-> "check", desk |-> desk, asOf |-> settlement])
    /\ UNCHANGED <<commodity, desk, settlement, code, candidates, governed, fits, upsets>>

Proceeds(step) == Requires("publish", [asked["publish"] EXCEPT !.step = step])
Blocked == Requires("publish", Nil)

\* Slip: the base the page shows by now is not compared.
OnAnyBase(s) ==
    /\ s.candidate \in candidates
    /\ s.candidate.owner = s.who
    /\ s.candidate.fit[2] = code

\* HH: the kept candidate, of this identity and this code, over the base that
\* the page shows.
ResolveCandidate(s) ==
    /\ s.candidate \in candidates
    /\ s.candidate.owner = s.who
    /\ s.candidate.fit[2] = code
    /\ s.candidate.base = s.published
CheckCandidate ==
    /\ Page("HH") /\ Serves("publish", "check")
    /\ IF ResolveCandidate(asked["publish"].desk) THEN Proceeds("verify") ELSE Blocked
    /\ UNCHANGED <<commodity, desk, settlement, code, candidates, governed, fits, upsets>>
\* HH: its source is still what was fitted.
VerifySource ==
    /\ Page("HH") /\ Serves("publish", "verify")
    /\ IF asked["publish"].desk.candidate.fit[1] = settlement
         THEN Proceeds("commit") ELSE Blocked
    /\ UNCHANGED <<commodity, desk, settlement, code, candidates, governed, fits, upsets>>

\* Brent: the same selection, and a rebuilt candidate of the same fingerprint.
RebuildCandidate ==
    /\ Page("BRENT") /\ Serves("publish", "check")
    /\ LET s == asked["publish"].desk IN
         IF s.candidate.pick = s.pick /\ s.candidate.fit = <<settlement, code>>
           THEN Proceeds("verify") ELSE Blocked
    /\ UNCHANGED <<commodity, desk, settlement, code, candidates, governed, fits, upsets>>
\* Brent: nothing was published since the candidate was calibrated.
CheckBase ==
    /\ Page("BRENT") /\ Serves("publish", "verify")
    /\ IF asked["publish"].desk.candidate.base = LastGoverned
         THEN Proceeds("commit") ELSE Blocked
    /\ UNCHANGED <<commodity, desk, settlement, code, candidates, governed, fits, upsets>>

\* The transaction: the same inputs are published once, and only over the
\* revision that is expected to be the active one.
ExpectedOf(s) == IF Page("HH") THEN s.published ELSE s.candidate.base
SameInputs(c, e) == c.pick = e.pick /\ c.base = e.base /\ c.fit[1] = e.fit[1]
CommitGoverned ==
    /\ Serves("publish", "commit")
    /\ LET r == asked["publish"]
           s == r.desk
           again == {i \in DOMAIN governed :
                       governed[i] # Nil /\ SameInputs(governed[i].candidate, s.candidate)}
           Publishes(i) == Requires("publish", [step |-> "answer", published |-> i])
       IN \/ /\ again # {} /\ UNCHANGED governed
             /\ \E i \in again : Publishes(i)
          \/ /\ again = {} /\ LastGoverned < MaxGoverned
             /\ ExpectedOf(s) = LastGoverned
             /\ governed' = Append(governed,
                    [candidate |-> s.candidate, by |-> s.who, asOf |-> r.asOf,
                               code |-> code, replaced |-> LastGoverned])
             /\ Publishes(LastGoverned + 1)
          \/ /\ again = {} /\ ExpectedOf(s) # LastGoverned
             /\ Blocked /\ UNCHANGED governed
    /\ UNCHANGED <<commodity, desk, settlement, code, candidates, fits, upsets>>
\* Only the HH page takes over the publication it made.
PublishAnswers ==
    /\ Serves("publish", "answer")
    /\ desk' = IF Page("HH") THEN [desk EXCEPT !.published = asked["publish"].published] ELSE desk
    /\ Requires("publish", Nil)
    /\ UNCHANGED <<commodity, settlement, code, candidates, governed, fits, upsets>>

GovernedNext ==
    \/ CorrectSettlement \/ Deploy \/ OtherGoverned \/ CandidateExpires
    \/ \E who \in Signed : SignIn(who)
    \/ \E k \in Picks : Pick(k)
    \/ LoadGoverned \/ LoadAnswers
    \/ Calibrate \/ KeepCandidate \/ CalibrateAnswers \/ CalibrateFails
    \/ ClickPublish \/ CheckCandidate \/ VerifySource \/ RebuildCandidate \/ CheckBase
    \/ CommitGoverned \/ PublishAnswers

GovernedSpec == GovernedInit /\ [][GovernedNext]_governedVars

(***************************************************************************)
(* Stores and requests refer to publications that exist.                   *)
(***************************************************************************)
GovernedTypeOK ==
    /\ desk.who \in Signed /\ desk.pick \in Picks
    /\ desk.published \in 0..LastGoverned /\ LastGoverned <= MaxGoverned
    /\ settlement + code <= upsets /\ upsets \in 0..MaxUpsets /\ fits \in 0..MaxCalibrations

(***************************************************************************)
(* A governed surface is published as its trader reviewed it: by the code  *)
(* that fitted it, from a settlement no older than the click, over the     *)
(* very publication it was calibrated against, by whoever owns a candidate *)
(* the server keeps, and no inputs are published twice.                    *)
(***************************************************************************)
GovernedAsReviewed ==
    \A i \in DOMAIN governed : governed[i] # Nil =>
        LET g == governed[i] IN
        /\ g.candidate.fit[2] = g.code
        /\ g.candidate.fit[1] >= g.asOf
        /\ g.replaced = g.candidate.base
        /\ Page("HH") => g.by = g.candidate.owner
        /\ \A k \in 1 .. i - 1 :
             governed[k] # Nil => ~SameInputs(governed[k].candidate, g.candidate)
=============================================================================
