------------------------------- MODULE ChdPull -------------------------------
(***************************************************************************)
(* The paid pull of order-book hours (scripts/backfill_books_chd.py) for   *)
(* one pair: a pool of workers downloads the missing hours with one shared *)
(* token (ChdAuth), and the main thread writes what they bring.  ChdAuth   *)
(* is read and written by all workers without a lock: token() looks at     *)
(* _jwt and then returns it, which another worker may have set to None in  *)
(* between.  Any error that leaves a worker ends the run, and whatever was *)
(* downloaded but not yet written is dropped; the operator runs it again.  *)
(*                                                                         *)
(* A token is a number, 0 is None; the vendor accepts those above revoked. *)
(***************************************************************************)
EXTENDS Naturals, FiniteSets

CONSTANTS
  Hours,      \* the hours missing from the archive
  Workers,    \* MAX_CONCURRENCY
  MaxRetries, \* max_retries of download_hour
  MaxTokens,  \* bound: tokens issued
  MaxRevokes, \* bound: tokens the vendor drops before their time
  MaxNoise    \* bound: 429 and 5xx answers, refused token requests, kills

VARIABLES
  published, \* hours the vendor has
  files,     \* [Hours -> "none", "torn" or "whole"]
  todo,      \* hours of this run that no worker has taken yet
  work,      \* [Workers -> the download]
  brought,   \* hours whose bytes wait for the main thread
  absent,    \* hours of this run that the vendor answered 404
  run,       \* "on", "died" or "ended"
  jwt,       \* ChdAuth._jwt
  lapsed,    \* its expiry on the local clock has passed
  issued, revoked,
  revokes, noise

auth == <<jwt, lapsed, issued>>
vendor == <<published, revoked, revokes>>
vars == <<published, files, todo, work, brought, absent, run, jwt, lapsed, issued, revoked, revokes, noise>>

NoToken == 0

AnHour == CHOOSE h \in Hours : TRUE

NoWork == [step |-> "idle", hour |-> AnHour, attempt |-> 0, bearer |-> 0]

TypeOK ==
  /\ published \subseteq Hours /\ files \in [Hours -> {"none", "torn", "whole"}]
  /\ todo \subseteq Hours /\ brought \subseteq Hours /\ absent \subseteq Hours
  /\ work \in [Workers -> [step : {"idle", "token", "return", "post", "ask", "refused"}, hour : Hours,
                           attempt : 0 .. MaxRetries, bearer : 0 .. MaxTokens]]
  /\ run \in {"on", "died", "ended"}
  /\ {jwt, issued, revoked} \subseteq 0 .. MaxTokens /\ lapsed \in BOOLEAN
  /\ revokes \in 0 .. MaxRevokes /\ noise \in 0 .. MaxNoise

(* An hour is there when a file has its name.                              *)
Missing(archive) == {h \in Hours : archive[h] = "none"}

Fresh == /\ todo' = Missing(files')
         /\ work' = [w \in Workers |-> NoWork]
         /\ brought' = {} /\ absent' = {}
         /\ run' = "on" /\ jwt' = NoToken /\ lapsed' = FALSE

Init == /\ published \in SUBSET Hours
        /\ files = [h \in Hours |-> "none"]
        /\ todo = Missing(files) /\ work = [w \in Workers |-> NoWork] /\ brought = {} /\ absent = {}
        /\ run = "on" /\ jwt = NoToken /\ lapsed = FALSE /\ issued = 0 /\ revoked = 0
        /\ revokes = 0 /\ noise = 0

-----------------------------------------------------------------------------
(* The vendor drops the tokens it has issued; the local expiry comes, an   *)
(* early one by JWT_REFRESH_SLACK_S.                                       *)
Revoke ==
  /\ revokes < MaxRevokes /\ revoked # issued
  /\ revokes' = revokes + 1 /\ revoked' = issued
  /\ UNCHANGED <<published, files, todo, work, brought, absent, run, auth, noise>>

Lapse ==
  /\ jwt # NoToken /\ ~lapsed /\ noise < MaxNoise
  /\ lapsed' = TRUE /\ noise' = noise + 1
  /\ UNCHANGED <<vendor, files, todo, work, brought, absent, run, jwt, issued>>

-----------------------------------------------------------------------------
At(w, step) == run = "on" /\ work[w].step = step

Goes(w, step) == work' = [work EXCEPT ![w].step = step]

Take(w, h) ==
  /\ At(w, "idle") /\ h \in todo
  /\ todo' = todo \ {h}
  /\ work' = [work EXCEPT ![w] = [step |-> "token", hour |-> h, attempt |-> 0, bearer |-> 0]]
  /\ UNCHANGED <<vendor, files, brought, absent, run, auth, noise>>

(* token(): the check, and then the second read of _jwt or the POST.       *)
CheckToken(w) ==
  /\ At(w, "token")
  /\ Goes(w, IF jwt # NoToken /\ ~lapsed THEN "return" ELSE "post")
  /\ UNCHANGED <<vendor, files, todo, brought, absent, run, auth, noise>>

ReturnToken(w) ==
  /\ At(w, "return")
  /\ work' = [work EXCEPT ![w].step = "ask", ![w].bearer = jwt]
  /\ UNCHANGED <<vendor, files, todo, brought, absent, run, auth, noise>>

PostToken(w) ==
  /\ At(w, "post") /\ issued < MaxTokens
  /\ issued' = issued + 1 /\ jwt' = issued' /\ lapsed' = FALSE
  /\ Goes(w, "return")
  /\ UNCHANGED <<vendor, files, todo, brought, absent, run, noise>>

(* The loop of download_hour: another attempt, or the last one is spent.   *)
Retry(w) ==
  IF work[w].attempt + 1 < MaxRetries
  THEN /\ work' = [work EXCEPT ![w].step = "token", ![w].attempt = @ + 1]
       /\ UNCHANGED run
  ELSE run' = "died" /\ UNCHANGED work

Accepted(w) == work[w].bearer > revoked

Served(w) ==
  /\ At(w, "ask") /\ Accepted(w)
  /\ IF work[w].hour \in published
     THEN brought' = brought \union {work[w].hour} /\ UNCHANGED absent
     ELSE absent' = absent \union {work[w].hour} /\ UNCHANGED brought
  /\ work' = [work EXCEPT ![w] = NoWork]
  /\ UNCHANGED <<vendor, files, todo, run, auth, noise>>

Refused401(w) ==
  /\ At(w, "ask") /\ ~Accepted(w)
  /\ Goes(w, "refused")
  /\ UNCHANGED <<vendor, files, todo, brought, absent, run, auth, noise>>

(* invalidate() drops whatever token is there now, not the refused one.    *)
Invalidate(w) ==
  /\ At(w, "refused")
  /\ jwt' = NoToken
  /\ Retry(w)
  /\ UNCHANGED <<vendor, files, todo, brought, absent, lapsed, issued, noise>>

Busy(w) ==
  /\ At(w, "ask") /\ noise < MaxNoise
  /\ noise' = noise + 1
  /\ Retry(w)
  /\ UNCHANGED <<vendor, files, todo, brought, absent, auth>>

PostFails(w) ==
  /\ At(w, "post") /\ noise < MaxNoise
  /\ noise' = noise + 1 /\ run' = "died"
  /\ UNCHANGED <<vendor, files, todo, work, brought, absent, auth>>

(* A download that does not decode raises out of the main thread.          *)
Undecodable(h) ==
  /\ run = "on" /\ h \in brought /\ noise < MaxNoise
  /\ noise' = noise + 1 /\ run' = "died"
  /\ UNCHANGED <<vendor, files, todo, work, brought, absent, auth>>

(* The main thread: a file that exists is never written again; it is       *)
(* written under a temporary name and renamed.                             *)
WriteInPlace(h, killed) ==
  /\ run = "on" /\ h \in brought
  /\ brought' = brought \ {h}
  /\ IF killed
     THEN noise < MaxNoise /\ noise' = noise + 1 /\ run' = "died" /\ files' = [files EXCEPT ![h] = "torn"]
     ELSE files' = [files EXCEPT ![h] = "whole"] /\ UNCHANGED <<run, noise>>
  /\ UNCHANGED <<vendor, todo, work, absent, auth>>

Write(h, killed) ==
  /\ run = "on" /\ h \in brought
  /\ brought' = brought \ {h}
  /\ IF killed
     THEN noise < MaxNoise /\ noise' = noise + 1 /\ run' = "died" /\ UNCHANGED files
     ELSE files' = [files EXCEPT ![h] = "whole"] /\ UNCHANGED <<run, noise>>
  /\ UNCHANGED <<vendor, todo, work, absent, auth>>

EndRun ==
  /\ run = "on" /\ todo = {} /\ brought = {} /\ \A w \in Workers : work[w].step = "idle"
  /\ run' = "ended"
  /\ UNCHANGED <<vendor, files, todo, work, brought, absent, auth, noise>>

(* The operator runs it again after a run that died: a new ChdAuth, and    *)
(* only the hours without a file.                                          *)
Rerun ==
  /\ run = "died"
  /\ UNCHANGED <<vendor, files, issued, noise>>
  /\ Fresh

Step ==
  \/ \E w \in Workers :
       \/ \E h \in Hours : Take(w, h)
       \/ CheckToken(w) \/ ReturnToken(w) \/ PostToken(w) \/ Served(w) \/ Refused401(w) \/ Invalidate(w)
  \/ \E h \in Hours : Write(h, FALSE)
  \/ EndRun \/ Rerun

Trouble ==
  \/ Revoke \/ Lapse
  \/ \E w \in Workers : Busy(w) \/ PostFails(w)
  \/ \E h \in Hours : Undecodable(h) \/ Write(h, TRUE)

Next == Step \/ Trouble

Spec == Init /\ [][Next]_vars

-----------------------------------------------------------------------------
(* Whatever died in between, a run that ends has a file of each hour that  *)
(* the vendor has, and every file is whole.                                *)
PulledWhole ==
  /\ \A h \in Hours : files[h] # "torn"
  /\ run = "ended" => \A h \in Hours : files[h] = "none" => h \notin published
-----------------------------------------------------------------------------
(* Why: in a run that goes on, an hour without a file is still to be taken, *)
(* with a worker, waiting to be written, or one the vendor said it has not. *)
InWork(h) == \E w \in Workers : work[w].step # "idle" /\ work[w].hour = h

Accounted ==
  /\ run = "on" => \A h \in Missing(files) : h \in todo \union brought \union absent \/ InWork(h)
  /\ absent \intersect published = {}

IInv == TypeOK /\ Accounted /\ PulledWhole
=============================================================================
