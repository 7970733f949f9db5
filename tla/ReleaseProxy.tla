---------------------------- MODULE ReleaseProxy ----------------------------
(***************************************************************************)
(* The worker between the page and the release host (worker/src/index.js). *)
(* A request is its method, its path, and whether tag and name are of the  *)
(* official firmware's form; upstream is the status GitHub answers with.   *)
(***************************************************************************)
EXTENDS Integers

Allowed(request) == request.officialTag /\ request.officialName

\* cached: an earlier GET was answered and kept.
Answer(request, cached, upstream) ==
  IF request.method = "OPTIONS" THEN 204
  ELSE IF request.method \notin {"GET", "HEAD"} THEN 405
  ELSE IF request.path # "/fw" THEN 404
  ELSE IF ~Allowed(request) THEN 400
  ELSE IF cached \/ upstream = 200 THEN 200
  ELSE IF upstream = 404 THEN 404
  ELSE 502
=============================================================================
