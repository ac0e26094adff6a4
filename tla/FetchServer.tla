---------------------------- MODULE FetchServer ----------------------------
(***************************************************************************)
(* components/scrcpy/fetch-server.ts: the scrcpy server is downloaded once *)
(* for all who ask for it; only a failed download is tried again.          *)
(***************************************************************************)
VARIABLE cachedValue   \* the download: "none", "loading" or "ready"

FetchTypeOK == cachedValue \in {"none", "loading", "ready"}
FetchInit == cachedValue = "none"

\* fetchServer(): the caller waits for the download.
FetchServer == cachedValue' = IF cachedValue = "none" THEN "loading" ELSE cachedValue

Fetched == cachedValue # "none" /\ cachedValue' = "ready"
FetchFailed == cachedValue = "loading" /\ cachedValue' = "none"
=============================================================================
