------------------------------ MODULE HTTPClient ------------------------------
(***************************************************************************)
(* HTTP::Client (simgear/io/HTTPClient.cxx) as a caller on its own thread  *)
(* sees it: a table of requests under way.  A request enters the table     *)
(* with makeRequest and leaves it before any of its callbacks runs, either *)
(* because an answer has been read in update or because it was cancelled.  *)
(* libcurl and the server decide what the answer is; the callbacks belong  *)
(* to the request (HTTPRepository).                                        *)
(*                                                                         *)
(* A cancellation that is asked for inside curl_multi_perform is put off   *)
(* to the end of it; since nothing of the program runs in between, it is   *)
(* one step here.  The list of those is never cleared, but no request      *)
(* object is handed in twice, so what stays in it does nothing.            *)
(***************************************************************************)
CONSTANT Requests

VARIABLE requests      \* ClientPrivate::requests: the requests under way

ClientTypeOK == requests \subseteq Requests

ClientInit == requests = {}

(* makeRequest, with an assertion that the request is not in the table.    *)
MakeRequest(r) ==
    /\ r \notin requests
    /\ requests' = requests \cup {r}

(* update reads the answer to a request.                                   *)
Answered(r) ==
    /\ r \in requests
    /\ requests' = requests \ {r}

(* cancelRequest, for a request that is not about to be answered.          *)
CancelRequest(r) ==
    /\ r \in requests
    /\ requests' = requests \ {r}
=============================================================================
