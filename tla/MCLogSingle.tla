---------------------------- MODULE MCLogSingle ----------------------------
(* A small log for LogSingle.                                              *)
EXTENDS LogSingle

Line(ip, url, status) == [ip |-> ip, url |-> url, status |-> status, fields |-> 3]

Cut(ip, url, fields) == [ip |-> ip, url |-> url, status |-> 0, fields |-> fields]

MCIps  == {"ip1", "ip2", "ip3"}
MCUrls == {"/a", "/b"}

(* The four boundaries of the error range, repeated keys and keys that     *)
(* occur once, blank lines, the first among them, and lines cut after the  *)
(* IP and after the URL, after an error and after a success.               *)
MCLog == << Cut("ip1", "/b", 0),
            Line("ip1", "/a", 399), Line("ip2", "/b", 400), Cut("ip2", "/b", 2),
            Line("ip1", "/b", 599), Cut("ip3", "/b", 1), Line("ip1", "/a", 600),
            Cut("ip3", "/b", 0), Line("ip2", "/a", 403) >>

MCJunk == {[ip |-> "ip3", url |-> "/a", status |-> 500],
           [ip |-> "ip1", url |-> "/b", status |-> 200]}
=============================================================================
