--------------------------- MODULE MCLogAnalyzer ---------------------------
(* Small logs for LogAnalyzer.                                             *)
EXTENDS LogAnalyzer

Line(ip, url, status) == [ip |-> ip, url |-> url, status |-> status, fields |-> 3]

Cut(ip, url, fields) == [ip |-> ip, url |-> url, status |-> 0, fields |-> fields]

(* Two lines share their IP, two their URL; two of three are errors, on    *)
(* both ends of the range of IsError.                                      *)
MCIps  == {"ip1", "ip2"}
MCUrls == {"/a", "/b"}
MCLog  == << Line("ip1", "/a", 599), Line("ip1", "/b", 400),
             Line("ip2", "/b", 600) >>

(* The second line has lost its status, as the line of over 99 characters  *)
(* that fgets returns in two chunks; the third all but its IP.             *)
MCCutLog == << Line("ip1", "/a", 404), Cut("ip1", "/b", 2), Cut("ip2", "/a", 1) >>

MCJunk     == {[ip |-> "ip2", url |-> "/a", status |-> 200]}
MCTwoJunks == MCJunk \cup {[ip |-> "ip1", url |-> "/b", status |-> 500]}
=============================================================================
