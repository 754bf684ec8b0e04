----------------------------- MODULE MCConsole -----------------------------
(* Console with a tablet and a keyboard in one device, beside an interface *)
(* of another class and one without an interrupt endpoint.                 *)
EXTENDS Console

Interface(hid, protocol) == [type |-> "interface", hid |-> hid, protocol |-> protocol]
Endpoint(interrupt)      == [type |-> "endpoint", interrupt |-> interrupt]

ConfigDef ==
  << [type |-> "configuration"], Interface(FALSE, 1), Endpoint(TRUE),
     Interface(TRUE, 2), [type |-> "hid"], Endpoint(FALSE), Endpoint(TRUE),
     Interface(TRUE, 1), [type |-> "hid"], Endpoint(TRUE) >>
=============================================================================
