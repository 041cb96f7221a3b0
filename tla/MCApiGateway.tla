---------------------------- MODULE MCApiGateway ---------------------------
(***************************************************************************)
(* Groups of calls: two registrations of one email and two updates   *)
(* of the profile; one user's addresses, created, deleted and made the     *)
(* default by four calls at once; an address that becomes the default      *)
(* after its creation; and no call at all, for the products query over     *)
(* five products.                                                          *)
(***************************************************************************)
EXTENDS ApiGateway

Register(email) == [op |-> "register", email |-> email]
Address(isDefault) ==
  [op |-> "create", user |-> "ann", type |-> "SHIPPING", default |-> isDefault]
Update(fields, address) ==
  [op |-> "update", user |-> "ann", type |-> "SHIPPING", default |-> TRUE,
   fields |-> fields, address |-> address]
About(op, target) ==
  [op |-> op, user |-> "ann", type |-> "SHIPPING", target |-> target]

SmallAsked == [
  ann |-> Register("ann@shop"),
  annAgain |-> Register("ann@shop"),
  rename |-> Update({"name"}, TRUE),
  setPhone |-> Update({"phone"}, FALSE),
  move |-> Address(TRUE),
  spare |-> Address(FALSE),
  setHome |-> About("set", "rename"),
  setSpare |-> About("set", "spare"),
  deleteHome |-> About("delete", "rename")]
SmallCalls == DOMAIN SmallAsked

SmallArrivals == {
  {"ann", "annAgain", "rename", "setPhone"},
  {"ann", "rename", "move", "setHome", "deleteHome"},
  {"ann", "rename", "spare", "setSpare"},
  {}}
=============================================================================
