----------------------------- MODULE MCWorkspace -----------------------------
(* Three notices in three lists; a host that can do everything, one that only opens links. *)
EXTENDS Workspace

Date(form, day) == [form |-> form, day |-> day]

First ==
  [key |-> "k1", page |-> TRUE, origin |-> "kkj", pdf |-> "page", safeKey |-> TRUE,
   organization |-> "city", deadline |-> Date("iso", 1), opening |-> Date("slash", 2),
   periodEnd |-> Absent, certification |-> "grade_a", matches |-> <<"0001", "0002">>]
Second == [First EXCEPT !.key = "k2", !.deadline = Date("gannen", 1), !.opening = Absent,
             !.origin = "city", !.pdf = "attachment", !.matches = <<>>]
Third == [First EXCEPT !.key = "k3", !.deadline = Date("reiwa", 0), !.page = FALSE,
            !.origin = Absent, !.pdf = Absent, !.safeKey = FALSE]

MCLists == {<<First, Second>>, <<Third>>, <<>>}
MCCapabilities ==
  {{"openLinks"}, {"serverTools", "message", "openLinks", "downloadFile", "updateModelContext"}}
=============================================================================
