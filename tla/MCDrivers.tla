----------------------------- MODULE MCDrivers -----------------------------
(* The three drivers, one at a time: they share nothing. *)
EXTENDS Display, Stripe, Motors

VARIABLE driver

vars == <<driver, display_vars, stripe_vars, motor_vars>>

\* The display while another driver is looked at.
Idle ==
  /\ job = [ground |-> "clear", call |-> [op |-> "string", x |-> 0, y |-> 0, text |-> << >>]]
  /\ todo = << >> /\ ram = {} /\ panel = {}
  /\ cursor = [page |-> 0, column |-> 0]
  /\ cmdselect = TRUE

Init ==
  /\ StripeInit
  /\ MotorsInit
  /\ \/ driver = "display" /\ DisplayInit
     \/ driver \in {"stripe", "motors"} /\ Idle

Next ==
  \/ driver = "display" /\ DisplayNext /\ UNCHANGED <<driver, stripe_vars, motor_vars>>
  \/ driver = "stripe" /\ StripeNext /\ UNCHANGED <<driver, display_vars, motor_vars>>
  \/ driver = "motors" /\ MotorsNext /\ UNCHANGED <<driver, display_vars, stripe_vars>>

Spec == Init /\ [][Next]_vars

TypeOK == DisplayTypeOK /\ StripeTypeOK /\ MotorsTypeOK

----------------------------------------------------------------------------
SmallFont ==
  [c \in {"X", "L"} |-> IF c = "X" THEN {<<0, 0>>, <<1, 1>>, <<0, 2>>} ELSE {<<0, 0>>, <<0, 1>>, <<1, 2>>}]

\* One place off the screen at each side.
Columns == 0 .. Width
Rows == 0 .. Height

Lines ==
  {LineCall(x1, y1, x2, y2) : x1 \in Columns, y1 \in Rows, x2 \in Columns, y2 \in Rows}

Rects ==
  {[op |-> "rect", x |-> x1, y |-> y1, tox |-> x2, toy |-> y2, fill |-> f] :
     x1 \in {0, 3, Width - 1, Width}, y1 \in {0, 2, Height - 1},
     x2 \in {1, 3, Width - 1}, y2 \in {1, Height - 1}, f \in BOOLEAN}

Circles ==
  {CircleCall(x, y, r, f) :
     x \in 0 .. Width - 1, y \in 0 .. Height - 1, r \in 0 .. Byte - 1, f \in BOOLEAN}

Texts ==
  {[op |-> "string", x |-> x, y |-> y, text |-> t] :
     x \in {0, 1, Width - 3}, y \in {0, 1, Height - 2},
     t \in { << >>, <<"X">>, <<"L", "X">>, <<"X", "?", "L">>}}

SomeJobs ==
  {[ground |-> "clear", call |-> c] : c \in Lines \cup Rects \cup Circles}
    \cup {[ground |-> g, call |-> c] : g \in {"clear", "invert"}, c \in Texts}
=============================================================================
