---------------------------- MODULE MCInputStream ----------------------------
(* Instances of InputStream for TLC.                                       *)
EXTENDS InputStream

MinusTwo == -2

E(kind, num, type, buttons, val) ==
  [kind |-> kind, num |-> num, type |-> type, buttons |-> buttons,
   val |-> val, reliable |-> TRUE]

Move(x, y)     == E("rel", 0, "none", 0, <<x, y>>)
Position(x)    == E("abs", 0, "none", 0, <<x, 4>>)
Shift(d)       == E("relAsAbs", 0, "none", 0, <<d, 4>>)
Click(b)       == E("button", 0, "none", b, <<0>>)
Key(n)         == E("key", 0, "none", n, <<0>>)
Text(s)        == E("text", 0, "none", 0, s)
Scroll(d)      == E("scroll", 0, "none", 0, <<d>>)
HScroll(d)     == E("hscroll", 0, "none", 0, <<d>>)
Touch(type)    == E("touch", 0, type, 0, <<0>>)
CTouch(type)   == E("ctouch", 0, type, 0, <<0>>)
Pen(type, b)   == E("pen", 0, type, b, <<0>>)
Pad(n, b, v)   == E("controller", n, "none", b, <<v>>)
Arrival(n)     == E("arrival", n, "none", 0, <<0>>)
Battery        == E("battery", 0, "none", 0, <<0>>)
Gyro(v)        == E("motion", 0, "gyro", 0, <<v>>)
Accel(v)       == E("motion", 1, "accel", 0, <<v>>)

C(a, b, sunshine, haptics, sendFails, sessions, bound) ==
  [scripts |-> [c \in Callers |-> IF c = "ui" THEN a ELSE b],
   sunshine |-> sunshine, haptics |-> haptics, sendFails |-> sendFails,
   sessions |-> sessions, bound |-> bound]

(* What could go wrong in each: two threads that move the mouse, with      *)
(* packets and a queue that are too small; clicks between motion while     *)
(* other input fills the queue; merging for a controller and a pen; motion *)
(* of sensors that stops; notches of the wheel; and the calls that are not *)
(* merged, for a host that knows them and for one that does not.           *)
SomeConfigs ==
  {C(<<Move(1, -2), Move(1, -2)>>, <<Move(1, 1), Position(3)>>,
     TRUE, FALSE, TRUE, 1, 1),
   C(<<Move(1, 0), Click(1), Move(1, 0), Click(0)>>, <<>>,
     TRUE, FALSE, TRUE, 2, 2),
   C(<<Pad(0, 0, 1), Pad(0, 0, 2), Pad(0, 1, 2)>>, <<Arrival(1)>>,
     TRUE, FALSE, FALSE, 1, 5),
   C(<<Pen("move", 0), Pen("move", 0), Pen("move", 1), Pen("up", 1)>>, <<>>,
     TRUE, TRUE, TRUE, 1, 2),
   C(<<Gyro(1), Gyro(0)>>, <<Accel(1), Gyro(2)>>, TRUE, FALSE, FALSE, 1, 2),
   C(<<Scroll(5), Scroll(-1), Scroll(-2)>>, <<Key(1)>>,
     FALSE, FALSE, FALSE, 1, 2),
   C(<<Scroll(1), HScroll(1)>>, <<CTouch("down"), Battery>>,
     TRUE, FALSE, FALSE, 1, 2),
   C(<<Text(<<1, 4, 0, 2>>), Text(<<1>>), Touch("move")>>,
     <<Shift(2), Click(1)>>, TRUE, FALSE, TRUE, 1, 2),
   C(<<Touch("move"), Pen("move", 0), HScroll(1), Move(0, 0), Scroll(0)>>,
     <<Arrival(1), Gyro(1), Battery>>, FALSE, FALSE, FALSE, 1, 2)}

(* A controller whose packet finds the queue full, and one that is used    *)
(* again after a connection that broke                                     *)
ControllerConfigs ==
  {C(<<Pad(0, 0, 1), Pad(0, 1, 1), Pad(0, 1, 2)>>, <<>>,
     TRUE, FALSE, FALSE, 1, 1),
   C(<<Key(1), Pad(0, 0, 1), Pad(0, 0, 2)>>, <<>>, TRUE, FALSE, TRUE, 2, 2)}
=============================================================================
