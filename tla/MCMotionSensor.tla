--------------------------- MODULE MCMotionSensor ---------------------------
(* Lines of a name and a field of two characters: a buffer has room for one
   and for the name of another. *)
EXTENDS MotionSensor

MCPartLens == <<1, 2>>
MCUnits == (1 .. 3) \X (1 .. 2) \X (1 .. 2)
MCReadings == {Least, -10203}

(* type_change for every 16-bit reading but the least one: five digits and a sign that
   read back as the reading. *)
ASSUME EveryReadingReadsBack ==
    \A n \in Int16 \ {Least} : Digits(TypeChange(n)) /\ Value(TypeChange(n)) = n
=============================================================================
