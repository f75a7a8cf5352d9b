--------------------------- MODULE MCFastDecoder ---------------------------
(* Small instances of FastDecoder for TLC. *)
EXTENDS FastDecoder, TLC

AnyCharacter == {"[", "]", "{", "}", "0", "1"}

\* Payloads, by what they hold: JSON with an array or an error in "d", with
\* anything else in "d", JSON that is no object; what is missing is not JSON.
Array  == <<"[", "]">>
Error  == <<"{", "}">>
Other  == <<"0">>
Scalar == <<"1">>
Cut    == <<"[">>
AnyJson == Array :> "array" @@ Error :> "error" @@ Other :> "other"
                @@ Scalar :> "scalar"

Good == { Encode(1, 1, 1, Array), Encode(2, 2, 0, Array), Encode(2, 3, 1, Error) }

\* One field wrong, or data of the wrong kind.
Bad ==
    LET good == Encode(2, 1, 1, Array)
    IN  { Encode(0, 1, 1, Array), Encode(3, 1, 1, Array),
          [good EXCEPT !.type = 0], Encode(2, 0, 1, Array),
          Encode(2, 4, 1, Array), Encode(2, 1, 2, Array),
          [good EXCEPT !.crc = Encode(1, 1, 1, Array).crc],
          [Encode(1, 1, 1, Array) EXCEPT !.crc = good.crc],
          [good EXCEPT !.data = Error] }
        \cup { Encode(2, 1, 1, data) : data \in {<<>>, Cut, Scalar, Other, Error} }
        \cup { Encode(2, 3, 1, Array) }

AnyStream ==
    {<<>>} \cup {<<f>> : f \in Good \cup Bad}
    \cup {<<f, g>> : f \in Good, g \in Good \cup Bad}
    \cup {<<f, g, h>> : f \in Bad, g \in Good, h \in Good}
    \cup {<<f, g, h>> : f \in Good, g \in Good, h \in Good}
=============================================================================
