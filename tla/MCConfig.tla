------------------------------ MODULE MCConfig ------------------------------
(***************************************************************************)
(* A valid configuration, and for every kind of field the values at and    *)
(* beyond the ends of its range, unset, null, absent and of another type.  *)
(***************************************************************************)
EXTENDS Config

MCProfile ==
    [f \in Fields |->
        CASE Kind[f] = "schema" -> {"1.0"}
          [] Kind[f] = "profile" -> {"name"}
          [] Kind[f] = "unit" -> {"millimeter"}
          [] Kind[f] = "frame" -> {"fixture"}
          [] Kind[f] = "neighbors" -> {3}
          [] Kind[f] = "negative" -> {-2}
          [] Kind[f] \in {"nonnegative", "ratio"} -> {1}
          [] Kind[f] = "flag" -> {TRUE}
          [] Kind[f] = "method" -> {"point_to_plane"}
          [] Kind[f] = "backend" -> {"cpu"}
          [] OTHER -> {2}]

MCRawValues ==
    [schema |-> {{}, {"2.0"}},
     profile |-> {{}, {"malformed"}},
     unit |-> {{}, {"meter"}, {"unsupported"}},
     frame |-> {{}, {"other"}},
     neighbors |-> {{}, {2}, {4}},
     iterations |-> {{}, {0}, {1000}, {1001}},
     count |-> {{}, {0}, {1}},
     positive |-> {{}, {0}, {1}, {NonFinite}},
     nonnegative |-> {{}, {-1}, {0}, {2}, {NonFinite}},
     negative |-> {{}, {0}, {-1}, {NonFinite}},
     ratio |-> {{}, {-1}, {0}, {2}, {NonFinite}},
     rotation |-> {{}, {0}, {180}, {181}, {NonFinite}},
     angle |-> {{}, {-1}, {90}, {91}, {NonFinite}},
     flag |-> {{}, {FALSE}},
     seed |-> {{}, {5}},
     method |-> {{"gicp"}, {"unsupported"}},
     backend |-> {{"gpu"}, {"unsupported"}}]

Number(v) == <<"number", v>>
Text(v) == <<"string", v>>
Loose == {<<"absent">>, <<"null">>, Text("other"), <<"boolean", TRUE>>}
UIntNumbers == {Number(0), Number(3), Number(-1), Number(1001), Number(UInt32Modulus + 3)}

MCJsonValues ==
    [schema |-> {<<"absent">>, <<"null">>, Text("2.0"), Number(1)},
     profile |-> {<<"absent">>, <<"null">>, Text(""), Number(1)},
     unit |-> {<<"absent">>, <<"null">>, Text("meter"), Text("inch"), Number(1)},
     frame |-> {<<"absent">>, <<"null">>, Text("other"), Text(""), Number(1)},
     neighbors |-> Loose \union UIntNumbers,
     iterations |-> Loose \union UIntNumbers,
     count |-> Loose \union UIntNumbers,
     positive |-> Loose \union {Number(0), Number(1)},
     nonnegative |-> Loose \union {Number(-1), Number(2)},
     negative |-> Loose \union {Number(0), Number(-1)},
     ratio |-> Loose \union {Number(0), Number(2)},
     rotation |-> Loose \union {Number(180), Number(181)},
     angle |-> Loose \union {Number(90), Number(91)},
     flag |-> Loose \union {Number(1)},
     seed |-> Loose \union {Number(-1)},
     method |-> {<<"absent">>, <<"null">>, Text("gicp"), Text("unknown"), Number(1)},
     backend |-> {<<"absent">>, <<"null">>, Text("gpu"), Text("unknown"), Number(1)}]
=============================================================================
