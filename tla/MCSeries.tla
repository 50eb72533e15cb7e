------------------------------- MODULE MCSeries -------------------------------
(* Constants for checking Series with TLC.                                 *)
EXTENDS Series, TLC

Places == {"a", "b", "c"}

(* The point b is the nearest valid one of a; c has none.                  *)
Nearest == [x \in Places |-> CASE x = "a" -> "b" [] x = "b" -> "b" [] x = "c" -> Nowhere]

Angles == [x \in Places |-> CASE x = "a" -> "turned" [] x = "b" -> "zero" [] x = "c" -> "none"]

All(pars) == [p \in pars |-> Places]

(* Levels with two models; surface data without radiation and with a gap   *)
(* in time; and climatologies of a leap year, a common year and a century. *)
Hybrid ==
  [at |-> ("Temperature" :> {"b", "c"} @@ All({"Humidity", "WindSpeedMS", "WindUMS", "WindVMS", "Snow1h"})),
   origin |-> (20231 :> 20231 @@ 20232 :> 20232 @@ 20233 :> 20232),
   levels |-> <<500, 300>>, surface |-> FALSE, climatology |-> FALSE, relative |-> TRUE]

Surface ==
  [at |-> ("WindUMS" :> {"b"} @@
           All({"Temperature", "Humidity", "WindSpeedMS", "RadiationGlobal", "Precipitation1h", "WindVMS"})),
   origin |-> (20231 :> 20231 @@ 20233 :> 20231 @@ 20241 :> 20241),
   levels |-> <<10>>, surface |-> TRUE, climatology |-> FALSE, relative |-> FALSE]

Climatology(year) ==
  [at |-> ("Temperature" :> {"b"} @@ All({"Humidity"})),
   origin |-> (10 * year + 1 :> 10 * year + 1 @@ 10 * year + 3 :> 10 * year + 1),
   levels |-> <<10>>, surface |-> TRUE, climatology |-> TRUE, relative |-> FALSE]

Data == {Hybrid, Surface, Climatology(2000), Climatology(1900), Climatology(2024)}

Call(do, par, by, places, times, level, nearest) ==
  [do |-> do, par |-> par, by |-> by, places |-> places, times |-> times,
   level |-> level, nearest |-> nearest]

Values(par, nearest) == Call("values", par, "cursor", <<"a", "c">>, <<20232>>, NoLevel, nearest)

Calls ==
  {Call("values", "Temperature", "cursor", <<"a", "b">>, <<20231, 20242>>, NoLevel, TRUE)}
  \cup {Values(par, TRUE) : par \in {"Humidity", "WindUMS", "WindVMS", "FeelsLike", "NearLatLon"}}
  \cup {Values(par, FALSE) : par \in {"Temperature"} \cup Formula}
  \cup {Call("values", par, "cursor", <<"b">>, <<t>>, NoLevel, TRUE) :
          par \in {"Level", "OriginTime", "NearLatLon", "SunElevation", "WindUMS"}, t \in {20232, 20242}}
  \cup {Call("values", par, "level", <<"a", "b">>, <<20232>>, 400, TRUE) :
          par \in {"Temperature", "WindUMS", "WindVMS", "FeelsLike", "Level"}}
  \cup {Call("matrix", par, "cursor", <<"a", "b", "c">>, <<20232>>, NoLevel, FALSE) :
          par \in {"Temperature", "Snow1h", "WindUMS", "TotalCloudCover"} \cup InMatrix}
  \cup {Call("sample", par, "cursor", <<"a", "c">>, <<t>>, NoLevel, FALSE) :
          par \in {"Temperature", "WindUMS", "Snow1h", "TotalCloudCover"}, t \in {20232, 20253}}
===============================================================================
