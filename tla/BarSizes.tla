------------------------------ MODULE BarSizes ------------------------------
(***************************************************************************)
(* The bar sizes of candles and the tables about them (src/src/okx.cpp,    *)
(* src/include/stonky/okx/okx_enums.h).  A bar size is written as          *)
(* enum_name() writes it for the exchange, a channel as the exchange names *)
(* it.                                                                     *)
(***************************************************************************)
EXTENDS Naturals

BarSize == {"1m", "3m", "5m", "15m", "30m", "1H", "2H", "4H", "6H", "12H",
            "1D", "2D", "3D", "1W", "1M", "3M"}

CandlestickChannel ==
  {"candle1m", "candle3m", "candle5m", "candle15m", "candle30m", "candle1H",
   "candle2H", "candle4H", "candle6H", "candle12H", "candle1D", "candle2D",
   "candle3D", "candle1W", "candle1M", "candle3M"}

\* What a channel is looked up by, before a subscription and after an event.
barSizeToCandlestickChannel(size) ==
  CASE size = "1m"  -> "candle1m"
    [] size = "3m"  -> "candle3m"
    [] size = "5m"  -> "candle5m"
    [] size = "15m" -> "candle15m"
    [] size = "30m" -> "candle30m"
    [] size = "1H"  -> "candle1H"
    [] size = "2H"  -> "candle2H"
    [] size = "4H"  -> "candle4H"
    [] size = "6H"  -> "candle6H"
    [] size = "12H" -> "candle12H"
    [] size = "1D"  -> "candle1D"
    [] size = "2D"  -> "candle2D"
    [] size = "3D"  -> "candle3D"
    [] size = "1W"  -> "candle1W"
    [] size = "1M"  -> "candle1M"
    [] size = "3M"  -> "candle3M"
    [] OTHER        -> "candle1H"

candlestickChannelToBarSize(channel) ==
  CASE channel = "candle1m"  -> "1m"
    [] channel = "candle3m"  -> "3m"
    [] channel = "candle5m"  -> "5m"
    [] channel = "candle15m" -> "15m"
    [] channel = "candle30m" -> "30m"
    [] channel = "candle1H"  -> "1H"
    [] channel = "candle2H"  -> "2H"
    [] channel = "candle4H"  -> "4H"
    [] channel = "candle6H"  -> "6H"
    [] channel = "candle12H" -> "12H"
    [] channel = "candle1D"  -> "1D"
    [] channel = "candle2D"  -> "2D"
    [] channel = "candle3D"  -> "3D"
    [] channel = "candle1W"  -> "1W"
    [] channel = "candle1M"  -> "1M"
    [] channel = "candle3M"  -> "3M"
    [] OTHER                 -> "1H"

\* The bar sizes that isValidBarSize() finds for a number of minutes.
isValidBarSize(size, barSize) ==
  <<size, barSize>> \in
    {<<1, "1m">>, <<3, "3m">>, <<5, "5m">>, <<15, "15m">>, <<30, "30m">>,
     <<60, "1H">>, <<120, "2H">>, <<240, "4H">>, <<360, "6H">>, <<720, "12H">>,
     <<1440, "1D">>, <<2880, "2D">>, <<4320, "3D">>, <<10080, "1W">>,
     <<40320, "1M">>, <<120960, "3M">>}

Day == 86400 * 1000

\* A month has 30 days.
numberOfMsForBarSize(size) ==
  CASE size = "1m"  -> 60000
    [] size = "3m"  -> 60000 * 3
    [] size = "5m"  -> 60000 * 5
    [] size = "15m" -> 60000 * 15
    [] size = "30m" -> 60000 * 30
    [] size = "1H"  -> 60000 * 60
    [] size = "2H"  -> 60000 * 120
    [] size = "4H"  -> 60000 * 240
    [] size = "6H"  -> 60000 * 360
    [] size = "12H" -> 60000 * 720
    [] size = "1D"  -> Day
    [] size = "2D"  -> Day * 2
    [] size = "3D"  -> Day * 3
    [] size = "1W"  -> Day * 7
    [] size = "1M"  -> Day * 30
    [] size = "3M"  -> Day * 30 * 3
    [] OTHER        -> 0
=============================================================================
