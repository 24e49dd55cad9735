------------------------------ MODULE Patterns ------------------------------
(***************************************************************************)
(* The pipelines the brokers accept: each factory of patterns.py, and the  *)
(* registry _build_dag looks them up in.  Demands are in hundredths of a   *)
(* unit of capacity, latency bounds in ms; data rates are left out (the    *)
(* solver does not read them).                                             *)
(***************************************************************************)
EXTENDS Dag

Stage(id, type, demand) ==
  [id |-> id, type |-> type, demand |-> demand, slice |-> None, domain |-> None]
Sliced(s, slice) == [s EXCEPT !.slice = slice]

\* A graph with these stages, and the edges <<source, target, bound>>.
Build(stages, edges) ==
  FoldLeft(LAMBDA d, e : Connect(d, e[1], e[2], e[3]), FoldLeft(Add, EmptyDag, stages), edges)

MapStage == <<"map_0", "map_1", "map_2", "map_3">>
MapPipeline(type, n, demand, bound, slice) ==
  Build([i \in 1..n |-> Sliced(Stage(MapStage[i], type, demand), slice)],
        [i \in 1..(n - 1) |-> <<MapStage[i], MapStage[i + 1], bound>>])

InputStage == <<"input_0", "input_1", "input_2", "input_3">>
FunnelPipeline(n, type, boundIn, boundOut) ==
  Build([i \in 1..n |-> Stage(InputStage[i], type, 30)]
          \o <<Stage("aggregate", "aggregate", 60), Stage("output", "output", 20)>>,
        [i \in 1..n |-> <<InputStage[i], "aggregate", boundIn>>]
          \o << <<"aggregate", "output", boundOut>> >>)

\* "__local__" stands for the domain of the broker: publish resolves it.
CqiPredictionPipeline ==
  Build(<<Sliced([Stage("collect", "collect", 10) EXCEPT !.domain = "__local__"], "URLLC"),
          Sliced(Stage("feature_extract", "feature_extract", 40), "URLLC"),
          Sliced(Stage("predict", "predict", 70), "URLLC")>>,
        << <<"collect", "feature_extract", 2>>, <<"feature_extract", "predict", 3>> >>)

AnomalyDetectionPipeline ==
  Build(<<Sliced(Stage("collect", "collect", 10), "eMBB"),
          Sliced(Stage("feature_extract", "feature_extract", 30), "eMBB"),
          Sliced(Stage("detect", "detect", 80), "eMBB")>>,
        << <<"collect", "feature_extract", 5>>, <<"feature_extract", "detect", 10>> >>)

SensorStage == <<"sensor_0", "sensor_1", "sensor_2", "sensor_3">>
SensorFusionPipeline(n) ==
  Build([i \in 1..n |-> Stage(SensorStage[i], "sensor", 15)]
          \o <<Stage("fuse", "fuse", 50 + 5 * n), Stage("decide", "decide", 60)>>,
        [i \in 1..n |-> <<SensorStage[i], "fuse", 8>>] \o << <<"fuse", "decide", 5>> >>)

CqiPredictionChain8Stage ==
  Build(<<Stage("du_raw_cqi", "data_collect", 10), Stage("du_denoise", "preprocess", 20),
          Stage("cu_normalize", "preprocess", 20), Stage("cu_feature_ext", "feature_extract", 30),
          Stage("ric_predict", "predict", 40), Stage("ric_validate", "predict", 20),
          Stage("nrt_aggregate", "aggregate", 20), Stage("smo_report", "report", 10)>>,
        << <<"du_raw_cqi", "du_denoise", 50>>, <<"du_denoise", "cu_normalize", 20>>,
           <<"cu_normalize", "cu_feature_ext", 10>>, <<"cu_feature_ext", "ric_predict", 20>>,
           <<"ric_predict", "ric_validate", 10>>, <<"ric_validate", "nrt_aggregate", 30>>,
           <<"nrt_aggregate", "smo_report", 20>> >>)

RanSources == <<"du_metrics", "du_rf_meas", "cu_cp_signaling", "cu_up_traffic">>
RanAnomalyDetection8Stage ==
  Build([i \in 1..4 |-> Stage(RanSources[i], "data_collect", 10)]
          \o <<Stage("ric_fuse", "fuse", 30), Stage("ric_classify", "detect", 40),
               Stage("nrt_alert", "aggregate", 20), Stage("smo_log", "report", 10)>>,
        [i \in 1..4 |-> <<RanSources[i], "ric_fuse", 20>>]
          \o << <<"ric_fuse", "ric_classify", 10>>, <<"ric_classify", "nrt_alert", 30>>,
                <<"nrt_alert", "smo_log", 20>> >>)

RanIntelligenceSuite8Stage ==
  Build(<<Stage("du_raw_cqi", "data_collect", 10), Stage("du_ue_mobility", "data_collect", 10),
          Stage("cu_feature_extract", "feature_extract", 30),
          Stage("cu_cell_load", "data_collect", 10), Stage("cu_load_normalize", "preprocess", 20),
          Stage("ric_cqi_predict", "predict", 40), Stage("ric_anomaly_detect", "detect", 30),
          Stage("ric_mobility_predict", "predict", 40)>>,
        << <<"du_raw_cqi", "cu_feature_extract", 50>>, <<"cu_cell_load", "cu_load_normalize", 10>>,
           <<"du_ue_mobility", "ric_mobility_predict", 50>>,
           <<"cu_feature_extract", "ric_cqi_predict", 20>>,
           <<"cu_feature_extract", "ric_anomaly_detect", 20>>,
           <<"cu_load_normalize", "ric_anomaly_detect", 20>>,
           <<"cu_load_normalize", "ric_cqi_predict", 30>>,
           <<"ric_mobility_predict", "ric_cqi_predict", 30>>,
           <<"ric_mobility_predict", "ric_anomaly_detect", 30>>,
           <<"cu_cell_load", "cu_feature_extract", 50>> >>)

(***************************************************************************)
(* The registry, with the parameters a request gives when it gives none.   *)
(***************************************************************************)
PipelineFactories ==
  [cqi_prediction |-> CqiPredictionPipeline,
   anomaly_detection |-> AnomalyDetectionPipeline,
   sensor_fusion |-> SensorFusionPipeline(3),
   map |-> MapPipeline("transform", 3, 50, 10, None),
   funnel |-> FunnelPipeline(3, "ingest", 10, 5),
   cqi_chain |-> CqiPredictionChain8Stage,
   anomaly_sp |-> RanAnomalyDetection8Stage,
   ran_entangled |-> RanIntelligenceSuite8Stage]

BuildDag(pipelineType) == PipelineFactories[pipelineType]
=============================================================================
