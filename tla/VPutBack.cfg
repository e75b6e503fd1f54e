CONSTANT Drills <- NodeDeaths
SPECIFICATION Spec
PROPERTY PutBackEverywhere
